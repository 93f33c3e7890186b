--------------------------- MODULE BookingsProofs ---------------------------
(***************************************************************************)
(* What TLAPS proves about Bookings, for any number of requests, slots and *)
(* bookings.                                                               *)
(*                                                                         *)
(* TablesAgreeUnlessLostUpdate is not inductive: the commit of a cancel    *)
(* frees txn[r].slot whatever it is.  IInv adds what the row locks keep    *)
(* true between the statements of a transaction: a lock has one holder,    *)
(* a create that holds its slot finds it open still, a status change that  *)
(* was not stale when it locked its booking is not stale at its commit,    *)
(* and an ending transition has locked exactly the slot of its booking.    *)
(***************************************************************************)
EXTENDS Bookings, Counting, TLAPS

\* What the handler of each endpoint has in its locals.
ShapeOK ==
    \A r \in Requests :
        /\ txn[r].op = "none" => txn[r] = Idle
        /\ txn[r].op \in Transitions =>
              /\ txn[r].booking \in BookingIds
              /\ status[txn[r].booking] # "absent"
              /\ txn[r].step # "locked" => txn[r].slot = NoSlot
              /\ txn[r].step \notin {"matched", "locked"} => txn[r].locks = {}
              /\ txn[r].slot \in SlotIds => txn[r].slot \in txn[r].locks
        /\ txn[r].op \in {"create", "delete"} =>
              /\ txn[r].slot \in SlotIds
              /\ txn[r].step \in {"checked", "locked"}
              /\ txn[r].locks = IF txn[r].step = "locked" THEN {txn[r].slot} ELSE {}
        /\ txn[r].op = "create" =>
              /\ txn[r].booking \in BookingIds
              /\ ~txn[r].stale
              /\ status[txn[r].booking] = "absent"
        /\ txn[r].op = "delete" => txn[r].booking = NoBooking

\* No two transactions hold one row, nor insert one row.
LocksExclusive ==
    \A q, r \in Requests :
        /\ \A b \in BookingIds : HoldsBooking(q, b) /\ HoldsBooking(r, b) => q = r
        /\ \A s \in SlotIds : HoldsSlot(q, s) /\ HoldsSlot(r, s) => q = r
        /\ txn[q].op = "create" /\ txn[r].booking = txn[q].booking => q = r

\* What was checked under a lock, or overwritten under one, holds until the
\* lock is released.
LockedStays ==
    \A r \in Requests :
        /\ At(r, "create", "locked") => slotState[txn[r].slot] = "open"
        /\ At(r, "delete", "locked") /\ ~txn[r].stale =>
              slotState[txn[r].slot] # "booked"
        /\ \A b \in BookingIds :
              HoldsBooking(r, b) /\ ~txn[r].stale => status[b] \in From(txn[r].op)

\* What a handler knows of the slots it is about to change, stale or not: a
\* delete was asked for a row that was there, and a reject or cancel matches,
\* and frees, slots like its booking's.
KnowsSlots ==
    \A r \in Requests :
        /\ txn[r].op = "delete" =>
              /\ slotState[txn[r].slot] # "absent"
              /\ txn[r].step = "locked" /\ txn[r].stale =>
                    slotState[txn[r].slot] = "booked"
        /\ txn[r].op \in Ending =>
              /\ \A s \in txn[r].found : Matches(s, txn[r].booking)
              /\ txn[r].step = "matched" =>
                    \A s \in txn[r].locks : Matches(s, txn[r].booking)
              /\ txn[r].slot \in SlotIds =>
                    /\ Matches(txn[r].slot, txn[r].booking)
                    /\ slotState[txn[r].slot] = "booked"

\* A reject or cancel that is not stale selects and locks its booking's slot.
EndsOwnSlot ==
    \A r \in Requests :
        /\ txn[r].op \in Ending /\ ~txn[r].stale /\ txn[r].step = "matched" =>
              visit[txn[r].booking] \in txn[r].found
        /\ txn[r].op \in Ending /\ ~txn[r].stale /\ txn[r].step = "locked" =>
              txn[r].slot = visit[txn[r].booking]

IInv ==
    /\ TypeOK
    /\ ShapeOK
    /\ LocksExclusive
    /\ LockedStays
    /\ KnowsSlots
    /\ ~lostUpdate => TablesAgree /\ EndsOwnSlot

-----------------------------------------------------------------------------

\* The fields of a handler that has nothing to do.
LEMMA IdleFields ==
    /\ Idle \in Request
    /\ Idle.op = "none" /\ Idle.step = "idle" /\ Idle.booking = NoBooking
    /\ Idle.slot = NoSlot /\ Idle.found = {} /\ Idle.locks = {}
    /\ Idle.stale = FALSE
BY DEF Idle, Request, Ops, Steps

\* With empty tables and idle handlers there is nothing to disagree about.
LEMMA InitIInv == Init => IInv
<1> SUFFICES ASSUME Init PROVE IInv
  OBVIOUS
<1> USE DEF Init
<1>1. TypeOK
  <2>1. now \in 0 .. MaxTime
    BY BoundsAssumption
  <2>2. txn \in [Requests -> Request]
    BY IdleFields
  <2>3. /\ slotState \in [SlotIds -> SlotStates]
        /\ status \in [BookingIds -> Statuses]
        /\ \A b \in BookingIds : status[b] = "absent"
    BY DEF SlotStates, Statuses
  <2>4. visit \in [BookingIds -> SlotIds \cup {NoSlot}] /\ lostUpdate \in BOOLEAN
    OBVIOUS
  <2>5. QED
    BY <2>1, <2>2, <2>3, <2>4 DEF TypeOK
<1>2. \A r \in Requests : txn[r] = Idle
  OBVIOUS
<1>3. ShapeOK
  BY <1>2, IdleFields DEF ShapeOK, Transitions
<1>4. LocksExclusive
  BY <1>2, IdleFields DEF LocksExclusive, HoldsBooking, HoldsSlot
<1>5. LockedStays
  BY <1>2, IdleFields DEF LockedStays, At, HoldsBooking
<1>6. KnowsSlots
  BY <1>2, IdleFields DEF KnowsSlots, Ending
<1>7. TablesAgree
  BY DEF TablesAgree, NoDoubleBooking, Live
<1>8. EndsOwnSlot
  BY <1>2, IdleFields DEF EndsOwnSlot
<1>9. QED
  BY <1>1, <1>3, <1>4, <1>5, <1>6, <1>7, <1>8 DEF IInv

\* A step of r changes the locals of no other handler.
LEMMA OneHandler ==
    ASSUME TypeOK, NEW r \in Requests, NEW t \in Request,
           txn' = [txn EXCEPT ![r] = t]
    PROVE  /\ txn' \in [Requests -> Request]
           /\ txn'[r] = t
           /\ \A q \in Requests : q # r => txn'[q] = txn[q]
BY DEF TypeOK

-----------------------------------------------------------------------------
(***************************************************************************)
(* Steps that change no row.                                               *)
(***************************************************************************)

\* A handler that takes no lock it did not have, and keeps what it knows,
\* disturbs nothing; `t` is what its locals become.
LEMMA RowsUnchanged ==
    ASSUME IInv, NEW r \in Requests, NEW t \in Request,
           txn' = [txn EXCEPT ![r] = t],
           UNCHANGED <<slotState, status, visit, now, lostUpdate>>,
           t.op = "none" => t = Idle,
           t.op \in Transitions =>
              /\ t.booking \in BookingIds
              /\ status[t.booking] # "absent"
              /\ t.step # "locked" => t.slot = NoSlot
              /\ t.step \notin {"matched", "locked"} => t.locks = {}
              /\ t.slot \in SlotIds => t.slot \in t.locks
              /\ t.step \in {"updated", "matched", "locked"} =>
                    /\ \A q \in Requests \ {r} : ~HoldsBooking(q, t.booking)
                    /\ ~t.stale => status[t.booking] \in From(t.op),
           t.op \in {"create", "delete"} =>
              /\ t.slot \in SlotIds
              /\ t.step \in {"checked", "locked"}
              /\ t.locks = IF t.step = "locked" THEN {t.slot} ELSE {},
           t.op = "create" =>
              /\ t.booking \in BookingIds
              /\ ~t.stale
              /\ status[t.booking] = "absent"
              /\ \A q \in Requests \ {r} : txn[q].booking # t.booking
              /\ t.step = "locked" => slotState[t.slot] = "open",
           t.op = "delete" =>
              /\ t.booking = NoBooking
              /\ slotState[t.slot] # "absent"
              /\ t.step = "locked" => (t.stale <=> slotState[t.slot] = "booked"),
           t.op \in Ending =>
              /\ \A s \in t.found : Matches(s, t.booking)
              /\ t.step = "matched" => \A s \in t.locks : Matches(s, t.booking)
              /\ t.slot \in SlotIds =>
                    Matches(t.slot, t.booking) /\ slotState[t.slot] = "booked",
           \A s \in t.locks, q \in Requests \ {r} : ~HoldsSlot(q, s),
           ~lostUpdate /\ t.op \in Ending /\ ~t.stale =>
              /\ t.step = "matched" => visit[t.booking] \in t.found
              /\ t.step = "locked" => t.slot = visit[t.booking]
    PROVE  IInv'
<1>1. /\ txn' \in [Requests -> Request]
      /\ txn'[r] = t
      /\ \A q \in Requests : q # r => txn'[q] = txn[q]
  BY OneHandler DEF IInv
<1>2. TypeOK'
  BY <1>1 DEF IInv, TypeOK
<1>3. ShapeOK'
  BY <1>1 DEF IInv, ShapeOK
<1>4. LocksExclusive'
  <2> SUFFICES ASSUME NEW q \in Requests, NEW p \in Requests, q # p
               PROVE  /\ \A b \in BookingIds : ~(HoldsBooking(q, b) /\ HoldsBooking(p, b))'
                      /\ \A s \in SlotIds : ~(HoldsSlot(q, s) /\ HoldsSlot(p, s))'
                      /\ ~(txn[q].op = "create" /\ txn[p].booking = txn[q].booking)'
    BY DEF LocksExclusive
  <2>1. CASE q # r /\ p # r
    BY <1>1, <2>1 DEF IInv, LocksExclusive, HoldsBooking, HoldsSlot
  <2>2. CASE q = r
    <3>1. txn'[q] = t /\ txn'[p] = txn[p] /\ p \in Requests \ {r}
      BY <1>1, <2>2
    <3>2. QED
      BY <3>1 DEF HoldsBooking, HoldsSlot
  <2>3. CASE p = r
    <3>1. txn'[p] = t /\ txn'[q] = txn[q] /\ q \in Requests \ {r}
      BY <1>1, <2>3
    <3>2. \A b \in BookingIds : ~(HoldsBooking(q, b) /\ HoldsBooking(p, b))'
      BY <3>1 DEF HoldsBooking
    <3>3. \A s \in SlotIds : ~(HoldsSlot(q, s) /\ HoldsSlot(p, s))'
      BY <3>1 DEF HoldsSlot
    <3>4. ASSUME txn[q].op = "create", t.booking = txn[q].booking PROVE FALSE
      <4>1. t.booking \in BookingIds /\ status[t.booking] = "absent"
        BY <3>1, <3>4 DEF IInv, ShapeOK
      <4>2. t.op \notin Transitions \cup {"none", "create", "delete"}
        BY <3>1, <3>4, <4>1, IdleFields, BookingsAssumption
      <4>3. QED
        BY <4>2 DEF Request, Ops, Transitions
    <3>5. QED
      BY <3>1, <3>2, <3>3, <3>4
  <2>4. QED
    BY <2>1, <2>2, <2>3
<1>5. LockedStays'
  BY <1>1 DEF IInv, LockedStays, At, HoldsBooking
<1>6. (~lostUpdate => TablesAgree)'
  BY DEF IInv, TablesAgree, NoDoubleBooking, Live
<1>7. KnowsSlots'
  <2> SUFFICES ASSUME NEW q \in Requests
               PROVE  /\ txn'[q].op = "delete" =>
                            /\ slotState[txn'[q].slot] # "absent"
                            /\ txn'[q].step = "locked" /\ txn'[q].stale =>
                                  slotState[txn'[q].slot] = "booked"
                      /\ txn'[q].op \in Ending =>
                            /\ \A s \in txn'[q].found : Matches(s, txn'[q].booking)
                            /\ txn'[q].step = "matched" =>
                                  \A s \in txn'[q].locks : Matches(s, txn'[q].booking)
                            /\ txn'[q].slot \in SlotIds =>
                                  /\ Matches(txn'[q].slot, txn'[q].booking)
                                  /\ slotState[txn'[q].slot] = "booked"
    BY DEF KnowsSlots, Matches
  <2>1. CASE q = r
    BY <1>1, <2>1
  <2>2. CASE q # r
    BY <1>1, <2>2 DEF IInv, KnowsSlots
  <2>3. QED
    BY <2>1, <2>2
<1>8. (~lostUpdate => EndsOwnSlot)'
  BY <1>1 DEF IInv, EndsOwnSlot
<1>9. QED
  BY <1>2, <1>3, <1>4, <1>5, <1>6, <1>7, <1>8 DEF IInv

\* A rollback leaves every row as it was.
LEMMA AbortIInv == ASSUME IInv, NEW r \in Requests, Abort(r) PROVE IInv'
<1>1. txn' = [txn EXCEPT ![r] = Idle]
  BY DEF Abort, Finish
<1>2. QED
  BY <1>1, IdleFields, RowsUnchanged DEF Abort, Transitions, Ending

\* create_booking, up to its commit.
LEMMA StartCreateIInv ==
    ASSUME IInv, NEW r \in Requests, NEW b \in BookingIds, NEW s \in SlotIds,
           StartCreate(r, b, s)
    PROVE  IInv'
<1> DEFINE t == [Idle EXCEPT !.op = "create", !.step = "checked",
                             !.booking = b, !.slot = s]
<1>1. /\ t \in Request
      /\ t.op = "create" /\ t.step = "checked" /\ t.booking = b /\ t.slot = s
      /\ t.locks = {} /\ ~t.stale
  BY DEF Idle, Request, Ops, Steps
<1>2. status[b] = "absent" /\ \A q \in Requests : txn[q].booking # b
  BY DEF StartCreate, Fresh
<1>3. txn' = [txn EXCEPT ![r] = t]
  BY DEF StartCreate, Begin
<1> HIDE DEF t
<1>4. QED
  BY <1>1, <1>2, <1>3, RowsUnchanged DEF StartCreate, Transitions, Ending

\* The lock on the slot, with the second look at it.
LEMMA LockSlotIInv == ASSUME IInv, NEW r \in Requests, LockSlot(r) PROVE IInv'
<1> DEFINE s == txn[r].slot
           t == [txn[r] EXCEPT !.step = "locked", !.locks = {txn[r].slot}]
<1>1. /\ txn[r] \in Request /\ txn[r].op = "create"
      /\ SlotFree(s) /\ s \in SlotIds
      /\ UNCHANGED <<slotState, status, visit, now, lostUpdate>>
  BY DEF LockSlot, At, IInv, TypeOK, ShapeOK
<1>2. CASE txn' = [txn EXCEPT ![r] = Idle]
  BY <1>1, <1>2, IdleFields, RowsUnchanged DEF Transitions, Ending
<1>3. CASE Available(s) /\ txn' = [txn EXCEPT ![r] = t]
  <2>1. /\ t \in Request
        /\ t.op = "create" /\ t.step = "locked" /\ t.booking = txn[r].booking
        /\ t.slot = s /\ t.locks = {s} /\ t.stale = txn[r].stale
    BY <1>1 DEF Request, Steps
  <2>2. /\ txn[r].booking \in BookingIds /\ s \in SlotIds /\ ~txn[r].stale
        /\ status[txn[r].booking] = "absent"
        /\ \A q \in Requests \ {r} : txn[q].booking # txn[r].booking
    BY <1>1 DEF IInv, ShapeOK, LocksExclusive
  <2>3. slotState[s] = "open" /\ \A q \in Requests : ~HoldsSlot(q, s)
    BY <1>1, <1>3 DEF Available, SlotFree
  <2>4. \A x \in t.locks, q \in Requests \ {r} : ~HoldsSlot(q, x)
    BY <2>1, <2>3
  <2>5. t.op \notin Transitions /\ t.op \notin Ending /\ t.op # "delete"
        /\ t.op # "none"
    BY <2>1 DEF Transitions, Ending
  <2> HIDE DEF t, s
  <2>6. QED
    BY <1>1, <1>3, <2>1, <2>2, <2>3, <2>4, <2>5, RowsUnchanged
<1>4. QED
  BY <1>2, <1>3 DEF LockSlot, Advance, Finish

\* confirm, reject and cancel, up to their commit.
LEMMA StartTransitionIInv ==
    ASSUME IInv, NEW r \in Requests, NEW op \in Transitions, NEW b \in BookingIds,
           StartTransition(r, op, b)
    PROVE  IInv'
<1> DEFINE t == [Idle EXCEPT !.op = op, !.step = "checked", !.booking = b]
<1>1. /\ t \in Request
      /\ t.op = op /\ t.step = "checked" /\ t.booking = b /\ t.slot = NoSlot
      /\ t.found = {} /\ t.locks = {}
  BY DEF Idle, Request, Ops, Steps
<1>2. status[b] # "absent"
  BY DEF StartTransition, From
<1>3. txn' = [txn EXCEPT ![r] = t]
  BY DEF StartTransition, Begin
<1> HIDE DEF t
<1>4. QED
  BY <1>1, <1>2, <1>3, SlotsAssumption, RowsUnchanged
     DEF StartTransition, Transitions

\* The lock on the booking, and whether its row was overtaken.
LEMMA UpdateStatusIInv ==
    ASSUME IInv, NEW r \in Requests, UpdateStatus(r) PROVE IInv'
<1> DEFINE b == txn[r].booking
           t == [txn[r] EXCEPT !.step = "updated",
                               !.stale = status[b] \notin From(txn[r].op)]
<1>1. /\ txn[r] \in Request /\ txn[r].op \in Transitions
      /\ txn[r].step = "checked"
      /\ \A q \in Requests : ~HoldsBooking(q, b)
      /\ txn' = [txn EXCEPT ![r] = t]
  BY DEF UpdateStatus, Advance, BookingFree, IInv, TypeOK
<1>2. /\ t \in Request
      /\ t.op = txn[r].op /\ t.step = "updated" /\ t.booking = b
      /\ t.slot = txn[r].slot /\ t.found = txn[r].found /\ t.locks = txn[r].locks
      /\ t.stale = (status[b] \notin From(txn[r].op))
  BY <1>1 DEF Request, Steps
<1>3. /\ b \in BookingIds /\ status[b] # "absent"
      /\ txn[r].slot = NoSlot /\ txn[r].locks = {}
  BY <1>1 DEF IInv, ShapeOK
<1>4. txn[r].op \in Ending => \A s \in txn[r].found : Matches(s, b)
  BY DEF IInv, KnowsSlots
<1> HIDE DEF t, b
<1>5. QED
  BY <1>1, <1>2, <1>3, <1>4, SlotsAssumption, RowsUnchanged
     DEF UpdateStatus, Transitions

\* What a handler that holds its booking's row knows of it.
LEMMA Holding ==
    ASSUME IInv, NEW r \in Requests, txn[r].op \in Transitions,
           txn[r].step \in {"updated", "matched", "locked"}
    PROVE  /\ txn[r].booking \in BookingIds
           /\ status[txn[r].booking] # "absent"
           /\ visit[txn[r].booking] \in SlotIds
           /\ \A q \in Requests \ {r} : ~HoldsBooking(q, txn[r].booking)
           /\ \A q \in Requests : txn[q].op = "create" =>
                 txn[q].booking # txn[r].booking
           /\ ~txn[r].stale => status[txn[r].booking] \in From(txn[r].op)
           /\ ~txn[r].stale /\ ~lostUpdate =>
                 slotState[visit[txn[r].booking]] = "booked"
<1>1. /\ txn[r].booking \in BookingIds
      /\ status[txn[r].booking] # "absent"
      /\ HoldsBooking(r, txn[r].booking)
  BY DEF IInv, ShapeOK, HoldsBooking
<1>2. visit[txn[r].booking] \in SlotIds
  BY <1>1 DEF IInv, TypeOK
<1>3. \A q \in Requests \ {r} : ~HoldsBooking(q, txn[r].booking)
  BY <1>1 DEF IInv, LocksExclusive
<1>4. \A q \in Requests : txn[q].op = "create" =>
         txn[q].booking # txn[r].booking
  BY <1>1 DEF IInv, ShapeOK
<1>5. ~txn[r].stale => status[txn[r].booking] \in From(txn[r].op)
  BY <1>1 DEF IInv, LockedStays
<1>6. ~txn[r].stale /\ ~lostUpdate => slotState[visit[txn[r].booking]] = "booked"
  BY <1>1, <1>5 DEF IInv, TablesAgree, Live, From
<1>7. QED
  BY <1>1, <1>2, <1>3, <1>4, <1>5, <1>6

\* The snapshot of the slots to free changes no row.
LEMMA MatchSlotsIInv ==
    ASSUME IInv, NEW r \in Requests, MatchSlots(r) PROVE IInv'
<1> DEFINE b == txn[r].booking
           t == [txn[r] EXCEPT !.step = "matched", !.found = BookedMatches(b)]
<1>1. /\ txn[r] \in Request /\ txn[r].op \in Ending
      /\ txn[r].op \in Transitions /\ txn[r].step = "updated"
      /\ txn' = [txn EXCEPT ![r] = t]
  BY DEF MatchSlots, Advance, IInv, TypeOK, Ending, Transitions
<1>2. /\ BookedMatches(b) \in SUBSET SlotIds
      /\ \A s \in BookedMatches(b) : Matches(s, b)
  BY DEF BookedMatches, Booked
<1>3. /\ t \in Request
      /\ t.op = txn[r].op /\ t.step = "matched" /\ t.booking = b
      /\ t.slot = txn[r].slot /\ t.stale = txn[r].stale
      /\ t.found = BookedMatches(b) /\ t.locks = txn[r].locks
  BY <1>1, <1>2 DEF Request, Steps
<1>4. ~lostUpdate /\ ~txn[r].stale => visit[b] \in BookedMatches(b)
  BY <1>1, Holding DEF BookedMatches, Booked, Matches
<1>5. txn[r].slot = NoSlot /\ txn[r].locks = {}
  BY <1>1 DEF IInv, ShapeOK
<1>6. /\ b \in BookingIds /\ status[b] # "absent"
      /\ \A q \in Requests \ {r} : ~HoldsBooking(q, b)
      /\ ~txn[r].stale => status[b] \in From(txn[r].op)
  BY <1>1, Holding
<1>7. t.slot \notin SlotIds /\ t.locks = {}
  BY <1>3, <1>5, SlotsAssumption
<1>8. t.op \notin {"none", "create", "delete"}
  BY <1>1, <1>3 DEF Ending
<1> HIDE DEF t, b
<1>9. QED
  BY <1>1, <1>2, <1>3, <1>4, <1>5, <1>6, <1>7, <1>8, RowsUnchanged DEF MatchSlots

\* What a handler that waits for the slots it matched knows of them.
LEMMA Matching ==
    ASSUME IInv, NEW r \in Requests, txn[r].op \in Ending, txn[r].step = "matched"
    PROVE  /\ txn[r] \in Request /\ txn[r].op \in Transitions
           /\ txn[r].slot = NoSlot
           /\ txn[r].booking \in BookingIds /\ visit[txn[r].booking] \in SlotIds
           /\ \A s \in txn[r].found \cup txn[r].locks : Matches(s, txn[r].booking)
           /\ ~lostUpdate /\ ~txn[r].stale =>
                 visit[txn[r].booking] \in Booked(txn[r].found)
<1>1. txn[r] \in Request /\ txn[r].op \in Transitions
  BY DEF IInv, TypeOK, Ending, Transitions
<1>2. txn[r].slot = NoSlot
  BY <1>1 DEF IInv, ShapeOK
<1>3. \A s \in txn[r].found \cup txn[r].locks : Matches(s, txn[r].booking)
  BY DEF IInv, KnowsSlots
<1>4. ~lostUpdate /\ ~txn[r].stale => visit[txn[r].booking] \in Booked(txn[r].found)
  BY <1>1, Holding DEF Booked, IInv, EndsOwnSlot
<1>5. QED
  BY <1>1, <1>2, <1>3, <1>4, Holding

\* The lock on one matched slot more.
LEMMA LockRowIInv ==
    ASSUME IInv, NEW r \in Requests, LockRow(r) PROVE IInv'
<1>1. /\ txn[r].op \in Ending /\ txn[r].step = "matched"
      /\ UNCHANGED <<slotState, status, visit, now, lostUpdate>>
  BY DEF LockRow
<1>2. PICK s \in txn[r].found \ txn[r].locks :
         /\ SlotFree(s)
         /\ txn' = [txn EXCEPT ![r] = [txn[r] EXCEPT !.locks = @ \cup {s}]]
  BY DEF LockRow, Advance
<1> DEFINE t == [txn[r] EXCEPT !.locks = @ \cup {s}]
<1>3. /\ t \in Request
      /\ t.op = txn[r].op /\ t.step = txn[r].step /\ t.booking = txn[r].booking
      /\ t.slot = txn[r].slot /\ t.found = txn[r].found /\ t.stale = txn[r].stale
      /\ t.locks = txn[r].locks \cup {s}
  BY <1>1, <1>2, Matching DEF Request
<1>4. \A x \in t.locks, q \in Requests \ {r} : ~HoldsSlot(q, x)
  <2>1. \A x \in txn[r].locks : x \in SlotIds
    BY <1>1, Matching DEF Request
  <2>2. \A x \in txn[r].locks, q \in Requests \ {r} : ~HoldsSlot(q, x)
    BY <2>1 DEF IInv, LocksExclusive, HoldsSlot
  <2>3. QED
    BY <1>2, <1>3, <2>2 DEF SlotFree
<1>5. ~lostUpdate /\ ~t.stale => visit[t.booking] \in t.found
  BY <1>1, <1>3, Matching DEF Booked
<1>6. /\ t.op \in Transitions /\ t.op \in Ending
      /\ t.op \notin {"none", "create", "delete"}
      /\ t.step = "matched" /\ t.slot \notin SlotIds
      /\ t.booking \in BookingIds /\ t.slot = NoSlot
      /\ \A x \in t.found : Matches(x, t.booking)
      /\ \A x \in t.locks : Matches(x, t.booking)
  BY <1>1, <1>2, <1>3, Matching, SlotsAssumption DEF Ending
<1>7. /\ status[t.booking] # "absent"
      /\ \A q \in Requests \ {r} : ~HoldsBooking(q, t.booking)
      /\ ~t.stale => status[t.booking] \in From(t.op)
  BY <1>1, <1>3, <1>6, Holding
<1>8. txn' = [txn EXCEPT ![r] = t]
  BY <1>2
<1> HIDE DEF t
<1>9. QED
  BY <1>1, <1>3, <1>4, <1>5, <1>6, <1>7, <1>8, RowsUnchanged

\* All matched slots are locked: one of them, none, or the exception.
LEMMA OneOrNoneIInv ==
    ASSUME IInv, NEW r \in Requests, OneOrNone(r) PROVE IInv'
<1> DEFINE still == Booked(txn[r].found)
<1>1. /\ txn[r].op \in Ending /\ txn[r].step = "matched"
      /\ txn[r].found \subseteq txn[r].locks
      /\ UNCHANGED <<slotState, status, visit, now, lostUpdate>>
  BY DEF OneOrNone
<1>2. \A x \in txn[r].locks, q \in Requests \ {r} : ~HoldsSlot(q, x)
  <2>1. \A x \in txn[r].locks : x \in SlotIds
    BY <1>1, Matching DEF Request
  <2>2. QED
    BY <2>1 DEF IInv, LocksExclusive, HoldsSlot
<1>3. CASE txn' = [txn EXCEPT ![r] = Idle]
  BY <1>1, <1>3, IdleFields, RowsUnchanged DEF Transitions, Ending
<1>4. ASSUME NEW s \in SlotIds \cup {NoSlot}, NEW t \in Request,
             txn' = [txn EXCEPT ![r] = t],
             t.op = txn[r].op, t.step = "locked", t.booking = txn[r].booking,
             t.slot = s, t.found = {}, t.locks = txn[r].locks,
             t.stale = txn[r].stale,
             s \in SlotIds => s \in still,
             ~lostUpdate /\ ~txn[r].stale => s = visit[txn[r].booking]
      PROVE  IInv'
  <2>1. s \in SlotIds => /\ Matches(s, txn[r].booking) /\ slotState[s] = "booked"
                         /\ s \in txn[r].locks
    BY <1>1, <1>4, Matching DEF Booked
  <2>2. /\ t.op \in Transitions /\ t.op \in Ending
        /\ t.op \notin {"none", "create", "delete"}
    BY <1>1, <1>4, Matching DEF Ending
  <2>3. /\ t.booking \in BookingIds /\ status[t.booking] # "absent"
        /\ \A q \in Requests \ {r} : ~HoldsBooking(q, t.booking)
        /\ ~t.stale => status[t.booking] \in From(t.op)
    BY <1>1, <1>4, <2>2, Holding
  <2>4. /\ \A x \in t.found : Matches(x, t.booking)
        /\ t.slot \in SlotIds => /\ Matches(t.slot, t.booking)
                                 /\ slotState[t.slot] = "booked"
                                 /\ t.slot \in t.locks
        /\ \A x \in t.locks, q \in Requests \ {r} : ~HoldsSlot(q, x)
    BY <1>2, <1>4, <2>1
  <2>5. ~lostUpdate /\ ~t.stale => t.slot = visit[t.booking]
    BY <1>4
  <2>6. QED
    BY <1>1, <1>4, <2>2, <2>3, <2>4, <2>5, RowsUnchanged
<1>5. CASE /\ still = {}
           /\ txn' = [txn EXCEPT ![r] = [txn[r] EXCEPT !.step = "locked", !.found = {}]]
  <2> DEFINE t == [txn[r] EXCEPT !.step = "locked", !.found = {}]
  <2>1. /\ t \in Request
        /\ t.op = txn[r].op /\ t.step = "locked" /\ t.booking = txn[r].booking
        /\ t.slot = NoSlot /\ t.found = {} /\ t.locks = txn[r].locks
        /\ t.stale = txn[r].stale
    BY <1>1, Matching DEF Request, Steps
  <2>2. ~(~lostUpdate /\ ~txn[r].stale)
    BY <1>1, <1>5, Matching
  <2> HIDE DEF t, still
  <2>3. QED
    BY <1>4, <1>5, <2>1, <2>2, SlotsAssumption DEF t
<1>6. ASSUME NEW s \in still, still = {s},
             txn' = [txn EXCEPT ![r] = [txn[r] EXCEPT !.step = "locked",
                                                      !.found = {}, !.slot = s]]
      PROVE  IInv'
  <2> DEFINE t == [txn[r] EXCEPT !.step = "locked", !.found = {}, !.slot = s]
  <2>1. s \in SlotIds
    BY <1>1, <1>6, Matching DEF Booked, Request
  <2>2. /\ t \in Request
        /\ t.op = txn[r].op /\ t.step = "locked" /\ t.booking = txn[r].booking
        /\ t.slot = s /\ t.found = {} /\ t.locks = txn[r].locks
        /\ t.stale = txn[r].stale
    BY <1>1, <2>1, Matching DEF Request, Steps
  <2>3. ~lostUpdate /\ ~txn[r].stale => s = visit[txn[r].booking]
    BY <1>1, <1>6, Matching
  <2> HIDE DEF t, still
  <2>4. QED
    BY <1>4, <1>6, <2>1, <2>2, <2>3 DEF t
<1>7. QED
  BY <1>3, <1>5, <1>6 DEF OneOrNone, Advance, Finish

\* delete_slot, up to its commit.
LEMMA StartDeleteIInv ==
    ASSUME IInv, NEW r \in Requests, NEW s \in SlotIds, StartDelete(r, s)
    PROVE  IInv'
<1> DEFINE t == [Idle EXCEPT !.op = "delete", !.step = "checked", !.slot = s]
<1>1. /\ t \in Request
      /\ t.op = "delete" /\ t.step = "checked" /\ t.booking = NoBooking
      /\ t.slot = s /\ t.locks = {}
  BY DEF Idle, Request, Ops, Steps
<1>2. txn' = [txn EXCEPT ![r] = t]
  BY DEF StartDelete, Begin
<1> HIDE DEF t
<1>3. QED
  BY <1>1, <1>2, RowsUnchanged DEF StartDelete, Transitions, Ending

\* The lock of the DELETE, and whether the row was overtaken.
LEMMA DeleteRowIInv ==
    ASSUME IInv, NEW r \in Requests, DeleteRow(r) PROVE IInv'
<1> DEFINE s == txn[r].slot
           t == [txn[r] EXCEPT !.step = "locked", !.locks = {txn[r].slot},
                               !.stale = slotState[txn[r].slot] = "booked"]
<1>1. /\ txn[r] \in Request /\ txn[r].op = "delete"
      /\ \A q \in Requests : ~HoldsSlot(q, s)
      /\ txn' = [txn EXCEPT ![r] = t]
  BY DEF DeleteRow, At, Advance, SlotFree, IInv, TypeOK
<1>2. /\ s \in SlotIds /\ txn[r].booking = NoBooking
      /\ slotState[s] # "absent"
  BY <1>1 DEF IInv, ShapeOK, KnowsSlots
<1>3. /\ t \in Request
      /\ t.op = "delete" /\ t.step = "locked" /\ t.booking = txn[r].booking
      /\ t.slot = s /\ t.locks = {s} /\ t.stale = (slotState[s] = "booked")
  BY <1>1, <1>2 DEF Request, Steps
<1>4. \A x \in t.locks, q \in Requests \ {r} : ~HoldsSlot(q, x)
  BY <1>1, <1>3
<1>5. t.op \notin Transitions /\ t.op \notin Ending /\ t.op # "create"
      /\ t.op # "none"
  BY <1>3 DEF Transitions, Ending
<1> HIDE DEF t, s
<1>6. QED
  BY <1>1, <1>2, <1>3, <1>4, <1>5, RowsUnchanged DEF DeleteRow

-----------------------------------------------------------------------------
(***************************************************************************)
(* Steps that change rows.                                                 *)
(***************************************************************************)

\* The clock moves no row.
LEMMA TickIInv == ASSUME IInv, Tick PROVE IInv'
<1> USE DEF Tick
<1>1. TypeOK'
  BY BoundsAssumption DEF IInv, TypeOK
<1>2. ShapeOK' /\ LocksExclusive' /\ LockedStays' /\ KnowsSlots'
  BY DEF IInv, ShapeOK, LocksExclusive, LockedStays, KnowsSlots, Matches,
         HoldsBooking, HoldsSlot, At
<1>3. (~lostUpdate => TablesAgree /\ EndsOwnSlot)'
  BY DEF IInv, TablesAgree, NoDoubleBooking, Live, EndsOwnSlot
<1>4. QED
  BY <1>1, <1>2, <1>3 DEF IInv

\* A new slot is open, and no booking was made of it yet.
LEMMA CreateSlotIInv ==
    ASSUME IInv, NEW s \in SlotIds, CreateSlot(s) PROVE IInv'
<1> USE DEF CreateSlot
<1>1. /\ slotState' \in [SlotIds -> SlotStates]
      /\ slotState[s] = "absent" /\ slotState'[s] = "open"
      /\ \A x \in SlotIds : x # s => slotState'[x] = slotState[x]
  BY DEF IInv, TypeOK, SlotStates
<1>2. TypeOK'
  BY <1>1 DEF IInv, TypeOK
<1>3. ShapeOK' /\ LocksExclusive'
  BY DEF IInv, ShapeOK, LocksExclusive, HoldsBooking, HoldsSlot
<1>4. LockedStays'
  BY <1>1 DEF IInv, ShapeOK, LockedStays, At, HoldsBooking
<1>5. KnowsSlots'
  BY <1>1 DEF IInv, ShapeOK, KnowsSlots, Matches
<1>6. (~lostUpdate => TablesAgree)'
  BY <1>1 DEF IInv, TypeOK, TablesAgree, NoDoubleBooking, Live
<1>7. (~lostUpdate => EndsOwnSlot)'
  BY DEF IInv, EndsOwnSlot
<1>8. QED
  BY <1>2, <1>3, <1>4, <1>5, <1>6, <1>7 DEF IInv

\* A commit that returns the handler to idle, and changes at most the booking
\* and the slot it holds, leaves what the other handlers know true.  What it
\* does to the two tables is the caller's to show.
LEMMA CommitKeepsOthers ==
    ASSUME IInv, NEW r \in Requests, Commit(r), UNCHANGED now, TypeOK',
           \A b \in BookingIds : status'[b] = "absent" => status[b] = "absent",
           \A q \in Requests \ {r}, b \in BookingIds :
              (txn[q].op = "create" /\ txn[q].booking = b) \/ HoldsBooking(q, b)
                 => status'[b] = status[b],
           \A q \in Requests \ {r}, s \in SlotIds :
              HoldsSlot(q, s) => slotState'[s] = slotState[s],
           \A s \in SlotIds : slotState[s] # "absent" => slotState'[s] # "absent",
           \A b \in BookingIds : status[b] # "absent" => visit'[b] = visit[b],
           ~lostUpdate' => TablesAgree'
    PROVE  IInv'
<1>1. /\ txn' \in [Requests -> Request]
      /\ txn'[r] = Idle
      /\ \A q \in Requests : q # r => txn'[q] = txn[q]
  BY IdleFields, OneHandler DEF Commit, Finish, IInv
<1>2. ShapeOK'
  <2>1. ASSUME NEW q \in Requests, q # r, txn[q].op \in Transitions
        PROVE  status'[txn[q].booking] # "absent"
    BY <2>1 DEF IInv, ShapeOK
  <2>2. ASSUME NEW q \in Requests, q # r, txn[q].op = "create"
        PROVE  status'[txn[q].booking] = "absent"
    BY <2>2 DEF IInv, ShapeOK
  <2>3. ASSUME NEW q \in Requests, q # r
        PROVE  /\ txn'[q].op = "none" => txn'[q] = Idle
               /\ txn'[q].op \in Transitions =>
                     /\ txn'[q].booking \in BookingIds
                     /\ status'[txn'[q].booking] # "absent"
                     /\ txn'[q].step # "locked" => txn'[q].slot = NoSlot
                     /\ txn'[q].step \notin {"matched", "locked"} => txn'[q].locks = {}
                     /\ txn'[q].slot \in SlotIds => txn'[q].slot \in txn'[q].locks
    <3>1. txn'[q] = txn[q]
      BY <1>1, <2>3
    <3>2. /\ txn[q].op = "none" => txn[q] = Idle
          /\ txn[q].op \in Transitions =>
                /\ txn[q].booking \in BookingIds
                /\ txn[q].step # "locked" => txn[q].slot = NoSlot
                /\ txn[q].step \notin {"matched", "locked"} => txn[q].locks = {}
                /\ txn[q].slot \in SlotIds => txn[q].slot \in txn[q].locks
      BY <2>3 DEF IInv, ShapeOK
    <3>3. QED
      BY <2>1, <2>3, <3>1, <3>2
  <2>4. ASSUME NEW q \in Requests, q # r
        PROVE  /\ txn'[q].op \in {"create", "delete"} =>
                     /\ txn'[q].slot \in SlotIds
                     /\ txn'[q].step \in {"checked", "locked"}
                     /\ txn'[q].locks = IF txn'[q].step = "locked"
                                        THEN {txn'[q].slot} ELSE {}
               /\ txn'[q].op = "create" =>
                     /\ txn'[q].booking \in BookingIds
                     /\ ~txn'[q].stale
                     /\ status'[txn'[q].booking] = "absent"
               /\ txn'[q].op = "delete" => txn'[q].booking = NoBooking
    <3>1. txn'[q] = txn[q]
      BY <1>1, <2>4
    <3>2. /\ txn[q].op \in {"create", "delete"} =>
                /\ txn[q].slot \in SlotIds
                /\ txn[q].step \in {"checked", "locked"}
                /\ txn[q].locks = IF txn[q].step = "locked"
                                  THEN {txn[q].slot} ELSE {}
          /\ txn[q].op = "create" => txn[q].booking \in BookingIds /\ ~txn[q].stale
          /\ txn[q].op = "delete" => txn[q].booking = NoBooking
      BY <2>4 DEF IInv, ShapeOK
    <3>3. QED
      BY <2>2, <2>4, <3>1, <3>2
  <2>5. QED
    BY <1>1, <2>3, <2>4, IdleFields DEF ShapeOK, Transitions
<1>3. LocksExclusive'
  <2> SUFFICES ASSUME NEW q \in Requests, NEW p \in Requests, q # p
               PROVE  /\ \A b \in BookingIds : ~(HoldsBooking(q, b) /\ HoldsBooking(p, b))'
                      /\ \A s \in SlotIds : ~(HoldsSlot(q, s) /\ HoldsSlot(p, s))'
                      /\ ~(txn[q].op = "create" /\ txn[p].booking = txn[q].booking)'
    BY DEF LocksExclusive
  <2>1. CASE q # r /\ p # r
    BY <1>1, <2>1 DEF IInv, LocksExclusive, HoldsBooking, HoldsSlot
  <2>2. CASE q = r
    BY <1>1, <2>2, IdleFields DEF HoldsBooking, HoldsSlot
  <2>3. CASE p = r
    <3>1. txn'[p] = Idle /\ txn'[q] = txn[q]
      BY <1>1, <2>3
    <3>2. QED
      BY <3>1, IdleFields, BookingsAssumption
         DEF HoldsBooking, HoldsSlot, IInv, ShapeOK
  <2>4. QED
    BY <2>1, <2>2, <2>3
<1>4. LockedStays'
  <2> SUFFICES ASSUME NEW q \in Requests, q # r
               PROVE  /\ At(q, "create", "locked") => slotState'[txn[q].slot] = "open"
                      /\ At(q, "delete", "locked") /\ ~txn[q].stale =>
                            slotState'[txn[q].slot] # "booked"
                      /\ \A b \in BookingIds :
                            HoldsBooking(q, b) /\ ~txn[q].stale =>
                               status'[b] \in From(txn[q].op)
    BY <1>1, IdleFields DEF LockedStays, At, HoldsBooking
  <2>1. /\ At(q, "create", "locked") => slotState'[txn[q].slot] = "open"
        /\ At(q, "delete", "locked") /\ ~txn[q].stale =>
              slotState'[txn[q].slot] # "booked"
    <3>1. At(q, "create", "locked") \/ At(q, "delete", "locked") =>
             txn[q].slot \in SlotIds /\ HoldsSlot(q, txn[q].slot)
      BY DEF IInv, ShapeOK, At, HoldsSlot
    <3>2. QED
      BY <3>1 DEF IInv, LockedStays
  <2>2. \A b \in BookingIds : HoldsBooking(q, b) /\ ~txn[q].stale =>
           status'[b] \in From(txn[q].op)
    BY DEF IInv, LockedStays
  <2>3. QED
    BY <2>1, <2>2
<1>5. KnowsSlots'
  <2> SUFFICES ASSUME NEW q \in Requests, q # r
               PROVE  /\ txn[q].op = "delete" =>
                            /\ slotState'[txn[q].slot] # "absent"
                            /\ txn[q].step = "locked" /\ txn[q].stale =>
                                  slotState'[txn[q].slot] = "booked"
                      /\ txn[q].op \in Ending =>
                            /\ \A s \in txn[q].found : Matches(s, txn[q].booking)'
                            /\ txn[q].step = "matched" =>
                                  \A s \in txn[q].locks : Matches(s, txn[q].booking)'
                            /\ txn[q].slot \in SlotIds =>
                                  /\ Matches(txn[q].slot, txn[q].booking)'
                                  /\ slotState'[txn[q].slot] = "booked"
    BY <1>1, IdleFields DEF KnowsSlots, Ending, Matches
  <2>1. CASE txn[q].op = "delete"
    <3>1. /\ txn[q].slot \in SlotIds
          /\ txn[q].step = "locked" => HoldsSlot(q, txn[q].slot)
      BY <2>1 DEF IInv, ShapeOK, HoldsSlot
    <3>2. QED
      BY <2>1, <3>1 DEF IInv, KnowsSlots, Ending
  <2>2. CASE txn[q].op \in Ending
    <3>1. visit'[txn[q].booking] = visit[txn[q].booking]
      BY <2>2 DEF IInv, ShapeOK, Ending, Transitions
    <3>2. txn[q].slot \in SlotIds => HoldsSlot(q, txn[q].slot)
      BY <2>2 DEF IInv, ShapeOK, HoldsSlot, Ending, Transitions
    <3>3. /\ \A s \in txn[q].found : Matches(s, txn[q].booking)
          /\ txn[q].step = "matched" =>
                \A s \in txn[q].locks : Matches(s, txn[q].booking)
          /\ txn[q].slot \in SlotIds => /\ Matches(txn[q].slot, txn[q].booking)
                                        /\ slotState'[txn[q].slot] = "booked"
          /\ txn[q].op # "delete"
      BY <2>2, <3>2 DEF IInv, KnowsSlots, Ending
    <3>4. QED
      BY <1>1, <3>1, <3>3 DEF Matches
  <2>3. QED
    BY <2>1, <2>2
<1>6. (~lostUpdate => EndsOwnSlot)'
  <2>1. ~lostUpdate' => ~lostUpdate
    BY DEF Commit, IInv, TypeOK
  <2>2. ASSUME NEW q \in Requests, q # r, txn[q].op \in Ending
        PROVE  visit'[txn[q].booking] = visit[txn[q].booking]
    BY <2>2 DEF IInv, ShapeOK, Ending, Transitions
  <2>3. QED
    BY <1>1, <2>1, <2>2, IdleFields DEF IInv, EndsOwnSlot, Ending
<1>7. QED
  BY <1>2, <1>3, <1>4, <1>5, <1>6 DEF IInv

\* A new booking takes the slot that its handler has locked.
LEMMA CommitCreateIInv ==
    ASSUME IInv, NEW r \in Requests, CommitCreate(r)
    PROVE  /\ IInv'
           /\ txn[r].booking \in BookingIds /\ status[txn[r].booking] = "absent"
           /\ status' = [status EXCEPT ![txn[r].booking] = "PENDING"]
           /\ visit' = [visit EXCEPT ![txn[r].booking] = txn[r].slot]
           /\ txn[r].slot \in SlotIds /\ slotState[txn[r].slot] = "open"
           /\ slotState' = [slotState EXCEPT ![txn[r].slot] = "booked"]
<1> DEFINE b == txn[r].booking
           s == txn[r].slot
<1>1. /\ b \in BookingIds /\ s \in SlotIds
      /\ status[b] = "absent" /\ ~txn[r].stale
      /\ slotState[s] = "open" /\ HoldsSlot(r, s)
      /\ txn[r].op = "create"
  BY DEF CommitCreate, At, HoldsSlot, IInv, ShapeOK, LockedStays
<1>2. /\ status' = [status EXCEPT ![b] = "PENDING"]
      /\ visit' = [visit EXCEPT ![b] = s]
      /\ slotState' = [slotState EXCEPT ![s] = "booked"]
      /\ Commit(r) /\ now' = now
  BY DEF CommitCreate, CopiedFrom
<1>3. TypeOK'
  <2>1. txn' \in [Requests -> Request] /\ lostUpdate' \in BOOLEAN
    BY <1>2, IdleFields DEF Commit, Finish, IInv, TypeOK, Request
  <2>2. QED
    BY <1>1, <1>2, <2>1 DEF IInv, TypeOK, SlotStates, Statuses
<1>4. ~lostUpdate' => TablesAgree'
  <2> SUFFICES ASSUME ~lostUpdate' PROVE TablesAgree'
    OBVIOUS
  <2>1. TablesAgree
    BY <1>1, <1>2 DEF Commit, IInv, TypeOK
  <2>2. /\ status'[b] = "PENDING" /\ visit'[b] = s /\ slotState'[s] = "booked"
        /\ \A c \in BookingIds : c # b =>
              status'[c] = status[c] /\ visit'[c] = visit[c]
        /\ \A x \in SlotIds : x # s => slotState'[x] = slotState[x]
    BY <1>1, <1>2 DEF IInv, TypeOK
  <2>3. \A c \in BookingIds : c # b /\ Live(c) => visit[c] \in SlotIds /\ visit[c] # s
    BY <1>1, <2>1 DEF TablesAgree, Live, IInv, TypeOK
  <2> HIDE DEF b, s
  <2>4. QED
    BY <1>1, <2>1, <2>2, <2>3 DEF TablesAgree, NoDoubleBooking, Live
<1>5. /\ \A q \in Requests \ {r}, c \in BookingIds :
            (txn[q].op = "create" /\ txn[q].booking = c) \/ HoldsBooking(q, c)
               => c # b
      /\ \A q \in Requests \ {r}, x \in SlotIds : HoldsSlot(q, x) => x # s
  BY <1>1 DEF HoldsBooking, IInv, LocksExclusive
<1>6. /\ \A c \in BookingIds : status'[c] = "absent" => status[c] = "absent"
      /\ \A c \in BookingIds : c # b => status'[c] = status[c]
      /\ \A x \in SlotIds : x # s => slotState'[x] = slotState[x]
      /\ \A c \in BookingIds : status[c] # "absent" => visit'[c] = visit[c]
  BY <1>1, <1>2 DEF IInv, TypeOK
<1>7. IInv'
  BY <1>2, <1>3, <1>4, <1>5, <1>6, CommitKeepsOthers
<1>8. QED
  BY <1>1, <1>2, <1>7

\* A confirmed booking was live before, or an update was lost.
LEMMA CommitConfirmIInv ==
    ASSUME IInv, NEW r \in Requests, CommitConfirm(r)
    PROVE  /\ IInv'
           /\ txn[r].booking \in BookingIds /\ status[txn[r].booking] # "absent"
<1> DEFINE b == txn[r].booking
<1>1. txn[r].op = "confirm" /\ txn[r].op \in Transitions /\ txn[r].step = "updated"
  BY DEF CommitConfirm, At, Transitions
<1>2. /\ status' = [status EXCEPT ![b] = "CONFIRMED"]
      /\ UNCHANGED <<slotState, visit, now>> /\ Commit(r)
  BY DEF CommitConfirm
<1>3. b \in BookingIds /\ status[b] # "absent"
  BY <1>1, Holding
<1>4. TypeOK'
  <2>1. txn' \in [Requests -> Request] /\ lostUpdate' \in BOOLEAN
    BY <1>2, IdleFields DEF Commit, Finish, IInv, TypeOK, Request
  <2>2. QED
    BY <1>2, <1>3, <2>1 DEF IInv, TypeOK, Statuses
<1>5. status'[b] = "CONFIRMED" /\ \A c \in BookingIds : c # b => status'[c] = status[c]
  BY <1>2, <1>3 DEF IInv, TypeOK
<1>6. ~lostUpdate' => TablesAgree'
  <2> SUFFICES ASSUME ~lostUpdate' PROVE TablesAgree'
    OBVIOUS
  <2>1. ~lostUpdate /\ ~txn[r].stale
    BY <1>2 DEF Commit, IInv, TypeOK, Request
  <2>2. TablesAgree /\ status[b] = "PENDING"
    BY <1>1, <2>1, Holding DEF IInv, From
  <2> HIDE DEF b
  <2>3. QED
    BY <1>2, <1>3, <1>5, <2>2 DEF TablesAgree, NoDoubleBooking, Live
<1>7. \A q \in Requests \ {r}, c \in BookingIds :
         (txn[q].op = "create" /\ txn[q].booking = c) \/ HoldsBooking(q, c) => c # b
  BY <1>1, Holding
<1>8. IInv'
  BY <1>2, <1>3, <1>4, <1>5, <1>6, <1>7, CommitKeepsOthers
<1>9. QED
  BY <1>3, <1>8

\* A booking ends and its slot opens together.
LEMMA CommitEndIInv ==
    ASSUME IInv, NEW r \in Requests, CommitEnd(r)
    PROVE  /\ IInv'
           /\ txn[r].booking \in BookingIds /\ status[txn[r].booking] # "absent"
<1> DEFINE b == txn[r].booking
           s == txn[r].slot
<1>1. /\ txn[r].op \in Ending /\ txn[r].op \in Transitions
      /\ txn[r].step = "locked" /\ txn[r] \in Request
      /\ To(txn[r].op) \in {"REJECTED", "CANCELLED"}
  BY DEF CommitEnd, Ending, Transitions, To, IInv, TypeOK
<1>2. /\ status' = [status EXCEPT ![b] = To(txn[r].op)]
      /\ slotState' = [x \in SlotIds |-> IF x = s THEN "open" ELSE slotState[x]]
      /\ UNCHANGED <<visit, now>> /\ Commit(r)
  BY DEF CommitEnd, Freed
<1>3. b \in BookingIds /\ status[b] # "absent" /\ visit[b] \in SlotIds
  BY <1>1, Holding
<1>4. TypeOK'
  <2>1. txn' \in [Requests -> Request] /\ lostUpdate' \in BOOLEAN
    BY <1>2, IdleFields DEF Commit, Finish, IInv, TypeOK, Request
  <2>2. QED
    BY <1>1, <1>2, <1>3, <2>1 DEF IInv, TypeOK, Statuses, SlotStates
<1>5. /\ status'[b] \in {"REJECTED", "CANCELLED"}
      /\ \A c \in BookingIds : c # b => status'[c] = status[c]
      /\ \A x \in SlotIds : x # s => slotState'[x] = slotState[x]
      /\ \A x \in SlotIds : x = s => slotState'[x] = "open"
  BY <1>1, <1>2, <1>3 DEF IInv, TypeOK
<1>6. ~lostUpdate' => TablesAgree'
  <2> SUFFICES ASSUME ~lostUpdate' PROVE TablesAgree'
    OBVIOUS
  <2>1. ~lostUpdate /\ ~txn[r].stale
    BY <1>1, <1>2 DEF Commit, IInv, TypeOK, Request
  <2>2. TablesAgree /\ status[b] \in From(txn[r].op) /\ s = visit[b]
    BY <1>1, <2>1, Holding DEF IInv, EndsOwnSlot
  <2>3. Live(b)
    BY <2>2 DEF Live, From
  <2>4. \A c \in BookingIds : Live(c)' => Live(c) /\ c # b /\ visit[c] \in SlotIds
    BY <1>3, <1>5 DEF Live, IInv, TypeOK
  <2> HIDE DEF b, s
  <2>5. NoDoubleBooking'
    BY <1>2, <2>2, <2>4 DEF TablesAgree, NoDoubleBooking
  <2>6. \A c \in BookingIds : Live(c)' => slotState'[visit'[c]] = "booked"
    BY <1>2, <1>3, <1>5, <2>2, <2>3, <2>4 DEF TablesAgree, NoDoubleBooking
  <2>7. \A x \in SlotIds :
           slotState'[x] = "booked" => \E c \in BookingIds : Live(c)' /\ visit'[c] = x
    <3> SUFFICES ASSUME NEW x \in SlotIds, slotState'[x] = "booked"
                 PROVE  \E c \in BookingIds : Live(c)' /\ visit'[c] = x
      OBVIOUS
    <3>1. x # s /\ slotState[x] = "booked"
      BY <1>5
    <3>2. PICK c \in BookingIds : Live(c) /\ visit[c] = x
      BY <2>2, <3>1 DEF TablesAgree
    <3>3. c # b
      BY <2>2, <3>1, <3>2
    <3>4. QED
      BY <1>2, <1>5, <3>2, <3>3 DEF Live
  <2>8. QED
    BY <2>5, <2>6, <2>7 DEF TablesAgree
<1>7. \A q \in Requests \ {r}, c \in BookingIds :
         (txn[q].op = "create" /\ txn[q].booking = c) \/ HoldsBooking(q, c) => c # b
  BY <1>1, Holding
<1>8. \A q \in Requests \ {r}, x \in SlotIds : HoldsSlot(q, x) => x # s
  <2>1. s \in SlotIds => HoldsSlot(r, s)
    BY <1>1 DEF IInv, ShapeOK, HoldsSlot
  <2>2. QED
    BY <2>1 DEF IInv, LocksExclusive
<1>9. IInv'
  BY <1>2, <1>3, <1>4, <1>5, <1>6, <1>7, <1>8, CommitKeepsOthers
<1>10. QED
  BY <1>3, <1>9

\* A deleted slot was nobody's, or an update was lost.
LEMMA CommitDeleteIInv ==
    ASSUME IInv, NEW r \in Requests, CommitDelete(r) PROVE IInv'
<1> DEFINE s == txn[r].slot
<1>1. /\ txn[r].op = "delete" /\ s \in SlotIds /\ HoldsSlot(r, s)
      /\ ~txn[r].stale => slotState[s] # "booked"
  BY DEF CommitDelete, At, HoldsSlot, IInv, ShapeOK, LockedStays
<1>2. /\ slotState' = [slotState EXCEPT ![s] = "deleted"]
      /\ UNCHANGED <<status, visit, now>> /\ Commit(r)
  BY DEF CommitDelete
<1>3. TypeOK'
  <2>1. txn' \in [Requests -> Request] /\ lostUpdate' \in BOOLEAN
    BY <1>2, IdleFields DEF Commit, Finish, IInv, TypeOK, Request
  <2>2. QED
    BY <1>1, <1>2, <2>1 DEF IInv, TypeOK, SlotStates
<1>4. slotState'[s] = "deleted" /\ \A x \in SlotIds : x # s => slotState'[x] = slotState[x]
  BY <1>1, <1>2 DEF IInv, TypeOK
<1>5. ~lostUpdate' => TablesAgree'
  <2> SUFFICES ASSUME ~lostUpdate' PROVE TablesAgree'
    OBVIOUS
  <2>1. TablesAgree /\ slotState[s] # "booked"
    BY <1>1, <1>2 DEF Commit, IInv, TypeOK, Request
  <2>2. \A c \in BookingIds : Live(c) => visit[c] \in SlotIds /\ visit[c] # s
    BY <2>1 DEF TablesAgree, Live, IInv, TypeOK
  <2> HIDE DEF s
  <2>3. QED
    BY <1>2, <1>4, <2>1, <2>2 DEF TablesAgree, NoDoubleBooking, Live
<1>6. \A q \in Requests \ {r}, x \in SlotIds : HoldsSlot(q, x) => x # s
  BY <1>1 DEF IInv, LocksExclusive
<1>7. QED
  BY <1>2, <1>3, <1>4, <1>5, <1>6, CommitKeepsOthers

-----------------------------------------------------------------------------
(***************************************************************************)
(* The theorems.                                                           *)
(***************************************************************************)

\* Every step keeps the inductive invariant.
LEMMA NextIInv == IInv /\ [Next]_vars => IInv'
<1> SUFFICES ASSUME IInv, [Next]_vars PROVE IInv'
  OBVIOUS
<1>1. CASE UNCHANGED vars
  <2> USE <1>1 DEF vars
  <2>1. TypeOK' /\ ShapeOK' /\ LocksExclusive' /\ LockedStays' /\ KnowsSlots'
    BY DEF IInv, TypeOK, ShapeOK, LocksExclusive, LockedStays, KnowsSlots,
           Matches, HoldsBooking, HoldsSlot, At
  <2>2. (~lostUpdate => TablesAgree /\ EndsOwnSlot)'
    BY DEF IInv, TablesAgree, NoDoubleBooking, Live, EndsOwnSlot
  <2>3. QED
    BY <2>1, <2>2 DEF IInv
<1>2. CASE Tick
  BY <1>2, TickIInv
<1>3. CASE \E s \in SlotIds : CreateSlot(s)
  BY <1>3, CreateSlotIInv
<1>4. ASSUME NEW r \in Requests,
             \E b \in BookingIds, s \in SlotIds : StartCreate(r, b, s)
      PROVE  IInv'
  BY <1>4, StartCreateIInv
<1>5. ASSUME NEW r \in Requests,
             \E op \in Transitions, b \in BookingIds : StartTransition(r, op, b)
      PROVE  IInv'
  BY <1>5, StartTransitionIInv
<1>6. ASSUME NEW r \in Requests, \E s \in SlotIds : StartDelete(r, s)
      PROVE  IInv'
  BY <1>6, StartDeleteIInv
<1>7. ASSUME NEW r \in Requests, Proceed(r) PROVE IInv'
  BY <1>7, LockSlotIInv, CommitCreateIInv, UpdateStatusIInv, CommitConfirmIInv,
     MatchSlotsIInv, LockRowIInv, OneOrNoneIInv, CommitEndIInv, DeleteRowIInv,
     CommitDeleteIInv DEF Proceed
<1>8. ASSUME NEW r \in Requests, Abort(r) PROVE IInv'
  BY <1>8, AbortIInv
<1>9. QED
  BY <1>1, <1>2, <1>3, <1>4, <1>5, <1>6, <1>7, <1>8 DEF Next

\* The strengthened invariant holds in every reachable state.
THEOREM Invariance == Spec => []IInv
<1>1. Init => IInv
  BY InitIInv
<1>2. IInv /\ [Next]_vars => IInv'
  BY NextIInv
<1>3. QED
  BY <1>1, <1>2, PTL DEF Spec

\* Rows and locals have the types the columns and the handlers give them, and
\* every booking that was inserted names the slot it was made of.
THEOREM TypeCorrect == Spec => []TypeOK
<1>1. IInv => TypeOK
  BY DEF IInv
<1>2. QED
  BY <1>1, Invariance, PTL

\* The bookings table and the availability table agree as long as no commit
\* applied a decision taken on a row that had changed meanwhile.
THEOREM TablesAgreeProved == Spec => []TablesAgreeUnlessLostUpdate
<1>1. IInv => TablesAgreeUnlessLostUpdate
  BY DEF IInv, TablesAgreeUnlessLostUpdate
<1>2. QED
  BY <1>1, Invariance, PTL

\* In no step does a booking appear without its slot turning from open to
\* booked, nor a slot turn booked without its booking, lost updates included.
THEOREM BookingTakesOpenSlotProved == Spec => BookingTakesOpenSlot
<1>1. IInv /\ [Next]_vars => [TakesOpenSlot]_vars
  <2> SUFFICES ASSUME IInv, Next PROVE TakesOpenSlot \/ UNCHANGED vars
    OBVIOUS
  <2>1. ASSUME UNCHANGED <<slotState, status>> PROVE TakesOpenSlot
    BY <2>1 DEF TakesOpenSlot
  <2>2. CASE Tick
    BY <2>1, <2>2 DEF Tick
  <2>3. ASSUME NEW s \in SlotIds, CreateSlot(s) PROVE TakesOpenSlot
    <3>1. /\ \A x \in SlotIds : x # s => slotState'[x] = slotState[x]
          /\ slotState'[s] = "open" /\ UNCHANGED status
      BY <2>3 DEF CreateSlot, IInv, TypeOK
    <3>2. QED
      BY <3>1 DEF TakesOpenSlot
  <2>4. ASSUME NEW r \in Requests, CommitCreate(r) PROVE TakesOpenSlot
    <3> DEFINE b == txn[r].booking
               s == txn[r].slot
    <3>1. /\ b \in BookingIds /\ status[b] = "absent"
          /\ status' = [status EXCEPT ![b] = "PENDING"]
          /\ visit' = [visit EXCEPT ![b] = s]
          /\ s \in SlotIds /\ slotState[s] = "open"
          /\ slotState' = [slotState EXCEPT ![s] = "booked"]
      BY <2>4, CommitCreateIInv
    <3>2. /\ status'[b] = "PENDING" /\ visit'[b] = s /\ slotState'[s] = "booked"
          /\ \A c \in BookingIds : c # b => status'[c] = status[c]
          /\ \A x \in SlotIds : x # s => slotState'[x] = slotState[x]
      BY <3>1 DEF IInv, TypeOK
    <3> HIDE DEF b, s
    <3>3. QED
      BY <3>1, <3>2 DEF TakesOpenSlot
  <2>5. ASSUME NEW r \in Requests, CommitConfirm(r) PROVE TakesOpenSlot
    <3>1. /\ txn[r].booking \in BookingIds /\ status[txn[r].booking] # "absent"
          /\ status' = [status EXCEPT ![txn[r].booking] = "CONFIRMED"]
          /\ UNCHANGED slotState
      BY <2>5, CommitConfirmIInv DEF CommitConfirm
    <3>2. QED
      BY <3>1 DEF TakesOpenSlot, IInv, TypeOK
  <2>6. ASSUME NEW r \in Requests, CommitEnd(r) PROVE TakesOpenSlot
    <3>1. /\ txn[r].booking \in BookingIds /\ status[txn[r].booking] # "absent"
          /\ status' = [status EXCEPT ![txn[r].booking] = To(txn[r].op)]
          /\ \A s \in SlotIds : slotState'[s] \in {"open", slotState[s]}
      BY <2>6, CommitEndIInv DEF CommitEnd, Freed
    <3>2. QED
      BY <3>1 DEF TakesOpenSlot, IInv, TypeOK
  <2>7. ASSUME NEW r \in Requests, CommitDelete(r) PROVE TakesOpenSlot
    <3>1. /\ UNCHANGED status
          /\ \A s \in SlotIds : slotState'[s] \in {"deleted", slotState[s]}
      BY <2>7 DEF CommitDelete, IInv, TypeOK
    <3>2. QED
      BY <3>1 DEF TakesOpenSlot
  <2>8. ASSUME NEW r \in Requests,
               \/ Abort(r) \/ LockSlot(r) \/ UpdateStatus(r) \/ MatchSlots(r)
               \/ LockRow(r) \/ OneOrNone(r) \/ DeleteRow(r)
               \/ \E b \in BookingIds, s \in SlotIds : StartCreate(r, b, s)
               \/ \E op \in Transitions, b \in BookingIds : StartTransition(r, op, b)
               \/ \E s \in SlotIds : StartDelete(r, s)
        PROVE  TakesOpenSlot
    <3>1. UNCHANGED <<slotState, status>>
      BY <2>8 DEF Abort, LockSlot, UpdateStatus, MatchSlots, LockRow, OneOrNone,
                  DeleteRow, StartCreate, StartTransition, StartDelete
    <3>2. QED
      BY <3>1, <2>1
  <2>9. QED
    BY <2>2, <2>3, <2>4, <2>5, <2>6, <2>7, <2>8 DEF Next, Proceed
<1>2. QED
  BY <1>1, Invariance, PTL DEF Spec, BookingTakesOpenSlot

-----------------------------------------------------------------------------
(***************************************************************************)
(* The calendar.                                                           *)
(***************************************************************************)

\* A confirm turns its booking as the calendar does, or overwrites it.
LEMMA CommitConfirmIsCalendar ==
    ASSUME IInv, NEW r \in Requests, CommitConfirm(r)
    PROVE  Calendar!Next
<1> DEFINE b == txn[r].booking
<1>1. /\ b \in BookingIds /\ status[b] # "absent"
      /\ status' = [status EXCEPT ![b] = "CONFIRMED"]
      /\ lostUpdate' = (lostUpdate \/ txn[r].stale)
      /\ UNCHANGED <<slotState, visit>>
  BY CommitConfirmIInv DEF CommitConfirm, Commit
<1>2. CASE ~txn[r].stale
  <2>1. status[b] = "PENDING"
    BY <1>2, Holding DEF CommitConfirm, At, From, Transitions
  <2>2. lostUpdate' = lostUpdate
    BY <1>1, <1>2 DEF IInv, TypeOK
  <2>3. Calendar!Confirm(b)
    BY <1>1, <2>1, <2>2 DEF Calendar!Confirm
  <2>4. QED
    BY <1>1, <2>3 DEF Calendar!Next
<1>3. CASE txn[r].stale
  <2>1. lostUpdate' = TRUE
    BY <1>1, <1>3
  <2>2. Calendar!OverwriteBooking(b, "CONFIRMED")
    BY <1>1 DEF Calendar!OverwriteBooking
  <2>3. QED
    BY <1>1, <2>1, <2>2 DEF Calendar!Next, Calendar!Overwrite
<1>4. QED
  BY <1>2, <1>3 DEF IInv, TypeOK, Request

\* A reject or cancel frees the slot of its booking, or overwrites a booking and
\* frees at most one slot like its own.
LEMMA CommitEndIsCalendar ==
    ASSUME IInv, NEW r \in Requests, CommitEnd(r)
    PROVE  Calendar!Next
<1> DEFINE b == txn[r].booking
           s == txn[r].slot
           new == To(txn[r].op)
<1>1. /\ txn[r] \in Request /\ txn[r].op \in Ending /\ txn[r].step = "locked"
      /\ b \in BookingIds /\ status[b] # "absent" /\ visit[b] \in SlotIds
      /\ status' = [status EXCEPT ![b] = new]
      /\ lostUpdate' = (lostUpdate \/ txn[r].stale)
      /\ visit' = visit
  BY CommitEndIInv, Holding DEF CommitEnd, Commit, IInv, TypeOK, Ending, Transitions
<1>2. /\ s \in SlotIds => /\ slotState[s] = "booked" /\ Matches(s, b)
                          /\ slotState' = [slotState EXCEPT ![s] = "open"]
      /\ s \notin SlotIds => slotState' = slotState
  BY <1>1 DEF CommitEnd, Freed, IInv, KnowsSlots, TypeOK
<1>3. CASE ~txn[r].stale /\ ~lostUpdate
  <2>1. s = visit[b] /\ status[b] \in From(txn[r].op) /\ lostUpdate' = lostUpdate
    <3>1. s = visit[b]
      BY <1>1, <1>3 DEF IInv, EndsOwnSlot
    <3>2. status[b] \in From(txn[r].op)
      BY <1>1, <1>3, Holding DEF Ending, Transitions
    <3>3. lostUpdate' = lostUpdate
      BY <1>1, <1>3 DEF IInv, TypeOK
    <3>4. QED
      BY <3>1, <3>2, <3>3
  <2>2. Calendar!Turn(visit[b], "booked", "open")
    BY <1>1, <1>2, <2>1 DEF Calendar!Turn
  <2>3. CASE txn[r].op = "reject"
    <3>1. new = "REJECTED" /\ status[b] = "PENDING"
      BY <2>1, <2>3 DEF To, From
    <3>2. Calendar!Reject(b)
      BY <1>1, <2>1, <2>2, <3>1 DEF Calendar!Reject
    <3>3. QED
      BY <1>1, <3>2 DEF Calendar!Next
  <2>4. CASE txn[r].op = "cancel"
    <3>1. new = "CANCELLED" /\ status[b] \in {"PENDING", "CONFIRMED"}
      BY <2>1, <2>4 DEF To, From
    <3>2. Calendar!Cancel(b)
      BY <1>1, <2>1, <2>2, <3>1 DEF Calendar!Cancel
    <3>3. QED
      BY <1>1, <3>2 DEF Calendar!Next
  <2>5. QED
    BY <1>1, <2>3, <2>4 DEF Ending
<1>4. CASE txn[r].stale \/ lostUpdate
  <2>1. lostUpdate' = TRUE
    BY <1>1, <1>4 DEF IInv, TypeOK, Request
  <2>2. new \in {"REJECTED", "CANCELLED"}
    BY <1>1 DEF To, Ending
  <2>3. s \in SlotIds => /\ Calendar!Turn(s, "booked", "open")
                         /\ Calendar!Alike(s, visit[b])
    BY <1>2 DEF Calendar!Turn, Calendar!Alike, Matches
  <2> HIDE DEF b, s, new
  <2>4. Calendar!OverwriteBooking(b, new)
    BY <1>1, <1>2, <2>2, <2>3 DEF Calendar!OverwriteBooking
  <2>5. QED
    BY <1>1, <2>1, <2>2, <2>4 DEF Calendar!Next, Calendar!Overwrite
<1>5. QED
  BY <1>1, <1>3, <1>4 DEF IInv, TypeOK, Request

\* A delete withdraws an open slot, finds it gone already, or overwrites it.
LEMMA CommitDeleteIsCalendar ==
    ASSUME IInv, NEW r \in Requests, CommitDelete(r)
    PROVE  Calendar!Next \/ UNCHANGED Calendar!vars
<1> DEFINE s == txn[r].slot
<1>1. /\ txn[r] \in Request /\ txn[r].op = "delete" /\ txn[r].step = "locked"
      /\ s \in SlotIds
      /\ slotState' = [slotState EXCEPT ![s] = "deleted"]
      /\ lostUpdate' = (lostUpdate \/ txn[r].stale)
      /\ UNCHANGED <<status, visit>>
  BY DEF CommitDelete, Commit, At, IInv, TypeOK, ShapeOK
<1>2. /\ slotState \in [SlotIds -> SlotStates] /\ slotState[s] # "absent"
      /\ txn[r].stale => slotState[s] = "booked"
      /\ ~txn[r].stale => slotState[s] # "booked"
  BY <1>1 DEF IInv, TypeOK, KnowsSlots, LockedStays, At
<1>3. CASE txn[r].stale
  <2>1. lostUpdate' = TRUE /\ Calendar!OverwriteSlot(s)
    BY <1>1, <1>2, <1>3 DEF Calendar!OverwriteSlot, Calendar!Turn
  <2>2. QED
    BY <1>1, <2>1 DEF Calendar!Next, Calendar!Overwrite
<1>4. CASE ~txn[r].stale
  <2>1. lostUpdate' = lostUpdate
    BY <1>1, <1>4 DEF IInv, TypeOK
  <2>2. CASE slotState[s] = "open"
    <3>1. Calendar!Withdraw(s)
      BY <1>1, <2>1, <2>2 DEF Calendar!Withdraw, Calendar!Turn
    <3>2. QED
      BY <1>1, <3>1 DEF Calendar!Next
  <2>3. CASE slotState[s] = "deleted"
    <3>1. slotState' = slotState
      BY <1>1, <1>2, <2>3
    <3>2. QED
      BY <1>1, <2>1, <3>1 DEF Calendar!vars
  <2>4. QED
    BY <1>1, <1>2, <1>4, <2>2, <2>3 DEF SlotStates
<1>5. QED
  BY <1>1, <1>3, <1>4 DEF Request

\* Requests, statement by statement, implement the calendar, where each is done
\* in one step or, overtaken, overwrites one booking and one slot like its own.
THEOREM ImplementsCalendarProved == Spec => ImplementsCalendar
<1>1. Init => Calendar!Init
  BY DEF Init, Calendar!Init
<1>2. IInv /\ [Next]_vars => [Calendar!Next]_(Calendar!vars)
  <2> SUFFICES ASSUME IInv, [Next]_vars
               PROVE  Calendar!Next \/ UNCHANGED Calendar!vars
    OBVIOUS
  <2>1. CASE UNCHANGED <<slotState, status, visit, lostUpdate>>
    BY <2>1 DEF Calendar!vars
  <2>2. ASSUME NEW s \in SlotIds, CreateSlot(s) PROVE Calendar!Next
    BY <2>2 DEF CreateSlot, Calendar!Next, Calendar!Offer, Calendar!Turn
  <2>3. ASSUME NEW r \in Requests, CommitCreate(r) PROVE Calendar!Next
    <3> DEFINE b == txn[r].booking
               s == txn[r].slot
    <3>1. /\ b \in BookingIds /\ status[b] = "absent"
          /\ status' = [status EXCEPT ![b] = "PENDING"]
          /\ visit' = [visit EXCEPT ![b] = s]
          /\ s \in SlotIds /\ slotState[s] = "open"
          /\ slotState' = [slotState EXCEPT ![s] = "booked"]
      BY <2>3, CommitCreateIInv
    <3>2. lostUpdate' = lostUpdate
      BY <2>3 DEF CommitCreate, At, Commit, IInv, ShapeOK, TypeOK
    <3> HIDE DEF b, s
    <3>3. Calendar!Book(b, s)
      BY <3>1, <3>2 DEF Calendar!Book, Calendar!Turn
    <3>4. QED
      BY <3>1, <3>3 DEF Calendar!Next
  <2>4. ASSUME NEW r \in Requests,
               \/ Abort(r) \/ LockSlot(r) \/ UpdateStatus(r) \/ MatchSlots(r)
               \/ LockRow(r) \/ OneOrNone(r) \/ DeleteRow(r)
               \/ \E b \in BookingIds, s \in SlotIds : StartCreate(r, b, s)
               \/ \E op \in Transitions, b \in BookingIds : StartTransition(r, op, b)
               \/ \E s \in SlotIds : StartDelete(r, s)
        PROVE  UNCHANGED <<slotState, status, visit, lostUpdate>>
    BY <2>4 DEF Abort, LockSlot, UpdateStatus, MatchSlots, LockRow, OneOrNone,
                DeleteRow, StartCreate, StartTransition, StartDelete
  <2>5. CASE UNCHANGED vars \/ Tick
    BY <2>1, <2>5 DEF vars, Tick
  <2>6. QED
    BY <2>1, <2>2, <2>3, <2>4, <2>5, CommitConfirmIsCalendar, CommitEndIsCalendar,
       CommitDeleteIsCalendar DEF Next, Proceed
<1>3. QED
  BY <1>1, <1>2, Invariance, PTL DEF Spec, ImplementsCalendar, Calendar!Spec

-----------------------------------------------------------------------------
(***************************************************************************)
(* Deadlock.                                                               *)
(***************************************************************************)

\* A request that has locked a slot and waits for another request is torn
\* between two slots like its booking's.
LEMMA WaiterWithSlotIsTorn ==
    ASSUME IInv, NEW q \in Requests, NEW p \in Requests, NEW s \in SlotIds,
           HoldsSlot(q, s), Awaits(q, p)
    PROVE  Torn(q)
<1>1. txn[q] \in Request /\ s \in txn[q].locks
  BY DEF IInv, TypeOK, HoldsSlot
<1>2. /\ txn[q].op \in {"create", "delete"} => txn[q].step # "checked"
      /\ txn[q].op \in Transitions => txn[q].step # "checked"
  BY <1>1 DEF IInv, ShapeOK
<1>3. txn[q].op \in Ending /\ txn[q].step = "matched"
  BY <1>2 DEF Awaits
<1>4. PICK t \in txn[q].found \ txn[q].locks : HoldsSlot(p, t)
  BY <1>2, <1>3 DEF Awaits
<1>5. Matches(s, txn[q].booking) /\ Matches(t, txn[q].booking)
  BY <1>1, <1>3, <1>4, Matching
<1>6. QED
  BY <1>1, <1>3, <1>4, <1>5 DEF Torn, Matches

\* In a circle, whoever is waited for holds a slot: those who hold a booking and
\* wait, wait for a slot.  The holder of a slot who waits is torn, and the one
\* it waits for holds a slot too.
THEOREM DeadlockTakesTwinsProved == Spec => []DeadlockTakesTwins
<1>1. IInv => DeadlockTakesTwins
  <2> SUFFICES ASSUME IInv, NEW S \in SUBSET Requests, WaitCircle(S)
               PROVE  \E q, r \in S : q # r /\ Torn(q) /\ Torn(r)
    BY DEF DeadlockTakesTwins
  <2>1. \A r \in S : \E q \in S : Awaits(r, q)
    BY DEF WaitCircle
  <2>2. ASSUME NEW r \in S, txn[r].step = "matched"
        PROVE  \E q \in S, s \in SlotIds : q # r /\ HoldsSlot(q, s)
    <3>1. PICK q \in S : Awaits(r, q)
      BY <2>1
    <3>2. PICK s \in txn[r].found : HoldsSlot(q, s)
      BY <2>2, <3>1 DEF Awaits
    <3>3. s \in SlotIds
      BY <3>2 DEF IInv, TypeOK, Request
    <3>4. QED
      BY <3>1, <3>2, <3>3 DEF Awaits
  <2>3. ASSUME NEW q \in S, NEW s \in SlotIds, HoldsSlot(q, s)
        PROVE  Torn(q)
    BY <2>1, <2>3, WaiterWithSlotIsTorn
  <2>4. \E q \in S, s \in SlotIds : HoldsSlot(q, s)
    <3>1. PICK r \in S : TRUE
      BY DEF WaitCircle
    <3>2. PICK q \in S : Awaits(r, q)
      BY <2>1
    <3>3. CASE \E s \in SlotIds : HoldsSlot(q, s)
      BY <3>3
    <3>4. CASE HoldsBooking(q, txn[r].booking)
      <4>1. PICK p \in S : Awaits(q, p)
        BY <2>1
      <4>2. txn[q].step = "matched"
        BY <3>4, <4>1 DEF HoldsBooking, Awaits, Transitions, Ending
      <4>3. QED
        BY <2>2, <4>2
    <3>5. CASE \E s : HoldsSlot(q, s)
      <4>1. txn[q].locks \subseteq SlotIds
        BY DEF IInv, TypeOK, Request
      <4>2. QED
        BY <3>3, <3>5, <4>1 DEF HoldsSlot
    <3>6. QED
      BY <3>2, <3>4, <3>5 DEF Awaits
  <2>5. PICK q \in S, s \in SlotIds : HoldsSlot(q, s)
    BY <2>4
  <2>6. Torn(q)
    BY <2>3, <2>5
  <2>7. PICK p \in S, t \in SlotIds : p # q /\ HoldsSlot(p, t)
    BY <2>2, <2>6 DEF Torn
  <2>8. Torn(p)
    BY <2>3, <2>7
  <2>9. QED
    BY <2>6, <2>7, <2>8
<1>2. QED
  BY <1>1, Invariance, PTL

-----------------------------------------------------------------------------
(***************************************************************************)
(* Requests that do not decide on the same row at the same time.           *)
(***************************************************************************)

\* One confirm, reject or cancel of a booking at a time, and no delete of a slot
\* while it is being booked.  Creates may compete for a slot as they like.
NoOverlap ==
    \A q, r \in Requests :
        q # r =>
          /\ ~ (/\ txn[q].op \in Transitions /\ txn[r].op \in Transitions
                /\ txn[q].booking = txn[r].booking)
          /\ ~ (/\ txn[q].op = "create" /\ txn[r].op = "delete"
                /\ txn[q].slot = txn[r].slot)

\* What a handler checked still holds.
NothingStale ==
    /\ ~lostUpdate
    /\ \A r \in Requests :
          /\ ~txn[r].stale
          /\ txn[r].op \in Transitions /\ txn[r].step = "checked" =>
                status[txn[r].booking] \in From(txn[r].op)
          /\ txn[r].op = "delete" /\ txn[r].step = "checked" =>
                slotState[txn[r].slot] # "booked"

\* A step of r that leaves what the others checked, and itself, fresh.
LEMMA StaysFresh ==
    ASSUME IInv, NothingStale, NEW r \in Requests, NEW t \in Request,
           txn' = [txn EXCEPT ![r] = t], ~t.stale, ~lostUpdate',
           t.op \in Transitions /\ t.step = "checked" =>
              status'[t.booking] \in From(t.op),
           t.op = "delete" /\ t.step = "checked" => slotState'[t.slot] # "booked",
           \A q \in Requests \ {r} :
              txn[q].op \in Transitions => status'[txn[q].booking] = status[txn[q].booking],
           \A q \in Requests \ {r} :
              txn[q].op = "delete" /\ slotState'[txn[q].slot] = "booked" =>
                 slotState[txn[q].slot] = "booked"
    PROVE  NothingStale'
<1>1. txn'[r] = t /\ \A q \in Requests \ {r} : txn'[q] = txn[q]
  BY OneHandler DEF IInv
<1> SUFFICES ASSUME NEW q \in Requests
             PROVE  /\ ~txn'[q].stale
                    /\ txn'[q].op \in Transitions /\ txn'[q].step = "checked" =>
                          status'[txn'[q].booking] \in From(txn'[q].op)
                    /\ txn'[q].op = "delete" /\ txn'[q].step = "checked" =>
                          slotState'[txn'[q].slot] # "booked"
  BY DEF NothingStale, From
<1>2. CASE q = r
  BY <1>1, <1>2
<1>3. CASE q # r
  BY <1>1, <1>3 DEF NothingStale
<1>4. QED
  BY <1>2, <1>3

\* Without overlaps, nobody's check goes stale.
LEMMA NextNothingStale ==
    IInv /\ NothingStale /\ NoOverlap /\ [Next]_vars => NothingStale'
<1> SUFFICES ASSUME IInv, NothingStale, NoOverlap, [Next]_vars PROVE NothingStale'
  OBVIOUS
<1>1. ASSUME NEW r \in Requests PROVE txn[r] \in Request /\ ~txn[r].stale /\ ~lostUpdate
  BY DEF IInv, TypeOK, NothingStale
<1>2. CASE UNCHANGED vars \/ Tick
  BY <1>2 DEF vars, Tick, NothingStale
<1>3. ASSUME NEW s \in SlotIds, CreateSlot(s) PROVE NothingStale'
  <2>1. \A x \in SlotIds : slotState'[x] = "booked" => slotState[x] = "booked"
    BY <1>3 DEF CreateSlot, IInv, TypeOK
  <2>2. \A q \in Requests : txn[q].op = "delete" => txn[q].slot \in SlotIds
    BY DEF IInv, ShapeOK
  <2>3. QED
    BY <1>3, <2>1, <2>2 DEF CreateSlot, NothingStale
<1>4. ASSUME NEW r \in Requests, NEW t \in Request, txn' = [txn EXCEPT ![r] = t],
             UNCHANGED <<slotState, status, lostUpdate>>, ~t.stale,
             t.op \in Transitions /\ t.step = "checked" =>
                status[t.booking] \in From(t.op),
             t.op = "delete" /\ t.step = "checked" => slotState[t.slot] # "booked"
      PROVE  NothingStale'
  BY <1>1, <1>4, StaysFresh
<1>5. ASSUME NEW r \in Requests, NEW b \in BookingIds, NEW s \in SlotIds,
             StartCreate(r, b, s)
      PROVE  NothingStale'
  <2> DEFINE t == [Idle EXCEPT !.op = "create", !.step = "checked",
                               !.booking = b, !.slot = s]
  <2>1. t \in Request /\ t.op = "create" /\ ~t.stale
    BY DEF Idle, Request, Ops, Steps
  <2>2. txn' = [txn EXCEPT ![r] = t] /\ UNCHANGED <<slotState, status, lostUpdate>>
    BY <1>5 DEF StartCreate, Begin
  <2> HIDE DEF t
  <2>3. QED
    BY <1>4, <2>1, <2>2 DEF Transitions
<1>6. ASSUME NEW r \in Requests, NEW op \in Transitions, NEW b \in BookingIds,
             StartTransition(r, op, b)
      PROVE  NothingStale'
  <2> DEFINE t == [Idle EXCEPT !.op = op, !.step = "checked", !.booking = b]
  <2>1. t \in Request /\ t.op = op /\ t.booking = b /\ ~t.stale
    BY DEF Idle, Request, Ops, Steps
  <2>2. /\ txn' = [txn EXCEPT ![r] = t] /\ UNCHANGED <<slotState, status, lostUpdate>>
        /\ status[b] \in From(op)
    BY <1>6 DEF StartTransition, Begin
  <2> HIDE DEF t
  <2>3. QED
    BY <1>4, <2>1, <2>2 DEF Transitions
<1>7. ASSUME NEW r \in Requests, NEW s \in SlotIds, StartDelete(r, s)
      PROVE  NothingStale'
  <2> DEFINE t == [Idle EXCEPT !.op = "delete", !.step = "checked", !.slot = s]
  <2>1. t \in Request /\ t.op = "delete" /\ t.slot = s /\ ~t.stale
    BY DEF Idle, Request, Ops, Steps
  <2>2. /\ txn' = [txn EXCEPT ![r] = t] /\ UNCHANGED <<slotState, status, lostUpdate>>
        /\ slotState[s] = "open"
    BY <1>7 DEF StartDelete, Begin
  <2> HIDE DEF t
  <2>3. QED
    BY <1>4, <2>1, <2>2 DEF Transitions
<1>8. ASSUME NEW r \in Requests, Finish(r),
             UNCHANGED <<slotState, status, lostUpdate>>
      PROVE  NothingStale'
  BY <1>4, <1>8, IdleFields DEF Finish, Transitions
<1>9. ASSUME NEW r \in Requests, LockSlot(r) PROVE NothingStale'
  <2> DEFINE t == [txn[r] EXCEPT !.step = "locked", !.locks = {txn[r].slot}]
  <2>1. /\ txn[r].op = "create" /\ txn[r].slot \in SlotIds
        /\ UNCHANGED <<slotState, status, lostUpdate>>
        /\ Finish(r) \/ txn' = [txn EXCEPT ![r] = t]
    BY <1>9 DEF LockSlot, At, Advance, IInv, ShapeOK
  <2>2. t \in Request /\ t.op = "create" /\ ~t.stale
    BY <1>1, <2>1 DEF Request, Steps
  <2> HIDE DEF t
  <2>3. QED
    BY <1>4, <1>8, <2>1, <2>2 DEF Transitions
<1>10. ASSUME NEW r \in Requests, UpdateStatus(r) PROVE NothingStale'
  <2> DEFINE fresh == status[txn[r].booking] \in From(txn[r].op)
             t == [txn[r] EXCEPT !.step = "updated", !.stale = ~fresh]
  <2>1. /\ txn[r].op \in Transitions /\ txn[r].step = "checked"
        /\ UNCHANGED <<slotState, status, lostUpdate>>
        /\ txn' = [txn EXCEPT ![r] = t]
    BY <1>10 DEF UpdateStatus, Advance
  <2>2. fresh
    BY <2>1 DEF NothingStale
  <2>3. t \in Request /\ t.step = "updated" /\ ~t.stale
    BY <1>1, <2>2 DEF Request, Steps
  <2> HIDE DEF t
  <2>4. QED
    BY <1>4, <2>1, <2>3
<1>11. ASSUME NEW r \in Requests, MatchSlots(r) PROVE NothingStale'
  <2> DEFINE t == [txn[r] EXCEPT !.step = "matched",
                                 !.found = BookedMatches(txn[r].booking)]
  <2>1. /\ UNCHANGED <<slotState, status, lostUpdate>>
        /\ txn' = [txn EXCEPT ![r] = t]
    BY <1>11 DEF MatchSlots, Advance
  <2>2. t \in Request /\ t.step = "matched" /\ ~t.stale
    BY <1>1 DEF Request, Steps, BookedMatches, Booked
  <2> HIDE DEF t
  <2>3. QED
    BY <1>4, <2>1, <2>2
<1>12. ASSUME NEW r \in Requests, LockRow(r) PROVE NothingStale'
  <2>1. PICK s \in txn[r].found : txn' = [txn EXCEPT ![r] =
                                    [txn[r] EXCEPT !.locks = @ \cup {s}]]
    BY <1>12 DEF LockRow, Advance
  <2> DEFINE t == [txn[r] EXCEPT !.locks = @ \cup {s}]
  <2>2. txn[r].step = "matched" /\ UNCHANGED <<slotState, status, lostUpdate>>
    BY <1>12 DEF LockRow
  <2>3. t \in Request /\ t.step = "matched" /\ ~t.stale
    BY <1>1, <2>2 DEF Request
  <2> HIDE DEF t
  <2>4. QED
    BY <1>4, <2>1, <2>2, <2>3 DEF t
<1>13. ASSUME NEW r \in Requests, OneOrNone(r) PROVE NothingStale'
  <2>1. UNCHANGED <<slotState, status, lostUpdate>>
    BY <1>13 DEF OneOrNone
  <2>2. ASSUME NEW t \in Request, txn' = [txn EXCEPT ![r] = t],
               t.step = "locked", t.stale = txn[r].stale
        PROVE  NothingStale'
    BY <1>1, <1>4, <2>1, <2>2
  <2>3. CASE txn' = [txn EXCEPT ![r] = [txn[r] EXCEPT !.step = "locked", !.found = {}]]
    <3> DEFINE t == [txn[r] EXCEPT !.step = "locked", !.found = {}]
    <3>1. t \in Request /\ t.step = "locked" /\ t.stale = txn[r].stale
      BY <1>1 DEF Request, Steps
    <3> HIDE DEF t
    <3>2. QED
      BY <2>2, <2>3, <3>1 DEF t
  <2>4. ASSUME NEW s \in Booked(txn[r].found),
               txn' = [txn EXCEPT ![r] = [txn[r] EXCEPT !.step = "locked",
                                                        !.found = {}, !.slot = s]]
        PROVE  NothingStale'
    <3> DEFINE t == [txn[r] EXCEPT !.step = "locked", !.found = {}, !.slot = s]
    <3>1. t \in Request /\ t.step = "locked" /\ t.stale = txn[r].stale
      BY <1>1 DEF Request, Steps, Booked
    <3> HIDE DEF t
    <3>2. QED
      BY <2>2, <2>4, <3>1 DEF t
  <2>5. QED
    BY <1>8, <1>13, <2>1, <2>3, <2>4 DEF OneOrNone, Advance
<1>14. ASSUME NEW r \in Requests, DeleteRow(r) PROVE NothingStale'
  <2> DEFINE over == slotState[txn[r].slot] = "booked"
             t == [txn[r] EXCEPT !.step = "locked", !.locks = {txn[r].slot},
                                 !.stale = over]
  <2>1. /\ txn[r].op = "delete" /\ txn[r].step = "checked"
        /\ txn[r].slot \in SlotIds
        /\ UNCHANGED <<slotState, status, lostUpdate>>
        /\ txn' = [txn EXCEPT ![r] = t]
    BY <1>14 DEF DeleteRow, At, Advance, IInv, ShapeOK
  <2>2. ~over
    BY <2>1 DEF NothingStale
  <2>3. t \in Request /\ t.step = "locked" /\ ~t.stale
    BY <1>1, <2>1, <2>2 DEF Request, Steps
  <2> HIDE DEF t
  <2>4. QED
    BY <1>4, <2>1, <2>3
<1>15. ASSUME NEW r \in Requests, CommitCreate(r) PROVE NothingStale'
  <2>1. /\ txn[r].op = "create" /\ txn' = [txn EXCEPT ![r] = Idle]
        /\ lostUpdate' = (lostUpdate \/ txn[r].stale)
    BY <1>15 DEF CommitCreate, At, Commit, Finish
  <2>2. /\ txn[r].booking \in BookingIds /\ status[txn[r].booking] = "absent"
        /\ status' = [status EXCEPT ![txn[r].booking] = "PENDING"]
        /\ txn[r].slot \in SlotIds
        /\ slotState' = [slotState EXCEPT ![txn[r].slot] = "booked"]
    BY <1>15, CommitCreateIInv
  <2>3. \A q \in Requests \ {r} :
           txn[q].op \in Transitions => status'[txn[q].booking] = status[txn[q].booking]
    BY <2>2 DEF IInv, ShapeOK, TypeOK
  <2>4. \A q \in Requests \ {r} : txn[q].op = "delete" =>
           slotState'[txn[q].slot] = slotState[txn[q].slot]
    BY <2>1, <2>2 DEF IInv, ShapeOK, TypeOK, NoOverlap
  <2>5. QED
    BY <1>1, <2>1, <2>3, <2>4, IdleFields, StaysFresh DEF Transitions
<1>16. ASSUME NEW r \in Requests, CommitConfirm(r) \/ CommitEnd(r)
       PROVE  NothingStale'
  <2>1. /\ txn[r].op \in Transitions /\ txn' = [txn EXCEPT ![r] = Idle]
        /\ lostUpdate' = (lostUpdate \/ txn[r].stale)
    BY <1>16 DEF CommitConfirm, CommitEnd, At, Commit, Finish, Ending, Transitions
  <2>2. PICK new : status' = [status EXCEPT ![txn[r].booking] = new]
    BY <1>16 DEF CommitConfirm, CommitEnd
  <2>3. \A q \in Requests \ {r} :
           txn[q].op \in Transitions => status'[txn[q].booking] = status[txn[q].booking]
    BY <2>1, <2>2 DEF IInv, ShapeOK, TypeOK, NoOverlap
  <2>4. \A s \in SlotIds : slotState'[s] = "booked" => slotState[s] = "booked"
    BY <1>16 DEF CommitConfirm, CommitEnd, Freed
  <2>5. \A q \in Requests : txn[q].op = "delete" => txn[q].slot \in SlotIds
    BY DEF IInv, ShapeOK
  <2>6. QED
    BY <1>1, <2>1, <2>3, <2>4, <2>5, IdleFields, StaysFresh DEF Transitions
<1>17. ASSUME NEW r \in Requests, CommitDelete(r) PROVE NothingStale'
  <2>1. /\ txn' = [txn EXCEPT ![r] = Idle] /\ status' = status
        /\ lostUpdate' = (lostUpdate \/ txn[r].stale)
        /\ \A s \in SlotIds : slotState'[s] = "booked" => slotState[s] = "booked"
    BY <1>17 DEF CommitDelete, At, Commit, Finish, IInv, TypeOK
  <2>2. \A q \in Requests : txn[q].op = "delete" => txn[q].slot \in SlotIds
    BY DEF IInv, ShapeOK
  <2>3. QED
    BY <1>1, <2>1, <2>2, IdleFields, StaysFresh DEF Transitions
<1>18. ASSUME NEW r \in Requests, Abort(r) PROVE NothingStale'
  BY <1>8, <1>18 DEF Abort
<1>19. QED
  BY <1>2, <1>3, <1>5, <1>6, <1>7, <1>9, <1>10, <1>11, <1>12, <1>13, <1>14,
     <1>15, <1>16, <1>17, <1>18 DEF Next, Proceed

\* Lost updates are the overlaps' doing and nothing else's: while nobody decides
\* on a row that another request is deciding on, slots and bookings agree, and
\* no slot has two live bookings.
THEOREM AgreeWithoutOverlap == Spec /\ []NoOverlap => []TablesAgree
<1>1. Init => NothingStale
  BY IdleFields DEF Init, NothingStale, Transitions
<1>2. IInv /\ NothingStale => TablesAgree
  BY DEF IInv, NothingStale
<1>3. QED
  BY <1>1, <1>2, NextNothingStale, Invariance, PTL DEF Spec

-----------------------------------------------------------------------------

BoundInv ==
    \A u \in Renters :
        /\ IsFiniteSet(PendingOrCreating(u))
        /\ Cardinality(PendingOrCreating(u)) + 1 <= MaxPending + Cardinality(Requests)

\* Only the start of a create brings a booking that was not there or on its
\* way; a commit turns it from one into the other.
LEMMA NoNewPending ==
    ASSUME IInv, NEW u \in Renters, [Next]_vars,
           \A r \in Requests, b \in BookingIds, s \in SlotIds :
               StartCreate(r, b, s) => BookingRenter[b] # u
    PROVE  PendingOrCreating(u)' \subseteq PendingOrCreating(u)
<1> USE DEF PendingOrCreating, PendingOf
<1>1. txn \in [Requests -> Request] /\ status \in [BookingIds -> Statuses]
  BY DEF IInv, TypeOK
<1>2. ASSUME NEW r \in Requests, NEW t, txn' = [txn EXCEPT ![r] = t],
             status' = status,
             t.op = "create" => \/ txn[r].op = "create" /\ t.booking = txn[r].booking
                                \/ BookingRenter[t.booking] # u
      PROVE  PendingOrCreating(u)' \subseteq PendingOrCreating(u)
  BY <1>1, <1>2
<1>3. CASE UNCHANGED <<txn, status>>
  BY <1>3
<1>4. ASSUME NEW r \in Requests, NEW new \in Statuses \ {"PENDING"},
             status' = [status EXCEPT ![txn[r].booking] = new],
             txn' = [txn EXCEPT ![r] = Idle]
      PROVE  PendingOrCreating(u)' \subseteq PendingOrCreating(u)
  BY <1>1, <1>4, IdleFields
<1>5. ASSUME NEW r \in Requests, CommitCreate(r)
      PROVE  PendingOrCreating(u)' \subseteq PendingOrCreating(u)
  <2>1. /\ txn[r].op = "create" /\ txn' = [txn EXCEPT ![r] = Idle]
        /\ status' = [status EXCEPT ![txn[r].booking] = "PENDING"]
    BY <1>5 DEF CommitCreate, At, Commit, Finish
  <2>2. QED
    BY <1>1, <2>1, IdleFields
<1>6. ASSUME NEW r \in Requests, CommitConfirm(r) \/ CommitEnd(r)
      PROVE  PendingOrCreating(u)' \subseteq PendingOrCreating(u)
  <2>1. \A op \in Ending : To(op) \in Statuses \ {"PENDING"}
    BY DEF Ending, To, Statuses
  <2>2. QED
    BY <1>4, <1>6, <2>1 DEF CommitConfirm, CommitEnd, Commit, Finish, Statuses
<1>7. ASSUME NEW r \in Requests,
             LockSlot(r) \/ UpdateStatus(r) \/ MatchSlots(r) \/ LockRow(r)
             \/ OneOrNone(r) \/ DeleteRow(r) \/ CommitDelete(r) \/ Abort(r)
      PROVE  PendingOrCreating(u)' \subseteq PendingOrCreating(u)
  <2>1. status' = status
    BY <1>7 DEF LockSlot, UpdateStatus, MatchSlots, LockRow, OneOrNone, DeleteRow,
       CommitDelete, Abort
  <2>2. ASSUME Finish(r) PROVE PendingOrCreating(u)' \subseteq PendingOrCreating(u)
    BY <1>2, <2>1, <2>2, IdleFields DEF Finish
  <2>3. ASSUME NEW t, Advance(r, t), t.op = txn[r].op, t.booking = txn[r].booking
        PROVE  PendingOrCreating(u)' \subseteq PendingOrCreating(u)
    BY <1>2, <2>1, <2>3 DEF Advance
  <2>4. txn[r] \in Request
    BY <1>1
  <2>5. CASE CommitDelete(r) \/ Abort(r)
    BY <2>2, <2>5 DEF CommitDelete, Abort, Commit
  <2>6. CASE LockSlot(r)
    <3>1. Finish(r) \/ Advance(r, [txn[r] EXCEPT !.step = "locked",
                                                 !.locks = {txn[r].slot}])
      BY <2>6 DEF LockSlot
    <3>2. QED
      BY <2>2, <2>3, <2>4, <3>1 DEF Request
  <2>7. CASE UpdateStatus(r)
    <3>1. PICK stale : Advance(r, [txn[r] EXCEPT !.step = "updated", !.stale = stale])
      BY <2>7 DEF UpdateStatus
    <3>2. QED
      BY <2>3, <2>4, <3>1 DEF Request
  <2>8. CASE MatchSlots(r)
    <3>1. PICK found : Advance(r, [txn[r] EXCEPT !.step = "matched", !.found = found])
      BY <2>8 DEF MatchSlots
    <3>2. QED
      BY <2>3, <2>4, <3>1 DEF Request
  <2>12. CASE LockRow(r)
    <3>1. PICK s : Advance(r, [txn[r] EXCEPT !.locks = @ \cup {s}])
      BY <2>12 DEF LockRow
    <3>2. QED
      BY <2>3, <2>4, <3>1 DEF Request
  <2>9. CASE OneOrNone(r)
    <3>1. \/ Finish(r)
          \/ Advance(r, [txn[r] EXCEPT !.step = "locked", !.found = {}])
          \/ \E s : Advance(r, [txn[r] EXCEPT !.step = "locked", !.found = {},
                                            !.slot = s])
      BY <2>9 DEF OneOrNone
    <3>2. QED
      BY <2>2, <2>3, <2>4, <3>1 DEF Request
  <2>10. CASE DeleteRow(r)
    <3>1. PICK stale : Advance(r, [txn[r] EXCEPT !.step = "locked",
                                     !.locks = {txn[r].slot}, !.stale = stale])
      BY <2>10 DEF DeleteRow
    <3>2. QED
      BY <2>3, <2>4, <3>1 DEF Request
  <2>11. QED
    BY <1>7, <2>5, <2>6, <2>7, <2>8, <2>9, <2>10, <2>12
<1>8. ASSUME NEW r \in Requests, NEW b \in BookingIds, NEW s \in SlotIds,
             StartCreate(r, b, s)
      PROVE  PendingOrCreating(u)' \subseteq PendingOrCreating(u)
  <2> DEFINE t == [Idle EXCEPT !.op = "create", !.step = "checked",
                               !.booking = b, !.slot = s]
  <2>1. /\ txn' = [txn EXCEPT ![r] = t] /\ status' = status /\ t.booking = b
        /\ BookingRenter[b] # u
    BY <1>8 DEF StartCreate, Begin, Idle
  <2> HIDE DEF t
  <2>2. QED
    BY <1>2, <2>1
<1>9. ASSUME NEW r \in Requests, NEW op \in Transitions, NEW b \in BookingIds,
             StartTransition(r, op, b)
      PROVE  PendingOrCreating(u)' \subseteq PendingOrCreating(u)
  BY <1>2, <1>9 DEF StartTransition, Begin, Idle, Transitions
<1>10. ASSUME NEW r \in Requests, NEW s \in SlotIds, StartDelete(r, s)
      PROVE  PendingOrCreating(u)' \subseteq PendingOrCreating(u)
  BY <1>2, <1>10 DEF StartDelete, Begin, Idle
<1>11. QED
  BY <1>3, <1>5, <1>6, <1>7, <1>8, <1>9, <1>10
     DEF Next, Proceed, Tick, CreateSlot, vars

\* A create that starts has counted fewer than the limit.
LEMMA NextBoundInv == IInv /\ BoundInv /\ [Next]_vars => BoundInv'
<1> SUFFICES ASSUME IInv, BoundInv, [Next]_vars, NEW u \in Renters
             PROVE  /\ IsFiniteSet(PendingOrCreating(u)')
                    /\ Cardinality(PendingOrCreating(u)') + 1
                          <= MaxPending + Cardinality(Requests)
  BY DEF BoundInv
<1>1. CASE PendingOrCreating(u)' \subseteq PendingOrCreating(u)
  <2>1. /\ IsFiniteSet(PendingOrCreating(u)')
        /\ Cardinality(PendingOrCreating(u)') <= Cardinality(PendingOrCreating(u))
    BY <1>1, FS_Subset DEF BoundInv
  <2>2. /\ Cardinality(PendingOrCreating(u)') \in Nat
        /\ Cardinality(PendingOrCreating(u)) \in Nat
        /\ Cardinality(Requests) \in Nat
    BY <2>1, FS_CardinalityType, RequestsAssumption DEF BoundInv
  <2>3. Cardinality(PendingOrCreating(u)) + 1 <= MaxPending + Cardinality(Requests)
    BY DEF BoundInv
  <2>4. QED
    BY <2>1, <2>2, <2>3, BoundsAssumption
<1>2. ASSUME NEW r \in Requests, NEW b \in BookingIds, NEW s \in SlotIds,
             StartCreate(r, b, s), BookingRenter[b] = u
      PROVE  /\ IsFiniteSet(PendingOrCreating(u)')
             /\ Cardinality(PendingOrCreating(u)') + 1
                   <= MaxPending + Cardinality(Requests)
  <2> DEFINE f == [q \in Requests |-> txn'[q].booking]
             D == PendingOrCreating(u)'
  <2>1. status' = status /\ Cardinality(PendingOf(u)) < MaxPending
    BY <1>2 DEF StartCreate, WithinLimit
  <2>2. D \subseteq PendingOf(u) \cup {f[q] : q \in Requests}
    BY <2>1 DEF PendingOrCreating, PendingOf
  <2>3. IsFiniteSet(PendingOf(u))
    <3>1. PendingOf(u) \subseteq PendingOrCreating(u)
      BY DEF PendingOrCreating
    <3>2. IsFiniteSet(PendingOrCreating(u))
      BY DEF BoundInv
    <3>3. QED
      BY <3>1, <3>2, FS_Subset
  <2> HIDE DEF f, D
  <2>4. IsFiniteSet(D) /\ Cardinality(D) + 1 <= MaxPending + Cardinality(Requests)
    BY <2>1, <2>2, <2>3, OvershootBound, RequestsAssumption, BoundsAssumption
  <2>5. QED
    BY <2>4 DEF D
<1>3. QED
  BY <1>1, <1>2, NoNewPending

\* Requests that count without a lock exceed a renter's pending limit by less
\* than there are requests at once.
THEOREM PendingOvershootBoundedProved == Spec => []PendingOvershootBounded
<1>1. ASSUME Init PROVE BoundInv
  <2>1. \A u \in Renters : PendingOrCreating(u) = {}
    BY <1>1, IdleFields DEF Init, PendingOrCreating, PendingOf
  <2>2. Cardinality(Requests) \in Nat /\ Cardinality(Requests) # 0
    BY RequestsAssumption, FS_CardinalityType, FS_EmptySet
  <2>3. QED
    <3>1. IsFiniteSet({}) /\ Cardinality({}) + 1 <= MaxPending + Cardinality(Requests)
      BY <2>2, BoundsAssumption, FS_EmptySet
    <3>2. QED
      BY <2>1, <3>1 DEF BoundInv
<1>2. BoundInv => PendingOvershootBounded
  BY DEF BoundInv, PendingOvershootBounded
<1>3. QED
  BY <1>1, <1>2, NextBoundInv, Invariance, PTL DEF Spec
=============================================================================
