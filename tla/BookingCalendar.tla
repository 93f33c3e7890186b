--------------------------- MODULE BookingCalendar ---------------------------
(***************************************************************************)
(* What agents and renters see of slots and bookings: the two tables of    *)
(* app/domains/bookings/models.py, each request done at once and none in   *)
(* flight.  A slot is booked and freed together with a booking of it.      *)
(*                                                                         *)
(* Requests decide on rows they have not locked, so a decision may be      *)
(* applied to a row that no longer allows it.  That is an Overwrite: it    *)
(* leaves its mark in `upset`, and even then it touches one booking, and   *)
(* one booked slot that starts when and where the booking's slot does.     *)
(***************************************************************************)
CONSTANTS
    SlotIds,
    BookingIds,
    SlotProperty,  \* slot id -> its property_id
    SlotStart,     \* slot id -> its slot_start
    NoSlot

VARIABLES
    slotState,  \* "absent", "open", "booked" or "deleted"
    status,     \* bookings.status, or "absent"
    visit,      \* the slot a booking was made of
    upset       \* some decision was applied to a row that had changed

vars == <<slotState, status, visit, upset>>

Init ==
    /\ slotState = [s \in SlotIds |-> "absent"]
    /\ status = [b \in BookingIds |-> "absent"]
    /\ visit = [b \in BookingIds |-> NoSlot]
    /\ upset = FALSE

Turn(s, from, to) ==
    /\ slotState[s] = from
    /\ slotState' = [slotState EXCEPT ![s] = to]

Offer(s) ==
    /\ Turn(s, "absent", "open")
    /\ UNCHANGED <<status, visit, upset>>

Withdraw(s) ==
    /\ Turn(s, "open", "deleted")
    /\ UNCHANGED <<status, visit, upset>>

Book(b, s) ==
    /\ Turn(s, "open", "booked")
    /\ status[b] = "absent"
    /\ status' = [status EXCEPT ![b] = "PENDING"]
    /\ visit' = [visit EXCEPT ![b] = s]
    /\ UNCHANGED upset

Confirm(b) ==
    /\ status[b] = "PENDING"
    /\ status' = [status EXCEPT ![b] = "CONFIRMED"]
    /\ UNCHANGED <<slotState, visit, upset>>

Reject(b) ==
    /\ status[b] = "PENDING"
    /\ status' = [status EXCEPT ![b] = "REJECTED"]
    /\ Turn(visit[b], "booked", "open")
    /\ UNCHANGED <<visit, upset>>

Cancel(b) ==
    /\ status[b] \in {"PENDING", "CONFIRMED"}
    /\ status' = [status EXCEPT ![b] = "CANCELLED"]
    /\ Turn(visit[b], "booked", "open")
    /\ UNCHANGED <<visit, upset>>

\* Slots that freeing by match cannot tell apart.
Alike(s, t) == SlotProperty[s] = SlotProperty[t] /\ SlotStart[s] = SlotStart[t]

OverwriteBooking(b, new) ==
    /\ status[b] # "absent"
    /\ status' = [status EXCEPT ![b] = new]
    /\ \/ UNCHANGED slotState
       \/ /\ new # "CONFIRMED"
          /\ \E s \in SlotIds : Alike(s, visit[b]) /\ Turn(s, "booked", "open")

OverwriteSlot(s) == Turn(s, "booked", "deleted") /\ UNCHANGED status

Overwrite ==
    /\ upset' = TRUE
    /\ UNCHANGED visit
    /\ \/ \E b \in BookingIds, new \in {"CONFIRMED", "REJECTED", "CANCELLED"} :
             OverwriteBooking(b, new)
       \/ \E s \in SlotIds : OverwriteSlot(s)

Next ==
    \/ \E s \in SlotIds : Offer(s) \/ Withdraw(s)
    \/ \E b \in BookingIds, s \in SlotIds : Book(b, s)
    \/ \E b \in BookingIds : Confirm(b) \/ Reject(b) \/ Cancel(b)
    \/ Overwrite

Spec == Init /\ [][Next]_vars
=============================================================================
