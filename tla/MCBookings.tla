----------------------------- MODULE MCBookings -----------------------------
(***************************************************************************)
(* Instances of Bookings for TLC: one property whose agent opens two slots *)
(* at the same hour, or at different hours, and renters who compete.       *)
(***************************************************************************)
EXTENDS Bookings, TLC

CONSTANTS p1, s1, s2, u1

\* Two slots of one property with one start: nothing in the code prevents it.
OneProperty == [s \in SlotIds |-> p1]
OneHour     == [s \in SlotIds |-> 1]

\* The second slot starts after the first.
TwoHours == s1 :> 1 @@ s2 :> 2

\* One renter makes every booking, so that the pending limit is reached.
OneRenter == [b \in BookingIds |-> u1]

\* The constants above are invariant under renaming of these sets, those that
\* name the slots only when the slots start together.
Interchangeable == Permutations(Requests) \cup Permutations(BookingIds)
Twins           == Interchangeable \cup Permutations(SlotIds)
=============================================================================
