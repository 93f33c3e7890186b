------------------------------- MODULE Gallery -------------------------------
(***************************************************************************)
(* What the visitors of a listing see of its images: app/domains/media/    *)
(* service.py, each request done at once and none in flight.  The first    *)
(* image is primary, a new primary replaces the old one, and when the      *)
(* primary image is deleted one of the rest takes its place.               *)
(*                                                                         *)
(* Requests count, list and read flags without a lock.  An Overtaken       *)
(* attach or delete finds another gallery than the one it looked at, and   *)
(* leaves its mark in `upset`.  Even then it adds or removes one image,    *)
(* and leaves two primary images to nobody.  A Mixed reorder, marked in     *)
(* `mixed`, leaves out images that came or were moved meanwhile.           *)
(***************************************************************************)
EXTENDS Naturals

CONSTANTS
    Images,        \* primary keys
    Positions,     \* the display_order an attach may ask for
    Arrangements,  \* the orders a reorder may ask for, image -> position
    Unlisted       \* the position of an image that a reorder does not name

VARIABLES
    row,      \* "absent", "attached" or "deleted", for each image
    primary,  \* the images shown first
    order,    \* display_order
    upset,    \* some request was overtaken
    mixed     \* the images may be in an order that nobody asked for

vars == <<row, primary, order, upset, mixed>>

Attached == {i \in Images : row[i] = "attached"}

Init ==
    /\ row = [i \in Images |-> "absent"]
    /\ primary = {}
    /\ order = [i \in Images |-> 0]
    /\ upset = FALSE
    /\ mixed = FALSE

Add(i, position) ==
    /\ row[i] = "absent"
    /\ row' = [row EXCEPT ![i] = "attached"]
    /\ order' = [order EXCEPT ![i] = position]

Remove(i) ==
    /\ row[i] \in {"attached", "deleted"}
    /\ row' = [row EXCEPT ![i] = "deleted"]
    /\ UNCHANGED order

Attach(i, wanted, position) ==
    /\ Add(i, position)
    /\ primary' = IF wanted \/ Attached = {} THEN {i} ELSE primary
    /\ UNCHANGED <<upset, mixed>>

\* A reorder may meanwhile have put another image first than the one that the
\* delete listed first: which of the rest is promoted is left open.
Delete(i) ==
    /\ i \in Attached
    /\ Remove(i)
    /\ IF i \in primary /\ Attached # {i}
       THEN \E j \in Attached \ {i} : primary' = {j}
       ELSE primary' = primary \ {i}
    /\ UNCHANGED <<upset, mixed>>

\* Every image that the list names gets its place.
Reorder(list) ==
    /\ order' = [i \in Images |-> IF i \in Attached /\ list[i] # Unlisted
                                  THEN list[i] ELSE order[i]]
    /\ UNCHANGED <<row, primary, upset, mixed>>

Mixed(list, moved) ==
    /\ \A i \in moved : list[i] # Unlisted
    /\ order' = [i \in Images |-> IF i \in moved THEN list[i] ELSE order[i]]
    /\ mixed' = TRUE
    /\ UNCHANGED <<row, primary, upset>>

Overtaken(i) ==
    /\ upset' = TRUE
    /\ UNCHANGED mixed
    /\ \/ \E position \in Positions : Add(i, position) /\ primary' \in {primary, {i}}
       \/ /\ Remove(i)
          /\ primary' \in {primary \ {i}, {}} \cup {{j} : j \in Attached \ {i}}

Next ==
    \/ \E i \in Images :
          \/ \E wanted \in BOOLEAN, position \in Positions :
                Attach(i, wanted, position)
          \/ Delete(i)
          \/ Overtaken(i)
    \/ \E list \in Arrangements :
          \/ Reorder(list)
          \/ \E moved \in SUBSET Attached : Mixed(list, moved)

Spec == Init /\ [][Next]_vars
=============================================================================
