---------------------------- MODULE MCMessaging ----------------------------
(***************************************************************************)
(* Instances of Messaging for TLC: one renter, one agent, one listing.     *)
(***************************************************************************)
EXTENDS Messaging, TLC

Interchangeable ==
    Permutations(Messages) \cup Permutations(Conversations)
        \cup Permutations(Requests)
=============================================================================
