----------------------------- MODULE MCPayments -----------------------------
(***************************************************************************)
(* Instances of Payments for TLC.                                          *)
(***************************************************************************)
EXTENDS Payments, TLC

\* Payments are told apart only by their references, deliveries not at all.
Interchangeable == Permutations(Payments) \cup Permutations(Deliveries)
=============================================================================
