------------------------------ MODULE MCAccess ------------------------------
(***************************************************************************)
(* Instances of Access for TLC.                                            *)
(***************************************************************************)
EXTENDS Access, TLC

Interchangeable == Permutations(Payments) \cup Permutations(Requests)
=============================================================================
