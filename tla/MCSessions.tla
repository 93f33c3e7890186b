----------------------------- MODULE MCSessions -----------------------------
(***************************************************************************)
(* Instances of Sessions for TLC: one user, one browser.                   *)
(***************************************************************************)
EXTENDS Sessions, TLC

Interchangeable == Permutations(Tokens) \cup Permutations(Requests)
=============================================================================
