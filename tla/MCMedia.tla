------------------------------ MODULE MCMedia ------------------------------
(***************************************************************************)
(* Instances of Media for TLC: the gallery of one listing.                 *)
(***************************************************************************)
EXTENDS Media

\* New images are at position 0.  Two reorders may meet that put the last key
\* first, and the others in the order of their keys or in the opposite one.
Rotated == [i \in Images |-> i % Cardinality(Images)]
Turned == [i \in Images |-> Cardinality(Images) - i]
Either == {Rotated, Turned}
=============================================================================
