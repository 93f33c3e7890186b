------------------------------ MODULE Counting ------------------------------
(***************************************************************************)
(* Facts about finite sets for the proofs of Bookings and Media: about     *)
(* limits that are checked by a count without a lock, and about rows that  *)
(* are locked in order.                                                    *)
(***************************************************************************)
EXTENDS Integers, FiniteSetTheorems, WellFoundedInduction, TLAPS

\* A handler saw fewer than m rows.  Whatever is there or on its way then, at
\* most one new row per request, exceeds the limit m by less than the number
\* of requests.
LEMMA OvershootBound ==
    ASSUME NEW R, IsFiniteSet(R), NEW S, IsFiniteSet(S), NEW f,
           NEW m \in Nat, Cardinality(S) < m,
           NEW D, D \subseteq S \cup {f[r] : r \in R}
    PROVE  IsFiniteSet(D) /\ Cardinality(D) + 1 <= m + Cardinality(R)
<1> DEFINE T == {f[r] : r \in R}
           g == [r \in R |-> f[r]]
<1>1. g \in Surjection(R, T)
  BY DEF Surjection
<1>2. IsFiniteSet(T) /\ Cardinality(T) <= Cardinality(R)
  BY <1>1, FS_Surjection
<1> HIDE DEF T, g
<1>3. /\ IsFiniteSet(S \cup T)
      /\ Cardinality(S \cup T) = Cardinality(S) + Cardinality(T) - Cardinality(S \cap T)
  BY <1>2, FS_Union
<1>4. IsFiniteSet(S \cap T)
  BY FS_Intersection
<1>5. /\ Cardinality(S) \in Nat /\ Cardinality(T) \in Nat
      /\ Cardinality(R) \in Nat /\ Cardinality(S \cap T) \in Nat
  BY <1>2, <1>4, FS_CardinalityType
<1>6. Cardinality(S \cup T) + 1 <= m + Cardinality(R)
  BY <1>2, <1>3, <1>5
<1>7. D \subseteq S \cup T
  BY DEF T
<1>8. IsFiniteSet(D) /\ Cardinality(D) <= Cardinality(S \cup T)
  BY <1>3, <1>7, FS_Subset
<1>9. Cardinality(D) \in Nat /\ Cardinality(S \cup T) \in Nat
  BY <1>3, <1>8, FS_CardinalityType
<1>10. QED
  BY <1>5, <1>6, <1>8, <1>9

\* Finitely many numbers have a largest: nobody's set of larger ones is least
\* by inclusion, and it is empty.
LEMMA LargestOfFinite ==
    ASSUME NEW S, IsFiniteSet(S), S # {}, NEW m \in [S -> Nat]
    PROVE  \E q \in S : \A p \in S : m[p] <= m[q]
<1> DEFINE Above(q) == {p \in S : m[q] < m[p]}
           T == {Above(q) : q \in S}
<1>1. IsWellFoundedOn(StrictSubsetOrdering(S), SUBSET S)
  BY FS_StrictSubsetOrderingWellFounded, FS_FiniteSubsetsOfFinite
<1>2. T \subseteq SUBSET S /\ T # {}
  <2>1. \A q \in S : Above(q) \in SUBSET S
    OBVIOUS
  <2>2. PICK q : q \in S
    OBVIOUS
  <2>3. Above(q) \in T
    BY <2>2
  <2> HIDE DEF Above
  <2>4. QED
    BY <2>1, <2>3
<1> HIDE DEF T
<1>3. \E x \in T : \A y \in T : <<y, x>> \notin StrictSubsetOrdering(S)
  BY <1>1, <1>2, WFMin
<1>4. PICK q \in S : \A p \in S : <<Above(p), Above(q)>> \notin StrictSubsetOrdering(S)
  BY <1>3 DEF T
<1>5. ASSUME NEW p \in S, m[q] < m[p] PROVE FALSE
  <2>1. Above(p) \subseteq Above(q) /\ p \in Above(q) /\ p \notin Above(p)
    BY <1>5
  <2>2. Above(p) \in SUBSET S /\ Above(q) \in SUBSET S
    OBVIOUS
  <2> HIDE DEF Above
  <2>3. <<Above(p), Above(q)>> \in StrictSubsetOrdering(S)
    BY <2>1, <2>2 DEF StrictSubsetOrdering
  <2>4. QED
    BY <1>4, <2>3
<1>6. QED
  BY <1>5
=============================================================================
