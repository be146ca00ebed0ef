--------------------------- MODULE VersionsProofs ---------------------------
(***************************************************************************)
(* CompareVersions is a total preorder on version keys of any length: the  *)
(* sort of the versions index and the scan for the root index rely on it,  *)
(* and Derivation's Rank presupposes it.                                   *)
(***************************************************************************)
EXTENDS Versions, WellFoundedInduction, TLAPS

\* What remains of a key past its last segment is 0.
LEMMA NumberIsNat ==
    ASSUME NEW k \in Keys, NEW i \in Nat \ {0}
    PROVE  Number(k, i) \in Nat
<1>1. k \in Seq(Segment)
  BY DEF Keys
<1>2. CASE i <= Len(k)
  <2>1. k[i] \in Segment
    BY <1>1, <1>2
  <2> QED
    BY <1>2, <2>1 DEF Number, Segment
<1>3. CASE ~(i <= Len(k))
  BY <1>3 DEF Number
<1> QED
  BY <1>2, <1>3

\* Of the places where something holds one is the first.
LEMMA FirstPlace ==
    ASSUME NEW T \in SUBSET Nat, T # {}
    PROVE  \E i \in T : \A j \in T : i <= j
<1>1. PICK i \in T : \A j \in T : ~(<<j, i>> \in OpToRel(<, Nat))
  BY WFMin, NatLessThanWellFounded, Zenon
<1>2. \A j \in T : <<j, i>> \in OpToRel(<, Nat) <=> j < i
  BY Zenon DEF OpToRel
<1>3. \A j \in T : ~(j < i)
  BY <1>1, <1>2, Zenon
<1> QED
  BY <1>3

\* The comparison may go on past the longer key.
Differ(k, l) == {i \in Nat \ {0} : Number(k, i) # Number(l, i)}

LEMMA DifferBounded ==
    ASSUME NEW k \in Keys, NEW l \in Keys
    PROVE  Differ(k, l) \subseteq 1..(Len(k) + Len(l))
<1>1. Len(k) \in Nat /\ Len(l) \in Nat
  BY DEF Keys
<1> QED
  BY <1>1 DEF Differ, Number

LEMMA BeforeAnywhere ==
    ASSUME NEW k \in Keys, NEW l \in Keys
    PROVE  Before(k, l) <=> \E i \in Nat \ {0} :
               /\ Number(k, i) < Number(l, i)
               /\ \A j \in 1..(i - 1) : Number(k, j) = Number(l, j)
<1>1. Len(k) \in Nat /\ Len(l) \in Nat
  BY DEF Keys
<1>2. ASSUME NEW i \in Nat \ {0}, Number(k, i) < Number(l, i)
      PROVE  i \in 1..(Len(k) + Len(l))
  <2>1. Number(k, i) # Number(l, i)
    BY <1>2, NumberIsNat
  <2> QED
    BY <2>1, DifferBounded DEF Differ
<1>3. 1..(Len(k) + Len(l)) \subseteq Nat \ {0}
  BY <1>1
<1> QED
  BY <1>2, <1>3 DEF Before

LEMMA SameAnywhere ==
    ASSUME NEW k \in Keys, NEW l \in Keys
    PROVE  SamePrecedence(k, l) <=> \A i \in Nat \ {0} : Number(k, i) = Number(l, i)
<1>1. Len(k) \in Nat /\ Len(l) \in Nat
  BY DEF Keys
<1>2. 1..(Len(k) + Len(l)) \subseteq Nat \ {0}
  BY <1>1
<1> QED
  BY <1>2, DifferBounded DEF SamePrecedence, Differ

\* Of two keys one comes before the other or they have the same precedence.
THEOREM VersionsComparable ==
    ASSUME NEW k \in Keys, NEW l \in Keys
    PROVE  Before(k, l) \/ Before(l, k) \/ SamePrecedence(k, l)
<1>1. CASE Differ(k, l) = {}
  BY <1>1, SameAnywhere DEF Differ
<1>2. CASE Differ(k, l) # {}
  <2>1. Differ(k, l) \in SUBSET Nat
    BY DEF Differ
  <2>2. PICK i \in Differ(k, l) : \A j \in Differ(k, l) : i <= j
    BY <1>2, <2>1, FirstPlace
  <2>3. i \in Nat \ {0} /\ Number(k, i) # Number(l, i)
    BY <2>2 DEF Differ
  <2>4. \A j \in 1..(i - 1) : Number(k, j) = Number(l, j)
    <3> SUFFICES ASSUME NEW j \in 1..(i - 1), Number(k, j) # Number(l, j)
                 PROVE  FALSE
      OBVIOUS
    <3>1. j \in Nat \ {0} /\ ~(i <= j)
      BY <2>3
    <3> QED
      BY <2>2, <3>1 DEF Differ
  <2>5. Number(k, i) < Number(l, i) \/ Number(l, i) < Number(k, i)
    BY <2>3, NumberIsNat
  <2> QED
    BY <2>3, <2>4, <2>5, BeforeAnywhere
<1> QED
  BY <1>1, <1>2

\* ... and only one of the three, so that no key comes before itself.
THEOREM VersionsExclusive ==
    ASSUME NEW k \in Keys, NEW l \in Keys, Before(k, l)
    PROVE  ~Before(l, k) /\ ~SamePrecedence(k, l)
<1>1. PICK i \in Nat \ {0} :
        /\ Number(k, i) < Number(l, i)
        /\ \A j \in 1..(i - 1) : Number(k, j) = Number(l, j)
  BY BeforeAnywhere
<1>2. ~SamePrecedence(k, l)
  BY <1>1, SameAnywhere, NumberIsNat
<1>3. ASSUME NEW m \in Nat \ {0}, Number(l, m) < Number(k, m),
             \A j \in 1..(m - 1) : Number(l, j) = Number(k, j)
      PROVE  FALSE
  <2>1. Number(k, i) \in Nat /\ Number(l, i) \in Nat /\ Number(k, m) \in Nat /\ Number(l, m) \in Nat
    BY NumberIsNat
  <2>2. CASE i < m
    <3>1. i \in 1..(m - 1)
      BY <2>2
    <3> QED
      BY <1>1, <1>3, <2>1, <3>1
  <2>3. CASE m < i
    <3>1. m \in 1..(i - 1)
      BY <2>3
    <3> QED
      BY <1>1, <1>3, <2>1, <3>1
  <2>4. CASE i = m
    BY <1>1, <1>3, <2>1, <2>4
  <2> QED
    BY <2>2, <2>3, <2>4
<1> QED
  BY <1>2, <1>3, BeforeAnywhere

\* The order goes on from key to key.
THEOREM VersionsTransitive ==
    ASSUME NEW k \in Keys, NEW l \in Keys, NEW m \in Keys, Before(k, l), Before(l, m)
    PROVE  Before(k, m)
<1>1. PICK i \in Nat \ {0} :
        /\ Number(k, i) < Number(l, i)
        /\ \A n \in 1..(i - 1) : Number(k, n) = Number(l, n)
  BY BeforeAnywhere
<1>2. PICK j \in Nat \ {0} :
        /\ Number(l, j) < Number(m, j)
        /\ \A n \in 1..(j - 1) : Number(l, n) = Number(m, n)
  BY BeforeAnywhere
<1>3. /\ Number(k, i) \in Nat /\ Number(l, i) \in Nat /\ Number(m, i) \in Nat
      /\ Number(k, j) \in Nat /\ Number(l, j) \in Nat /\ Number(m, j) \in Nat
  BY NumberIsNat
<1>4. CASE i <= j
  <2>1. \A n \in 1..(i - 1) : n \in 1..(j - 1)
    BY <1>4
  <2>2. \A n \in 1..(i - 1) : Number(k, n) = Number(m, n)
    BY <1>1, <1>2, <2>1
  <2>3. i = j \/ i \in 1..(j - 1)
    BY <1>4
  <2>4. Number(k, i) < Number(m, i)
    BY <1>1, <1>2, <1>3, <2>3
  <2> QED
    BY <2>2, <2>4, BeforeAnywhere
<1>5. CASE j < i
  <2>1. j \in 1..(i - 1) /\ \A n \in 1..(j - 1) : n \in 1..(i - 1)
    BY <1>5
  <2>2. \A n \in 1..(j - 1) : Number(k, n) = Number(m, n)
    BY <1>1, <1>2, <2>1
  <2>3. Number(k, j) < Number(m, j)
    BY <1>1, <1>2, <2>1
  <2> QED
    BY <2>2, <2>3, BeforeAnywhere
<1> QED
  BY <1>4, <1>5

\* Versions that are written differently but count the same, such as 1 and 1.0, have
\* the same neighbours: which of them is compared decides nothing.
THEOREM EqualVersionsInterchangeable ==
    ASSUME NEW k \in Keys, NEW l \in Keys, NEW m \in Keys, SamePrecedence(k, l)
    PROVE  /\ SamePrecedence(l, k)
           /\ Before(k, m) <=> Before(l, m)
           /\ Before(m, k) <=> Before(m, l)
           /\ SamePrecedence(k, m) <=> SamePrecedence(l, m)
<1>1. \A i \in Nat \ {0} : Number(k, i) = Number(l, i)
  BY SameAnywhere
<1>2. \A i \in Nat \ {0} : \A j \in 1..(i - 1) : j \in Nat \ {0}
  OBVIOUS
<1>3. SamePrecedence(l, k) /\ (SamePrecedence(k, m) <=> SamePrecedence(l, m))
  BY <1>1, SameAnywhere
<1>4. Before(k, m) <=> Before(l, m)
  BY <1>1, <1>2, BeforeAnywhere
<1>5. Before(m, k) <=> Before(m, l)
  BY <1>1, <1>2, BeforeAnywhere
<1> QED
  BY <1>3, <1>4, <1>5
=============================================================================
