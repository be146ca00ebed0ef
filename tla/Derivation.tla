----------------------------- MODULE Derivation -----------------------------
(***************************************************************************)
(* The documents that the indexer derives from a set of versioned package  *)
(* details: go/internal/indexer/derive.  Each is a function of the set,    *)
(* but for the head of a versions index when several versions tie.         *)
(***************************************************************************)
EXTENDS Naturals

CONSTANTS
    Rank,           \* Rank[k]: place of version key k in CompareVersions' preorder
    KeyOrder,       \* KeyOrder[k]: place of k in the string order of version keys
    None            \* no document

DetailsIn(S, p) == {d \in S : d.package = p}

\* What the versions index and the root index say of one version.
Record(d) == [key |-> d.key, publishedAt |-> d.publishedAt]

\* d comes strictly before e in a versions index: higher version, or the same
\* precedence and published later.
Newer(d, e) ==
    \/ Rank[d.key] > Rank[e.key]
    \/ (Rank[d.key] = Rank[e.key] /\ d.publishedAt > e.publishedAt)

\* The details that may head the sorted list.  sort.Slice leaves the order of
\* ties open, so with ties (1 and 1.0 published in one second) there are several.
Latests(S) == {d \in S : \A e \in S : ~Newer(e, d)}

\* The versions index built from S with d at its head.
IndexOf(S, d) == [latest |-> d.key, versions |-> {Record(e) : e \in S}]

\* Mutant of FirstLatests: of versions that compare equal the first is kept, whenever
\* they were published.
FirstOfEqualVersions(S) ==
    LET top == {d \in S : \A e \in S : Rank[e.key] <= Rank[d.key]} IN
    {d \in top : \A e \in top : KeyOrder[d.key] <= KeyOrder[e.key]}

\* BuildRootIndex scans the details in (package, key) order and moves on only to
\* a strictly newer one: of tied versions it keeps the first key in string order.
FirstLatests(S) == {d \in Latests(S) : \A e \in Latests(S) : KeyOrder[d.key] <= KeyOrder[e.key]}

\* The root index over packages P, as a set of at most one element.
RootIndexes(P, S) ==
    {r \in [P -> {Record(d) : d \in S} \cup {None}] :
        \A p \in P :
            IF DetailsIn(S, p) = {}
            THEN r[p] = None
            ELSE \E d \in FirstLatests(DetailsIn(S, p)) : r[p] = Record(d)}
=============================================================================
