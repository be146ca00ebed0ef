--------------------------- MODULE MCPublication ---------------------------
(* Instances of Publication for TLC: what is published, by whom and when.   *)
EXTENDS Publication, TLC

CONSTANTS fontA, fontB      \* packages

Request(jti, package, repositoryId, key, content) ==
    [jti |-> jti, package |-> package, repositoryId |-> repositoryId,
     key |-> key, content |-> content]

\* 2 and 2.0 of one package, which are of equal precedence, 1.0 of another, and the
\* 2 tag of the first moved to another commit: three slots, one of them claimed with
\* two contents.
Publications == {
    Request("t1", fontA, "id1", "2", "c1"),
    Request("t2", fontA, "id1", "2", "c2"),
    Request("t3", fontA, "id1", "2.0", "c3"),
    Request("t4", fontB, "id2", "1.0", "c4")}

\* Two versions of one package, a workflow run again for the first, a repository
\* created anew under the same name that claims it too, and another package.
Claims == {
    Request("t1", fontA, "id1", "1.0", "c1"),
    Request("t2", fontA, "id1", "1.0", "c1"),
    Request("t3", fontA, "id1", "2.0", "c2"),
    Request("t4", fontA, "id3", "1.0", "c3"),
    Request("t5", fontB, "id2", "1.0", "c4")}

\* Two versions of one package and one of another.
Releases == {
    Request("t1", fontA, "id1", "1.0", "c1"),
    Request("t2", fontA, "id1", "2.0", "c2"),
    Request("t3", fontB, "id2", "1.0", "c3")}

OneToken == {Request("t1", fontA, "id1", "1.0", "c1")}

ByVersion == [k \in VersionKeys |-> IF k = "1.0" THEN 1 ELSE 2]
ByString == [k \in VersionKeys |-> CASE k = "1.0" -> 1 [] k = "2" -> 2 [] k = "2.0" -> 3]

Symmetry == Permutations(Handlers)
=============================================================================
