------------------------------ MODULE MCReadApi ------------------------------
(* An instance of ReadApi for TLC: a small indexer, and processes that read it. *)
EXTENDS ReadApi, TLC

CONSTANTS
    fontA, fontB,       \* packages
    r1, r2              \* readers

V == INSTANCE Versions WITH MaxInt <- 9, Malformed <- None

\* The literals that are published and asked for, each with its key.
Literal(prefix, major, minor) ==
    [prefix |-> prefix,
     segments |-> <<[zeros |-> 0, value |-> major], [zeros |-> 1, value |-> minor]>>]
Written == [k \in {"1.02", "2.00"} |->
    IF k = "1.02" THEN Literal("v", 1, 2) ELSE Literal("V", 2, 0)]

Release(jti, package, repositoryId, key) ==
    [jti |-> jti, package |-> package, repositoryId |-> repositoryId,
     key |-> key, content |-> jti]

\* Two versions of one package and one of another.
Releases == {
    Release("t1", fontA, "id1", "1.02"),
    Release("t2", fontA, "id1", "2.00"),
    Release("t3", fontB, "id2", "1.02")}

ByVersion == [k \in VersionKeys |-> IF k = "2.00" THEN 2 ELSE 1]

\* Each literal is valid, and the ranks order the keys as CompareVersions does.
ASSUME WrittenAssumption ==
    /\ \A k \in VersionKeys : V!ValidVersion(Written[k])
    /\ \A j, k \in VersionKeys :
        V!Before(V!VersionKey(Written[j]), V!VersionKey(Written[k])) <=> ByVersion[j] < ByVersion[k]

\* The other server knows the older version of the first package.
Mirror == [p \in Packages |->
    IF p = fontA THEN [key |-> "1.02", publishedAt |-> 1] ELSE None]

Root == [kind |-> "root", package |-> None, key |-> None]
OtherRoot == [kind |-> "elsewhere", package |-> None, key |-> None]
Of(kind, key) == [kind |-> kind, package |-> fontA, key |-> key]

\* One process asks everything there is about one package, one lists those of
\* the other server.
Asks == (r1 :> {Root, Of("index", None), Of("alias", None), Of("detail", "2.00")})
        @@ (r2 :> {OtherRoot})
=============================================================================
