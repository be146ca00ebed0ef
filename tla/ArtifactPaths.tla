---------------------------- MODULE ArtifactPaths ----------------------------
(***************************************************************************)
(* Where the file and S3 artifact stores keep the documents, and what      *)
(* their listings take for a versioned package detail.  Both find the      *)
(* details by their paths alone: objects right below a directory named     *)
(* "versions".  One publisher at a time; no store call fails.              *)
(***************************************************************************)
EXTENDS Naturals, Sequences, FiniteSets

CONSTANTS
    Uploads,        \* what is published: [owner, repo, key], a version of a package each
    Rank,           \* Rank[k]: place of version key k in the version order
    None

IdOf(u) == [owner |-> u.owner, repo |-> u.repo]
Ids == {IdOf(u) : u \in Uploads}

-----------------------------------------------------------------------------
(* Paths: the names between /v1 and the last name, and that without .json. *)

RootIndexPath == <<"index">>
LatestAliasPath(id) == <<"packages", id.owner, id.repo>>
PackageVersionsIndexPath(id) == <<"packages", id.owner, id.repo, "index">>
VersionedPackageDetailPath(id, key) == <<"packages", id.owner, id.repo, "versions", key>>

\* The directory that ListPackageVersionedPackageDetails reads.
VersionsOf(id) == <<"packages", id.owner, id.repo, "versions">>

Parent(path) == SubSeq(path, 1, Len(path) - 1)

\* The test of ListAllVersionedPackageDetails: the parent's name.
InVersions(path) == Len(path) > 1 /\ path[1] = "packages" /\ path[Len(path) - 1] = "versions"

VARIABLES
    objects,        \* path -> the document stored there, for the paths in use
    pc,             \* the next write of the handler, or "idle"
    upload,         \* the version being published
    result          \* the answer to the last request, or None

vars == <<objects, pc, upload, result>>

\* A document as the listing decodes it: json.Unmarshal leaves fields that a document
\* does not have empty, and no kind of document is refused.
Document == [id : Ids, key : {u.key : u \in Uploads} \cup {None}]
Detail(u) == [id |-> IdOf(u), key |-> u.key]
IndexAsDetail(id) == [id |-> id, key |-> None]

Init ==
    /\ objects = <<>>
    /\ pc = "idle"
    /\ upload = None
    /\ result = None

Put(path, document) ==
    objects' = [p \in DOMAIN objects \cup {path} |-> IF p = path THEN document ELSE objects[p]]

ListPackage(id) == {objects[p] : p \in {o \in DOMAIN objects : Parent(o) = VersionsOf(id)}}

\* The paths a full listing reads, each an element of the list it returns.
ListAll == {p \in DOMAIN objects : InVersions(p)}

\* CompareVersions fails on the empty version; BuildRootIndex compares wherever the
\* list has two elements of a package.
RootIndexFails ==
    \E p, q \in ListAll :
        /\ p # q /\ objects[p].id = objects[q].id
        /\ None \in {objects[p].key, objects[q].key}

\* BuildRootIndex: the packages in the list, with the latest version of each.
RootIndexOf ==
    {objects[p] : p \in {q \in ListAll :
        \A o \in ListAll : objects[o].id = objects[q].id => Rank[objects[o].key] <= Rank[objects[q].key]}}

\* What readers find under /v1/index.json.
RootIndex == IF RootIndexPath \in DOMAIN objects THEN objects[RootIndexPath] ELSE {}

-----------------------------------------------------------------------------

\* An upload that passed every check, and the put of its detail; a detail that is there
\* from an earlier attempt stays.
PutDetail(u) ==
    LET path == VersionedPackageDetailPath(IdOf(u), u.key) IN
    /\ pc = "idle"
    /\ IF path \in DOMAIN objects THEN UNCHANGED objects ELSE Put(path, Detail(u))
    /\ pc' = "index"
    /\ upload' = u
    /\ UNCHANGED result

PutPackageVersionsIndex ==
    /\ pc = "index"
    /\ Put(PackageVersionsIndexPath(IdOf(upload)), IndexAsDetail(IdOf(upload)))
    /\ pc' = "alias"
    /\ UNCHANGED <<upload, result>>

PutLatestAlias ==
    /\ pc = "alias"
    /\ \E d \in ListPackage(IdOf(upload)) :
        /\ \A e \in ListPackage(IdOf(upload)) : Rank[e.key] <= Rank[d.key]
        /\ Put(LatestAliasPath(IdOf(upload)), d)
    /\ pc' = "root"
    /\ UNCHANGED <<upload, result>>

\* WriteRoot: no root index is written when it cannot be built.
PutRootIndex ==
    /\ pc = "root"
    /\ IF RootIndexFails
       THEN UNCHANGED objects /\ result' = "INDEX_CONFLICT"
       ELSE Put(RootIndexPath, RootIndexOf) /\ result' = "OK"
    /\ pc' = "idle"
    /\ upload' = None

Next ==
    \/ \E u \in Uploads : PutDetail(u)
    \/ PutPackageVersionsIndex \/ PutLatestAlias \/ PutRootIndex

Spec == Init /\ [][Next]_vars

-----------------------------------------------------------------------------

\* The uploads whose details are stored.
Published == {u \in Uploads : VersionedPackageDetailPath(IdOf(u), u.key) \in DOMAIN objects}

\* The root index is derived from the published details (docs/indexes.md:40): when no
\* update is under way it lists every package that has one.
RootListsPublished ==
    pc = "idle" => \A u \in Published : \E d \in RootIndex : d.id = IdOf(u)
=============================================================================
