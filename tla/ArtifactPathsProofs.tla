------------------------- MODULE ArtifactPathsProofs -------------------------
(***************************************************************************)
(* The listings that find details by their paths, where no repository is   *)
(* named "versions": they find details only, so that every update gets its *)
(* root index written, and this lists every package that has a detail.     *)
(* For any uploads by any owners, one called "versions" included.          *)
(***************************************************************************)
EXTENDS ArtifactPaths, SequenceTheorems, TLAPS

Keys == {u.key : u \in Uploads}

NoneNamedVersions == \A u \in Uploads : u.repo # "versions"

\* A document without a version is no upload; of any keys one is highest.
KeysRanked ==
    /\ None \notin Keys
    /\ \A S \in SUBSET Keys : S # {} => \E k \in S : \A j \in S : Rank[j] <= Rank[k]

PathOf(u) == VersionedPackageDetailPath(IdOf(u), u.key)

-----------------------------------------------------------------------------
(* Paths *)

\* The paths that are in use, at most.
Known(path) ==
    \/ path = RootIndexPath
    \/ \E id \in Ids : path \in {LatestAliasPath(id), PackageVersionsIndexPath(id)}
    \/ \E u \in Uploads : path = PathOf(u)

LEMMA DetailPaths ==
    ASSUME NEW u, NEW v
    PROVE  /\ Len(PathOf(u)) = 5 /\ InVersions(PathOf(u))
           /\ PathOf(u) = PathOf(v) => Detail(u) = Detail(v)
<1>1. PathOf(u) = <<"packages", u.owner, u.repo, "versions", u.key>>
      /\ PathOf(v) = <<"packages", v.owner, v.repo, "versions", v.key>>
  BY DEF PathOf, VersionedPackageDetailPath, IdOf
<1>2. Len(PathOf(u)) = 5
  BY <1>1
<1>3. InVersions(PathOf(u))
  BY <1>1, <1>2 DEF InVersions
<1>4. PathOf(u) = PathOf(v) => u.owner = v.owner /\ u.repo = v.repo /\ u.key = v.key
  BY <1>1
<1> QED
  BY <1>2, <1>3, <1>4 DEF Detail, IdOf

LEMMA OtherPaths ==
    ASSUME NEW id
    PROVE  /\ Len(RootIndexPath) = 1 /\ ~InVersions(RootIndexPath)
           /\ Len(LatestAliasPath(id)) = 3
           /\ Len(PackageVersionsIndexPath(id)) = 4
           /\ InVersions(PackageVersionsIndexPath(id)) => id.repo = "versions"
BY DEF RootIndexPath, LatestAliasPath, PackageVersionsIndexPath, InVersions

\* Below the versions directory of a package there are details only.
LEMMA ParentIsVersions ==
    ASSUME NEW path, Known(path), NEW id, Parent(path) = VersionsOf(id)
    PROVE  InVersions(path)
<1>1. ASSUME NEW S, path \in Seq(S), Len(path) \in {1, 3, 4} PROVE FALSE
  <2>1. Len(Parent(path)) = Len(path) - 1
    <3> DEFINE n == Len(path) - 1
    <3>1. n \in {0, 2, 3} /\ \A i \in 1 .. n : path[i] \in S
      BY <1>1
    <3>2. Len(SubSeq(path, 1, n)) = IF 1 <= n THEN n - 1 + 1 ELSE 0
      <4> HIDE DEF n
      <4> QED
        BY <3>1, SubSeqProperties
    <3>3. Len(SubSeq(path, 1, n)) = n
      <4> HIDE DEF n
      <4> QED
        BY <3>1, <3>2
    <3> QED
      BY <3>3 DEF Parent
  <2>2. Len(VersionsOf(id)) = 4
    BY DEF VersionsOf
  <2>3. Len(Parent(path)) = 4
    BY <2>2
  <2>4. \A n \in {1, 3, 4} : n - 1 # 4
    OBVIOUS
  <2> QED
    BY <1>1, <2>1, <2>3, <2>4, Zenon
<1>2. CASE path = RootIndexPath
  <2>1. path \in Seq({"index"}) /\ Len(path) = 1
    BY <1>2 DEF RootIndexPath
  <2> QED
    BY <1>1, <2>1
<1>3. ASSUME NEW o \in Ids, path \in {LatestAliasPath(o), PackageVersionsIndexPath(o)}
      PROVE  FALSE
  <2> DEFINE S == {"packages", o.owner, o.repo, "index"}
  <2>1. path \in Seq(S)
    <3>1. CASE path = <<"packages", o.owner, o.repo>>
      BY <3>1
    <3>2. CASE path = <<"packages", o.owner, o.repo, "index">>
      BY <3>2
    <3> QED
      BY <1>3, <3>1, <3>2 DEF LatestAliasPath, PackageVersionsIndexPath
  <2>2. Len(path) \in {1, 3, 4}
    BY <1>3, OtherPaths
  <2> QED
    BY <1>1, <2>1, <2>2
<1> QED
  BY <1>2, <1>3, DetailPaths DEF Known

-----------------------------------------------------------------------------
(* The invariant *)

ObjectsSound ==
    /\ \A path \in DOMAIN objects : Known(path)
    /\ \A u \in Published : objects[PathOf(u)] = Detail(u)
    /\ \A path \in ListAll : \E u \in Published : objects[path] = Detail(u)

HandlerSound == pc \in {"index", "alias", "root"} => upload \in Published

IInv ==
    /\ ObjectsSound
    /\ HandlerSound
    /\ pc \in {"idle", "index", "alias", "root"}
    /\ RootListsPublished

LEMMA PublishedPath ==
    ASSUME NEW u
    PROVE  u \in Published <=> u \in Uploads /\ PathOf(u) \in DOMAIN objects
BY DEF Published, PathOf

LEMMA ListedKeys ==
    ASSUME ObjectsSound, NEW path \in ListAll
    PROVE  objects[path].key \in Keys
<1>1. PICK u \in Published : objects[path] = Detail(u)
  BY DEF ObjectsSound
<1>2. u \in Uploads /\ objects[path].key = u.key
  BY <1>1, PublishedPath DEF Detail
<1> QED
  BY <1>2 DEF Keys

LEMMA ListBuildable ==
    ASSUME KeysRanked, ObjectsSound
    PROVE  ~RootIndexFails
BY ListedKeys DEF RootIndexFails, KeysRanked

\* A listing of a package finds published details.
LEMMA ListPackagePublished ==
    ASSUME ObjectsSound, NEW id, NEW d \in ListPackage(id)
    PROVE  \E u \in Published : d = Detail(u)
<1>1. PICK path \in DOMAIN objects : Parent(path) = VersionsOf(id) /\ d = objects[path]
  BY DEF ListPackage
<1>2. path \in ListAll
  BY <1>1, ParentIsVersions DEF ObjectsSound, ListAll
<1> QED
  BY <1>1, <1>2 DEF ObjectsSound

\* A put elsewhere than in the versions directories, or of a published detail.
LEMMA PutSound ==
    ASSUME ObjectsSound, NEW path, NEW document, Put(path, document), Known(path),
           \A u \in Uploads : path # PathOf(u),
           InVersions(path) => \E u \in Published : document = Detail(u)
    PROVE  /\ ObjectsSound' /\ Published' = Published
           /\ path \in DOMAIN objects' /\ objects'[path] = document
<1>1. /\ DOMAIN objects' = DOMAIN objects \cup {path}
      /\ \A p \in DOMAIN objects' : objects'[p] = IF p = path THEN document ELSE objects[p]
  BY DEF Put
<1>2. Published' = Published
  BY <1>1 DEF Published, PathOf
<1>3. \A p \in DOMAIN objects' : Known(p)
  BY <1>1 DEF ObjectsSound
<1>4. ASSUME NEW u \in Published' PROVE objects'[PathOf(u)] = Detail(u)
  BY <1>1, <1>2 DEF ObjectsSound, Published, PathOf
<1>5. ASSUME NEW p \in ListAll' PROVE \E u \in Published' : objects'[p] = Detail(u)
  <2>1. CASE p = path
    BY <1>1, <1>2, <1>5, <2>1 DEF ListAll
  <2>2. CASE p # path
    <3>1. p \in ListAll /\ objects'[p] = objects[p]
      BY <1>1, <1>5, <2>2 DEF ListAll
    <3> QED
      BY <1>2, <3>1 DEF ObjectsSound
  <2> QED
    BY <2>1, <2>2
<1> QED
  BY <1>1, <1>2, <1>3, <1>4, <1>5 DEF ObjectsSound

-----------------------------------------------------------------------------
(* The steps *)

LEMMA PutDetailSound ==
    ASSUME IInv, NEW u \in Uploads, PutDetail(u)
    PROVE  IInv'
<1> DEFINE path == PathOf(u)
<1>1. /\ pc' = "index" /\ upload' = u
      /\ IF path \in DOMAIN objects THEN objects' = objects ELSE Put(path, Detail(u))
  BY DEF PutDetail, PathOf
<1>2. ObjectsSound' /\ u \in Published'
  <2>1. CASE path \in DOMAIN objects
    <3>1. objects' = objects /\ Published' = Published /\ ListAll' = ListAll
      BY <1>1, <2>1 DEF Published, ListAll
    <3> QED
      BY <2>1, <3>1 DEF IInv, ObjectsSound, Published, PathOf
  <2>2. CASE path \notin DOMAIN objects
    <3>1. /\ DOMAIN objects' = DOMAIN objects \cup {path}
          /\ \A p \in DOMAIN objects' : objects'[p] = IF p = path THEN Detail(u) ELSE objects[p]
      BY <1>1, <2>2 DEF Put
    <3>2. u \in Published' /\ Published \subseteq Published'
      BY <3>1 DEF Published, PathOf
    <3>3. \A p \in DOMAIN objects' : Known(p)
      BY <3>1 DEF IInv, ObjectsSound, Known
    <3>4. ASSUME NEW v \in Published' PROVE objects'[PathOf(v)] = Detail(v)
      <4>1. v \in Uploads /\ PathOf(v) \in DOMAIN objects'
        BY <3>4 DEF Published, PathOf
      <4>2. CASE PathOf(v) = path
        BY <3>1, <4>1, <4>2, DetailPaths
      <4>3. CASE PathOf(v) # path
        BY <3>1, <4>1, <4>3 DEF IInv, ObjectsSound, Published, PathOf
      <4> QED
        BY <4>2, <4>3
    <3>5. ASSUME NEW p \in ListAll' PROVE \E v \in Published' : objects'[p] = Detail(v)
      <4>1. CASE p = path
        BY <3>1, <3>2, <4>1
      <4>2. CASE p # path
        <5>1. p \in ListAll /\ objects'[p] = objects[p]
          BY <3>1, <3>5, <4>2 DEF ListAll
        <5> QED
          BY <3>2, <5>1 DEF IInv, ObjectsSound
      <4> QED
        BY <4>1, <4>2
    <3> QED
      BY <3>2, <3>3, <3>4, <3>5 DEF ObjectsSound
  <2> QED
    BY <2>1, <2>2
<1> QED
  BY <1>1, <1>2 DEF IInv, HandlerSound, RootListsPublished

LEMMA PutPackageVersionsIndexSound ==
    ASSUME NoneNamedVersions, IInv, PutPackageVersionsIndex
    PROVE  IInv'
<1> DEFINE id == IdOf(upload)
           path == PackageVersionsIndexPath(id)
<1>1. /\ Put(path, IndexAsDetail(id)) /\ pc' = "alias" /\ upload' = upload
  BY DEF PutPackageVersionsIndex
<1>2. upload \in Published /\ upload \in Uploads
  BY DEF IInv, HandlerSound, PutPackageVersionsIndex, Published
<1>3. id \in Ids /\ Known(path)
  BY <1>2 DEF Known, Ids
<1>4. id.repo # "versions"
  BY <1>2 DEF IdOf, NoneNamedVersions
<1>5. Len(path) = 4 /\ ~InVersions(path)
  BY <1>4, OtherPaths
<1>6. \A u \in Uploads : path # PathOf(u)
  BY <1>5, DetailPaths
<1>7. ObjectsSound' /\ Published' = Published
  BY <1>1, <1>3, <1>5, <1>6, PutSound DEF IInv
<1> QED
  BY <1>1, <1>2, <1>7 DEF IInv, HandlerSound, RootListsPublished

LEMMA PutLatestAliasSound ==
    ASSUME IInv, PutLatestAlias
    PROVE  IInv'
<1> DEFINE id == IdOf(upload)
           path == LatestAliasPath(id)
<1>1. PICK d \in ListPackage(id) : Put(path, d)
  BY DEF PutLatestAlias
<1>2. pc' = "root" /\ upload' = upload
  BY DEF PutLatestAlias
<1>3. upload \in Published /\ upload \in Uploads
  BY DEF IInv, HandlerSound, PutLatestAlias, Published
<1>4. Known(path)
  BY <1>3 DEF Known, Ids
<1>5. \A u \in Uploads : path # PathOf(u)
  <2>1. Len(path) = 3
    BY OtherPaths
  <2> QED
    BY <2>1, DetailPaths
<1>6. \E u \in Published : d = Detail(u)
  BY ListPackagePublished DEF IInv
<1>7. ObjectsSound' /\ Published' = Published
  BY <1>1, <1>4, <1>5, <1>6, PutSound DEF IInv
<1> QED
  BY <1>2, <1>3, <1>7 DEF IInv, HandlerSound, RootListsPublished

\* Whatever the list holds of a package, one element of it is in the root index.
LEMMA RootIndexComplete ==
    ASSUME KeysRanked, ObjectsSound, NEW u \in Published
    PROVE  \E d \in RootIndexOf : d.id = IdOf(u)
<1> DEFINE Of == {q \in ListAll : objects[q].id = IdOf(u)}
           S == {objects[q].key : q \in Of}
<1>1. PathOf(u) \in Of
  <2>1. PathOf(u) \in ListAll
    BY PublishedPath, DetailPaths DEF ListAll
  <2>2. objects[PathOf(u)].id = IdOf(u)
    <3>1. objects[PathOf(u)] = Detail(u)
      BY DEF ObjectsSound
    <3> QED
      BY <3>1 DEF Detail
  <2> QED
    BY <2>1, <2>2
<1>2. S \in SUBSET Keys
  BY ListedKeys
<1>3. PICK k \in S : \A j \in S : Rank[j] <= Rank[k]
  <2>1. S # {}
    BY <1>1
  <2> QED
    BY <1>2, <2>1 DEF KeysRanked
<1>4. PICK q \in Of : objects[q].key = k
  BY <1>3
<1>5. \A o \in ListAll : objects[o].id = objects[q].id => Rank[objects[o].key] <= Rank[objects[q].key]
  BY <1>3, <1>4
<1> QED
  BY <1>4, <1>5 DEF RootIndexOf

LEMMA PutRootIndexSound ==
    ASSUME KeysRanked, IInv, PutRootIndex
    PROVE  IInv'
<1>1. ~RootIndexFails
  BY ListBuildable DEF IInv
<1>2. Put(RootIndexPath, RootIndexOf) /\ pc' = "idle"
  BY <1>1 DEF PutRootIndex
<1>3. Known(RootIndexPath)
  BY DEF Known
<1>4. ~InVersions(RootIndexPath) /\ \A u \in Uploads : RootIndexPath # PathOf(u)
  BY OtherPaths, DetailPaths
<1>5. /\ ObjectsSound' /\ Published' = Published
      /\ RootIndexPath \in DOMAIN objects' /\ objects'[RootIndexPath] = RootIndexOf
  BY <1>2, <1>3, <1>4, PutSound DEF IInv
<1>6. RootListsPublished'
  BY <1>5, RootIndexComplete DEF IInv, RootListsPublished, RootIndex
<1> QED
  BY <1>2, <1>5, <1>6 DEF IInv, HandlerSound

-----------------------------------------------------------------------------

\* Where no repository is named "versions" the root index lists every package that has a
\* published detail whenever no update is under way (docs/indexes.md:40), and can be built
\* at any moment: that name is all that the listings' test of the parent directory
\* (filestore.go:69) is wrong about.
THEOREM RootListsPublishedUnlessVersions ==
    ASSUME NoneNamedVersions, KeysRanked
    PROVE  Spec => [](RootListsPublished /\ ~RootIndexFails)
<1>1. ASSUME Init PROVE IInv
  <2>1. objects = <<>> /\ pc = "idle" /\ DOMAIN objects = {}
    BY <1>1 DEF Init
  <2> QED
    BY <2>1 DEF IInv, ObjectsSound, HandlerSound, RootListsPublished, Published, ListAll
<1>2. ASSUME IInv, [Next]_vars PROVE IInv'
  <2>1. CASE UNCHANGED vars
    BY <1>2, <2>1 DEF vars, IInv, ObjectsSound, HandlerSound, RootListsPublished, Published,
       ListAll, RootIndex
  <2>2. CASE Next
    BY <1>2, <2>2, PutDetailSound, PutPackageVersionsIndexSound, PutLatestAliasSound,
       PutRootIndexSound DEF Next
  <2> QED
    BY <1>2, <2>1, <2>2
<1>3. IInv => RootListsPublished /\ ~RootIndexFails
  BY ListBuildable DEF IInv
<1> QED
  BY <1>1, <1>2, <1>3, PTL DEF Spec
=============================================================================
