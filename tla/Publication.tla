----------------------------- MODULE Publication -----------------------------
(***************************************************************************)
(* The write path of the fontpub indexer: POST /v1/update handlers that    *)
(* publish a version, and the rebuilder that regenerates derived           *)
(* documents, over one artifact store and one private-state store.         *)
(*                                                                         *)
(* The artifact store holds, per package and version key, an authoritative *)
(* versioned package detail, and three documents derived from the details: *)
(* the package versions index and the latest alias of each package, and    *)
(* the root index.  The store offers single-document reads and overwrites  *)
(* only: no lock, no transaction, no conditional put.  A listing reads     *)
(* the details one object at a time.                                       *)
(*                                                                         *)
(* net/http runs every request in a goroutine of its own, so each call to  *)
(* a store is a step of its own and the steps of handlers interleave.      *)
(***************************************************************************)
EXTENDS Derivation, FiniteSets

CONSTANTS
    Handlers,       \* update requests the server processes at the same time
    Rebuilders,     \* fontpub-rebuilder processes
    Requests,       \* authorized update requests, one per OIDC token (see below)
    Times,          \* values of the wall clock, at the one-second resolution of RFC 3339
    StateDurable,   \* TRUE for the file private-state store, FALSE for the memory one
    MaxRequests,    \* bound: requests received in a behaviour
    MaxFaults,      \* bound: store calls that report an error
    MaxCrashes      \* bound: crashes of the server process

(***************************************************************************)
(* A request stands for a token whose claims match its body.  The commit   *)
(* it names fixes the manifest, the asset bytes and hence every immutable  *)
(* field of the detail: that is its content.                               *)
(***************************************************************************)
Packages == {r.package : r \in Requests}
VersionKeys == {r.key : r \in Requests}
Contents == {r.content : r \in Requests}
JTIs == {r.jti : r \in Requests}
RepositoryIDs == {r.repositoryId : r \in Requests}

SlotOf(x) == <<x.package, x.key>>
Slots == {SlotOf(r) : r \in Requests}
Writers == Handlers \cup Rebuilders

VersionedPackageDetail ==
    [package : Packages, key : VersionKeys, content : Contents, publishedAt : Times]

\* What the package index and the root index say of one version.
VersionRecord == [key : VersionKeys, publishedAt : Times]
PackageVersionsIndex == [latest : VersionKeys, versions : SUBSET VersionRecord]

ASSUME WritersAssumption == Handlers \cap Rebuilders = {}
ASSUME RequestsAssumption ==
    \A r \in Requests :
        r = [jti |-> r.jti, package |-> r.package, repositoryId |-> r.repositoryId,
             key |-> r.key, content |-> r.content]
ASSUME OrderAssumption ==
    /\ Rank \in [VersionKeys -> Nat]
    /\ KeyOrder \in [VersionKeys -> Nat]
    /\ \A k, l \in VersionKeys : KeyOrder[k] = KeyOrder[l] => k = l
    /\ Times \subseteq Nat
ASSUME NoneAssumption ==
    /\ None \notin Requests /\ None \notin Packages /\ None \notin RepositoryIDs
    /\ None \notin VersionedPackageDetail /\ None \notin VersionRecord
    /\ None \notin PackageVersionsIndex /\ None \notin [Packages -> VersionRecord \cup {None}]
ASSUME BoundsAssumption ==
    /\ StateDurable \in BOOLEAN
    /\ MaxRequests \in Nat /\ MaxFaults \in Nat /\ MaxCrashes \in Nat

VARIABLES
    \* the artifact store
    details,        \* slot -> its versioned package detail, or None
    packageIndex,   \* package -> its versions index, or None
    latestAlias,    \* package -> the detail its alias is a copy of, or None
    rootIndex,      \* None, or a function package -> record of its latest version (or None)
    \* the private-state store
    usedJTI,        \* reserved token identifiers
    bindings,       \* package -> repository id that owns it, or None
    \* the writers' local state
    pc,             \* what the writer does next
    job,            \* a handler's request; a rebuilder's package argument, or None for all
    todo,           \* slots the listing in progress has still to read
    seen,           \* details that listing has read
    latest,         \* the newest detail of the package whose documents are being written
    scope,          \* packages whose derived documents are still to be written
    reply,          \* handler -> the answer to its last request
    \* history and bounds
    admissions,     \* history: token identifier -> times it got past the replay check
    sent, faults, crashes

store == <<details, packageIndex, latestAlias, rootIndex>>
private == <<usedJTI, bindings, admissions>>
local == <<pc, job, todo, seen, latest, scope, reply>>
vars == <<store, private, local, sent, faults, crashes>>

Steps == {"idle", "reserve", "bind", "validate", "lookup", "put", "plan", "index", "alias", "root"}
Results == {"OK", "AUTH_REPLAY_DETECTED", "OWNERSHIP_MISMATCH", "VALIDATION_FAILED",
            "IMMUTABLE_VERSION", "INDEX_CONFLICT", "INTERNAL_ERROR", "CONNECTION_LOST"}
Reply == [request : Requests, result : Results, updated : BOOLEAN]

StoreTypeOK ==
    /\ details \in [Slots -> VersionedPackageDetail \cup {None}]
    /\ \A s \in Slots : details[s] # None => SlotOf(details[s]) = s
    /\ packageIndex \in [Packages -> PackageVersionsIndex \cup {None}]
    /\ latestAlias \in [Packages -> VersionedPackageDetail \cup {None}]
    /\ rootIndex \in [Packages -> VersionRecord \cup {None}] \cup {None}

PrivateTypeOK ==
    /\ usedJTI \subseteq JTIs
    /\ bindings \in [Packages -> RepositoryIDs \cup {None}]
    /\ admissions \in [JTIs -> Nat]

LocalTypeOK ==
    /\ pc \in [Writers -> Steps]
    /\ job \in [Writers -> Requests \cup Packages \cup {None}]
    /\ \A h \in Handlers : pc[h] # "idle" => job[h] \in Requests
    /\ \A b \in Rebuilders : job[b] \in Packages \cup {None}
    /\ todo \in [Writers -> SUBSET Slots]
    /\ seen \in [Writers -> SUBSET VersionedPackageDetail]
    /\ latest \in [Writers -> VersionedPackageDetail \cup {None}]
    /\ scope \in [Writers -> SUBSET Packages]
    /\ reply \in [Handlers -> Reply \cup {None}]

TypeOK ==
    /\ StoreTypeOK
    /\ PrivateTypeOK
    /\ LocalTypeOK
    /\ sent \in Nat /\ faults \in Nat /\ crashes \in Nat

Init ==
    /\ details = [s \in Slots |-> None]
    /\ packageIndex = [p \in Packages |-> None]
    /\ latestAlias = [p \in Packages |-> None]
    /\ rootIndex = None
    /\ usedJTI = {}
    /\ bindings = [p \in Packages |-> None]
    /\ pc = [w \in Writers |-> "idle"]
    /\ job = [w \in Writers |-> None]
    /\ todo = [w \in Writers |-> {}]
    /\ seen = [w \in Writers |-> {}]
    /\ latest = [w \in Writers |-> None]
    /\ scope = [w \in Writers |-> {}]
    /\ reply = [h \in Handlers |-> None]
    /\ admissions = [j \in JTIs |-> 0]
    /\ sent = 0 /\ faults = 0 /\ crashes = 0

-----------------------------------------------------------------------------
(* How a writer's step ends.                                               *)

Goto(w, step) ==
    /\ pc' = [pc EXCEPT ![w] = step]
    /\ UNCHANGED <<job, todo, seen, latest, scope, reply>>

\* Begin to list the details stored under the given slots.
List(w, step, slots) ==
    /\ pc' = [pc EXCEPT ![w] = step]
    /\ todo' = [todo EXCEPT ![w] = slots]
    /\ seen' = [seen EXCEPT ![w] = {}]
    /\ UNCHANGED <<job, latest, scope, reply>>

\* A handler answers; a rebuilder just ends.
Finish(w, result, updated) ==
    /\ pc' = [pc EXCEPT ![w] = "idle"]
    /\ reply' = [h \in Handlers |->
         IF h = w THEN [request |-> job[h], result |-> result, updated |-> updated] ELSE reply[h]]
    /\ job' = [job EXCEPT ![w] = None]
    /\ todo' = [todo EXCEPT ![w] = {}]
    /\ seen' = [seen EXCEPT ![w] = {}]
    /\ latest' = [latest EXCEPT ![w] = None]
    /\ scope' = [scope EXCEPT ![w] = {}]

\* A store call reports an error; a write that does may have taken effect.
Fail(w, result) ==
    /\ faults < MaxFaults
    /\ faults' = faults + 1
    /\ Finish(w, result, FALSE)

-----------------------------------------------------------------------------
(* The handler of POST /v1/update, from an authorized request on.          *)
(* Requests that authorizeUpdateRequest turns away touch no state.         *)

Receive(h, r) ==
    /\ pc[h] = "idle"
    /\ sent < MaxRequests
    /\ sent' = sent + 1
    /\ pc' = [pc EXCEPT ![h] = "reserve"]
    /\ job' = [job EXCEPT ![h] = r]
    /\ scope' = [scope EXCEPT ![h] = {r.package}]
    /\ UNCHANGED <<store, private, todo, seen, latest, reply, faults, crashes>>

\* Mutant of ReserveJTI: the identifier is checked but not recorded.
ReserveJTIUnrecorded(h) ==
    /\ pc[h] = "reserve"
    /\ job[h].jti \notin usedJTI
    /\ admissions' = [admissions EXCEPT ![job[h].jti] = @ + 1]
    /\ Goto(h, "bind")
    /\ UNCHANGED <<store, usedJTI, bindings, sent, faults, crashes>>

\* CheckAndReserveJTI is atomic in both private-state stores.
ReserveJTI(h) ==
    /\ pc[h] = "reserve"
    /\ job[h].jti \notin usedJTI
    /\ usedJTI' = usedJTI \cup {job[h].jti}
    /\ admissions' = [admissions EXCEPT ![job[h].jti] = @ + 1]
    /\ Goto(h, "bind")
    /\ UNCHANGED <<store, bindings, sent, faults, crashes>>

DetectReplay(h) ==
    /\ pc[h] = "reserve"
    /\ job[h].jti \in usedJTI
    /\ Finish(h, "AUTH_REPLAY_DETECTED", FALSE)
    /\ UNCHANGED <<store, private, sent, faults, crashes>>

\* Mutant of BindPackage: an existing binding is not compared.
BindPackageAnew(h) ==
    /\ pc[h] = "bind"
    /\ bindings' = [bindings EXCEPT ![job[h].package] = job[h].repositoryId]
    /\ Goto(h, "validate")
    /\ UNCHANGED <<store, usedJTI, admissions, sent, faults, crashes>>

\* CheckOrBindPackage: the first repository to ask for a package owns it.
BindPackage(h) ==
    /\ pc[h] = "bind"
    /\ bindings[job[h].package] \in {None, job[h].repositoryId}
    /\ bindings' = [bindings EXCEPT ![job[h].package] = job[h].repositoryId]
    /\ Goto(h, "validate")
    /\ UNCHANGED <<store, usedJTI, admissions, sent, faults, crashes>>

DetectMismatch(h) ==
    /\ pc[h] = "bind"
    /\ bindings[job[h].package] \notin {None, job[h].repositoryId}
    /\ Finish(h, "OWNERSHIP_MISMATCH", FALSE)
    /\ UNCHANGED <<store, private, sent, faults, crashes>>

\* Manifest and assets are fetched and valid, or the upload is turned away.
Validate(h) ==
    /\ pc[h] = "validate"
    /\ Goto(h, "lookup") \/ Finish(h, "VALIDATION_FAILED", FALSE)
    /\ UNCHANGED <<store, private, sent, faults, crashes>>

\* Mutant of FindFree: a stored detail is taken for a free slot.
FindFreeAlways(h) ==
    /\ pc[h] = "lookup"
    /\ Goto(h, "put")
    /\ UNCHANGED <<store, private, sent, faults, crashes>>

\* Mutant of FindFree: the documents are derived from the candidate, unstored.
FindFreeDerivesFirst(h) ==
    /\ pc[h] = "lookup"
    /\ details[SlotOf(job[h])] = None
    /\ \E t \in Times :
        seen' = [seen EXCEPT ![h] =
            {[package |-> job[h].package, key |-> job[h].key,
              content |-> job[h].content, publishedAt |-> t]}]
    /\ pc' = [pc EXCEPT ![h] = "index"]
    /\ UNCHANGED <<store, private, job, todo, latest, scope, reply, sent, faults, crashes>>

\* loadOrCreateVersionedDetail, the slot is free: the detail is put in a later step.
FindFree(h) ==
    /\ pc[h] = "lookup"
    /\ details[SlotOf(job[h])] = None
    /\ Goto(h, "put")
    /\ UNCHANGED <<store, private, sent, faults, crashes>>

\* ... the version is there with equal immutable fields: it stays as it is.
FindSame(h) ==
    /\ pc[h] = "lookup"
    /\ details[SlotOf(job[h])] # None
    /\ details[SlotOf(job[h])].content = job[h].content
    /\ List(h, "index", {s \in Slots : s[1] = job[h].package})
    /\ UNCHANGED <<store, private, sent, faults, crashes>>

\* ... it is there and differs.
FindDifferent(h) ==
    /\ pc[h] = "lookup"
    /\ details[SlotOf(job[h])] # None
    /\ details[SlotOf(job[h])].content # job[h].content
    /\ Finish(h, "IMMUTABLE_VERSION", FALSE)
    /\ UNCHANGED <<store, private, sent, faults, crashes>>

\* Mutant of PutDetail: the error of a put without effect is dropped.
PutDetailUnchecked(h) ==
    /\ pc[h] = "put"
    /\ \/ UNCHANGED details
       \/ \E t \in Times :
            details' = [details EXCEPT ![SlotOf(job[h])] =
                [package |-> job[h].package, key |-> job[h].key,
                 content |-> job[h].content, publishedAt |-> t]]
    /\ List(h, "index", {s \in Slots : s[1] = job[h].package})
    /\ UNCHANGED <<packageIndex, latestAlias, rootIndex, private, sent, faults, crashes>>

\* Mutant of PutDetail: the detail is filed under a key of another version.
PutDetailMisfiled(h) ==
    /\ pc[h] = "put"
    /\ \E s \in Slots, t \in Times :
        /\ s[1] = job[h].package
        /\ details' = [details EXCEPT ![s] =
            [package |-> job[h].package, key |-> job[h].key,
             content |-> job[h].content, publishedAt |-> t]]
    /\ List(h, "index", {s \in Slots : s[1] = job[h].package})
    /\ UNCHANGED <<packageIndex, latestAlias, rootIndex, private, sent, faults, crashes>>

\* The put overwrites whatever the slot holds by now.  published_at is the clock
\* read before the lookup; no order of clock values is assumed.
PutDetail(h) ==
    /\ pc[h] = "put"
    /\ \E t \in Times :
        details' = [details EXCEPT ![SlotOf(job[h])] =
            [package |-> job[h].package, key |-> job[h].key,
             content |-> job[h].content, publishedAt |-> t]]
    /\ \/ List(h, "index", {s \in Slots : s[1] = job[h].package}) /\ UNCHANGED faults
       \/ Fail(h, "INDEX_CONFLICT")
    /\ UNCHANGED <<packageIndex, latestAlias, rootIndex, private, sent, crashes>>

-----------------------------------------------------------------------------
(* The rebuilder: one listing of all details, then the derived documents   *)
(* of each package in scope, then the root index.                          *)

\* p is the -package-id argument, None for RebuildAll.
StartRebuild(b, p) ==
    /\ pc[b] = "idle"
    /\ pc' = [pc EXCEPT ![b] = "plan"]
    /\ job' = [job EXCEPT ![b] = p]
    /\ todo' = [todo EXCEPT ![b] = Slots]
    /\ UNCHANGED <<store, private, seen, latest, scope, reply, sent, faults, crashes>>

\* Mutant of Plan: the scope is not restricted to packages that have details.
PlanUnfiltered(b) ==
    /\ pc[b] = "plan"
    /\ todo[b] = {}
    /\ scope' = [scope EXCEPT ![b] = IF job[b] = None THEN Packages ELSE {job[b]}]
    /\ pc' = [pc EXCEPT ![b] = "index"]
    /\ UNCHANGED <<job, todo, seen, latest, reply, store, private, sent, faults, crashes>>

\* Mutant of Plan: only the root index is rebuilt.
PlanRootOnly(b) ==
    /\ pc[b] = "plan"
    /\ todo[b] = {}
    /\ pc' = [pc EXCEPT ![b] = "root"]
    /\ UNCHANGED <<scope, job, todo, seen, latest, reply, store, private, sent, faults, crashes>>

\* groupPackageDetails and rebuildScope.
Plan(b) ==
    LET listed == {d.package : d \in seen[b]} IN
    /\ pc[b] = "plan"
    /\ todo[b] = {}
    /\ \/ /\ job[b] \in listed \cup {None}
          /\ scope' = [scope EXCEPT ![b] = IF job[b] = None THEN listed ELSE {job[b]}]
          /\ pc' = [pc EXCEPT ![b] = IF listed = {} THEN "root" ELSE "index"]
          /\ UNCHANGED <<job, todo, seen, latest, reply>>
       \/ /\ job[b] \notin listed \cup {None}
          /\ Finish(b, "INTERNAL_ERROR", FALSE)
    /\ UNCHANGED <<store, private, sent, faults, crashes>>

-----------------------------------------------------------------------------
(* Steps that handlers and rebuilders share.                               *)

\* Mutant of ReadDetail: the listing starts over at the object it has read.
ReadDetailForever(w, s) ==
    /\ pc[w] \in {"plan", "index", "root"}
    /\ s \in todo[w]
    /\ seen' = [seen EXCEPT ![w] = @ \cup ({details[s]} \ {None})]
    /\ UNCHANGED <<store, private, pc, job, todo, latest, scope, reply, sent, faults, crashes>>

\* A listing reads one object.  The file and S3 stores list names, then read the
\* objects; whatever the order, each is seen as it is at one moment of the listing.
ReadDetail(w, s) ==
    /\ pc[w] \in {"plan", "index", "root"}
    /\ s \in todo[w]
    /\ todo' = [todo EXCEPT ![w] = @ \ {s}]
    /\ seen' = [seen EXCEPT ![w] = @ \cup ({details[s]} \ {None})]
    /\ UNCHANGED <<store, private, pc, job, latest, scope, reply, sent, faults, crashes>>

\* deriveddocs.WritePackage, first write.
PutPackageVersionsIndex(w) ==
    /\ pc[w] = "index"
    /\ todo[w] = {}
    /\ \E p \in scope[w] : \E d \in Latests(DetailsIn(seen[w], p)) :
        /\ packageIndex' = [packageIndex EXCEPT ![p] = IndexOf(DetailsIn(seen[w], p), d)]
        /\ \/ /\ pc' = [pc EXCEPT ![w] = "alias"]
              /\ latest' = [latest EXCEPT ![w] = d]
              /\ UNCHANGED <<job, todo, seen, scope, reply, faults>>
           \/ Fail(w, "INDEX_CONFLICT")
    /\ UNCHANGED <<details, latestAlias, rootIndex, private, sent, crashes>>

\* Mutant of AfterAlias: the root index is derived from the package's details.
AfterAliasOneListing(w) ==
    /\ scope' = [scope EXCEPT ![w] = @ \ {latest[w].package}]
    /\ pc' = [pc EXCEPT ![w] = "root"]
    /\ UNCHANGED <<job, todo, seen, latest, reply>>

\* The handler lists all details anew for the root index; the rebuilder goes on
\* with the details it has.
AfterAlias(w) ==
    LET left == scope[w] \ {latest[w].package} IN
    /\ scope' = [scope EXCEPT ![w] = left]
    /\ \/ /\ w \in Handlers
          /\ pc' = [pc EXCEPT ![w] = "root"]
          /\ todo' = [todo EXCEPT ![w] = Slots]
          /\ seen' = [seen EXCEPT ![w] = {}]
       \/ /\ w \in Rebuilders
          /\ pc' = [pc EXCEPT ![w] = IF left = {} THEN "root" ELSE "index"]
          /\ UNCHANGED <<todo, seen>>
    /\ UNCHANGED <<job, latest, reply>>

\* deriveddocs.WritePackage, second write.
PutLatestAlias(w) ==
    /\ pc[w] = "alias"
    /\ latestAlias' = [latestAlias EXCEPT ![latest[w].package] = latest[w]]
    /\ \/ AfterAlias(w) /\ UNCHANGED faults
       \/ Fail(w, "INDEX_CONFLICT")
    /\ UNCHANGED <<details, packageIndex, rootIndex, private, sent, crashes>>

\* deriveddocs.WriteRoot, and the success response: "updated" says that the
\* published version heads the package.
PutRootIndex(w) ==
    /\ pc[w] = "root"
    /\ todo[w] = {}
    /\ rootIndex' \in RootIndexes(Packages, seen[w])
    /\ \/ /\ Finish(w, "OK", w \in Handlers /\ latest[w].key = job[w].key)
          /\ UNCHANGED faults
       \/ Fail(w, "INDEX_CONFLICT")
    /\ UNCHANGED <<details, packageIndex, latestAlias, private, sent, crashes>>

-----------------------------------------------------------------------------
(* Failures.                                                               *)

Writing(w) ==
    \/ pc[w] \in {"put", "alias"}
    \/ pc[w] \in {"index", "root"} /\ todo[w] = {}
Reading(w) ==
    \/ pc[w] \in {"reserve", "bind", "lookup"}
    \/ pc[w] \in {"plan", "index", "root"} /\ todo[w] # {}

\* A store call fails without effect.
StoreError(w) ==
    /\ \/ Writing(w) /\ Fail(w, "INDEX_CONFLICT")
       \/ Reading(w) /\ Fail(w, "INTERNAL_ERROR")
    /\ UNCHANGED <<store, private, sent, crashes>>

\* The server process stops and starts again.  Handlers lose their state and
\* their clients the connection; the memory private-state store starts empty.
Crash ==
    /\ crashes < MaxCrashes
    /\ crashes' = crashes + 1
    /\ pc' = [w \in Writers |-> IF w \in Handlers THEN "idle" ELSE pc[w]]
    /\ reply' = [h \in Handlers |->
         IF pc[h] = "idle" THEN reply[h]
         ELSE [request |-> job[h], result |-> "CONNECTION_LOST", updated |-> FALSE]]
    /\ job' = [w \in Writers |-> IF w \in Handlers THEN None ELSE job[w]]
    /\ todo' = [w \in Writers |-> IF w \in Handlers THEN {} ELSE todo[w]]
    /\ seen' = [w \in Writers |-> IF w \in Handlers THEN {} ELSE seen[w]]
    /\ latest' = [w \in Writers |-> IF w \in Handlers THEN None ELSE latest[w]]
    /\ scope' = [w \in Writers |-> IF w \in Handlers THEN {} ELSE scope[w]]
    /\ usedJTI' = IF StateDurable THEN usedJTI ELSE {}
    /\ bindings' = IF StateDurable THEN bindings ELSE [p \in Packages |-> None]
    /\ UNCHANGED <<store, admissions, sent, faults>>

-----------------------------------------------------------------------------

\* What a busy writer does when no store call fails.
HandlerStep(h) ==
    \/ ReserveJTI(h) \/ DetectReplay(h)
    \/ BindPackage(h) \/ DetectMismatch(h)
    \/ Validate(h)
    \/ FindFree(h) \/ FindSame(h) \/ FindDifferent(h)
    \/ PutDetail(h)

SharedStep(w) ==
    \/ \E s \in Slots : ReadDetail(w, s)
    \/ PutPackageVersionsIndex(w) \/ PutLatestAlias(w) \/ PutRootIndex(w)

Next ==
    \/ \E h \in Handlers :
        \/ \E r \in Requests : Receive(h, r)
        \/ HandlerStep(h)
    \/ \E b \in Rebuilders :
        \/ \E p \in Packages \cup {None} : StartRebuild(b, p)
        \/ Plan(b)
    \/ \E w \in Writers : SharedStep(w) \/ StoreError(w)
    \/ Crash

Spec == Init /\ [][Next]_vars

\* A goroutine that can run does run, and so does a rebuilder process.
Progress ==
    /\ \A h \in Handlers : WF_vars(HandlerStep(h) \/ SharedStep(h))
    /\ \A b \in Rebuilders : WF_vars(Plan(b) \/ SharedStep(b))

LiveSpec == Spec /\ Progress

\* The operator runs a full rebuild again and again, among single-package ones.
MaintainedSpec == LiveSpec /\ \A b \in Rebuilders : SF_vars(StartRebuild(b, None))

-----------------------------------------------------------------------------
(* Safety properties that hold for any number of writers.                  *)

Published(s) == details[s] # None

\* No derived document names a version whose authoritative detail is missing:
\* neither one a reader can fetch now nor one a writer is about to derive from
\* what it has read (docs/indexer-api.md:117).
Discoverability ==
    /\ \A p \in Packages :
        /\ packageIndex[p] # None =>
            \A v \in packageIndex[p].versions : <<p, v.key>> \in Slots /\ Published(<<p, v.key>>)
        /\ latestAlias[p] # None =>
            /\ latestAlias[p].package = p
            /\ SlotOf(latestAlias[p]) \in Slots /\ Published(SlotOf(latestAlias[p]))
        /\ rootIndex # None /\ rootIndex[p] # None =>
            <<p, rootIndex[p].key>> \in Slots /\ Published(<<p, rootIndex[p].key>>)

\* BuildPackageVersionsIndex takes details[0]: no writer reaches it with an empty
\* list of details, whatever was published meanwhile and whatever failed before.
NeverIndexesNothing ==
    \A w \in Writers :
        pc[w] = "index" /\ todo[w] = {} =>
            scope[w] # {} /\ \A p \in scope[w] : DetailsIn(seen[w], p) # {}

\* A handler derives documents only from listings that contain the version it was
\* asked to publish: what it writes describes the state after its update.
OwnVersionListed ==
    \A h \in Handlers :
        pc[h] \in {"index", "root"} /\ todo[h] = {} =>
            \E d \in seen[h] : SlotOf(d) = SlotOf(job[h])

\* A token is let through the replay check once, however its requests interleave,
\* fail, are repeated or are cut off by a crash (docs/security-oidc.md:85).
AdmittedAtMostOnce == \A j \in JTIs : admissions[j] <= 1

\* A detail is published only for the repository that its package is bound to.
PublishedByOwner ==
    \A s \in Slots : Published(s) =>
        \E r \in Requests :
            /\ SlotOf(r) = s
            /\ r.content = details[s].content
            /\ r.repositoryId = bindings[s[1]]

\* What makes the properties above inductive.
ListingsPublished ==
    \A w \in Writers : \A d \in seen[w] : SlotOf(d) \in Slots /\ Published(SlotOf(d))

LatestPublished ==
    \A w \in Writers :
        /\ latest[w] # None => SlotOf(latest[w]) \in Slots /\ Published(SlotOf(latest[w]))
        /\ pc[w] = "alias" => latest[w] # None

AdmittedAreUsed == \A j \in JTIs : admissions[j] # 0 => j \in usedJTI

BoundWhileBusy ==
    \A h \in Handlers : pc[h] \in {"validate", "lookup", "put"} =>
        bindings[job[h].package] = job[h].repositoryId

OwnVersionPublished ==
    \A h \in Handlers :
        /\ pc[h] \in {"index", "alias", "root"} => Published(SlotOf(job[h]))
        /\ pc[h] \in {"index", "root"} /\ SlotOf(job[h]) \notin todo[h] =>
               \E d \in seen[h] : SlotOf(d) = SlotOf(job[h])

-----------------------------------------------------------------------------
(* Safety properties of a server that handles one request at a time.       *)

\* A published detail never changes again, its published_at included
\* (docs/immutability.md:3 and :45).
ImmutableVersions ==
    [][\A s \in Slots : Published(s) => details'[s] = details[s]]_vars

\* The promise of such a server to its readers: a version is published once and
\* for good, and each derived document is replaced by one derived from exactly
\* the details published at that moment (see Registry).
Reg == INSTANCE Registry WITH Detail <- VersionedPackageDetail
ImplementsRegistry == Reg!Spec

PackageCurrent(p) ==
    LET S == DetailsIn(Reg!Stored, p) IN
    \E d \in Latests(S) : packageIndex[p] = IndexOf(S, d) /\ latestAlias[p] = d

RootCurrent == rootIndex \in RootIndexes(Packages, Reg!Stored)

\* When a handler has answered 200, the package's index and alias and the root
\* index describe the details that are published, and the response says rightly
\* whether the alias is the version it was asked to publish.
SuccessMeansCurrent ==
    \A h \in Handlers :
        pc[h] = "idle" /\ reply[h] # None /\ reply[h].result = "OK" =>
            LET p == reply[h].request.package IN
            /\ PackageCurrent(p)
            /\ RootCurrent
            /\ reply[h].updated <=> latestAlias[p].key = reply[h].request.key

\* After such an answer the versions index and the root index put versions of equal
\* precedence and time first: where versions tie, as 1 and 1.0 do, each document
\* breaks the tie in its own way, and neither may then name a version that is newer
\* than the other's.
HeadsAgree ==
    \A h \in Handlers :
        pc[h] = "idle" /\ reply[h] # None /\ reply[h].result = "OK" =>
            LET p == reply[h].request.package IN
            \E v \in packageIndex[p].versions :
                /\ v.key = packageIndex[p].latest
                /\ Rank[v.key] = Rank[rootIndex[p].key]
                /\ v.publishedAt = rootIndex[p].publishedAt

-----------------------------------------------------------------------------
(* What the documents say and the code does not do.                        *)

\* The request that was answered 503 INDEX_CONFLICT may be sent again: it is not
\* turned away as a replay of itself (docs/indexer-api.md:118).
RetryIsNoReplay ==
    [][\A h \in Handlers :
        /\ reply[h] # None /\ reply'[h] # None
        /\ reply[h].result = "INDEX_CONFLICT"
        /\ reply'[h].request = reply[h].request
        => reply'[h].result # "AUTH_REPLAY_DETECTED"]_vars

\* Once every request has been answered 200, the alias of a package is the detail
\* that its versions index calls the latest (docs/indexes.md:108).
AliasMatchesIndex ==
    (\A h \in Handlers : pc[h] = "idle" /\ (reply[h] # None => reply[h].result = "OK")) =>
        \A p \in Packages : packageIndex[p] # None =>
            latestAlias[p] # None /\ latestAlias[p].key = packageIndex[p].latest

-----------------------------------------------------------------------------
(* Liveness.                                                               *)

\* Every request is answered, or its client loses the connection.
EveryRequestAnswered ==
    \A h \in Handlers : (pc[h] # "idle") ~> (pc[h] = "idle")

\* Whatever handlers that overtook each other and failed store calls have left
\* behind, rebuilding again restores every derived document, for good.
RebuildRestores ==
    <>[](RootCurrent /\ \A p \in Packages :
            (\E s \in Slots : s[1] = p /\ Published(s)) => PackageCurrent(p))

=============================================================================
