-------------------------- MODULE PublicationProofs --------------------------
(***************************************************************************)
(* Theorems about Publication: first for any number of handlers,           *)
(* rebuilders, requests, faults and crashes; then what a server promises   *)
(* its readers that handles one request at a time, again for any requests, *)
(* faults and crashes; last what a full rebuild restores, whatever came    *)
(* before it.                                                              *)
(***************************************************************************)
EXTENDS Publication, TLAPS

(***************************************************************************)
(* Type correctness.  One lemma per way a step ends, then one per action.  *)
(***************************************************************************)

\* What a request or a detail says lies in the sets drawn from the requests.
LEMMA RequestFields ==
    ASSUME NEW r \in Requests
    PROVE  /\ r.jti \in JTIs /\ r.package \in Packages /\ r.key \in VersionKeys
           /\ r.content \in Contents /\ r.repositoryId \in RepositoryIDs
           /\ SlotOf(r) \in Slots
BY DEF JTIs, Packages, VersionKeys, Contents, RepositoryIDs, Slots

LEMMA GotoType ==
    ASSUME TypeOK, NEW w \in Writers, pc[w] # "idle", NEW step \in Steps, Goto(w, step)
    PROVE  LocalTypeOK'
BY DEF TypeOK, LocalTypeOK, Goto

LEMMA ListType ==
    ASSUME TypeOK, NEW w \in Writers, pc[w] # "idle", NEW step \in Steps,
           NEW slots \in SUBSET Slots, List(w, step, slots)
    PROVE  LocalTypeOK'
BY DEF TypeOK, LocalTypeOK, List

LEMMA FinishType ==
    ASSUME TypeOK, NEW w \in Writers, pc[w] # "idle", NEW result \in Results,
           NEW updated \in BOOLEAN, Finish(w, result, updated)
    PROVE  LocalTypeOK'
<1>1. reply' \in [Handlers -> Reply \cup {None}]
  BY DEF TypeOK, LocalTypeOK, Finish, Reply
<1>2. pc' \in [Writers -> Steps]
  BY DEF TypeOK, LocalTypeOK, Finish, Steps
<1> QED
  BY <1>1, <1>2 DEF TypeOK, LocalTypeOK, Finish, Steps

LEMMA FailType ==
    ASSUME TypeOK, NEW w \in Writers, pc[w] # "idle", NEW result \in Results, Fail(w, result)
    PROVE  LocalTypeOK' /\ faults' \in Nat
<1>1. Finish(w, result, FALSE)
  BY DEF Fail
<1>2. LocalTypeOK'
  BY <1>1, FinishType
<1> QED
  BY <1>2 DEF Fail, TypeOK

\* The writer's own step that publishes: the detail it puts is filed in its slot.
LEMMA PutDetailType ==
    ASSUME TypeOK, NEW h \in Handlers, PutDetail(h)
    PROVE  TypeOK'
<1>1. h \in Writers /\ job[h] \in Requests /\ pc[h] # "idle"
  BY DEF PutDetail, TypeOK, LocalTypeOK, Writers
<1>2. PICK t \in Times :
        details' = [details EXCEPT ![SlotOf(job[h])] =
            [package |-> job[h].package, key |-> job[h].key,
             content |-> job[h].content, publishedAt |-> t]]
  BY DEF PutDetail
<1>3. StoreTypeOK'
  <2> DEFINE d == [package |-> job[h].package, key |-> job[h].key,
                   content |-> job[h].content, publishedAt |-> t]
  <2>1. d \in VersionedPackageDetail /\ SlotOf(d) = SlotOf(job[h])
    BY <1>1, RequestFields DEF VersionedPackageDetail, SlotOf
  <2>2. details' = [details EXCEPT ![SlotOf(job[h])] = d]
    BY <1>2
  <2> HIDE DEF d
  <2>3. details' \in [Slots -> VersionedPackageDetail \cup {None}]
    BY <2>1, <2>2 DEF TypeOK, StoreTypeOK
  <2>4. \A s \in Slots : details'[s] # None => SlotOf(details'[s]) = s
    BY <2>1, <2>2 DEF TypeOK, StoreTypeOK
  <2> QED
    BY <2>3, <2>4 DEF PutDetail, TypeOK, StoreTypeOK
<1>4. LocalTypeOK' /\ faults' \in Nat
  <2>1. CASE List(h, "index", {s \in Slots : s[1] = job[h].package}) /\ UNCHANGED faults
    BY <2>1, <1>1, ListType DEF TypeOK, Steps
  <2>2. CASE Fail(h, "INDEX_CONFLICT")
    BY <2>2, <1>1, FailType DEF Results
  <2> QED
    BY <2>1, <2>2 DEF PutDetail
<1> QED
  BY <1>3, <1>4 DEF PutDetail, TypeOK, PrivateTypeOK, private

LEMMA ReceiveType ==
    ASSUME TypeOK, NEW h \in Handlers, NEW r \in Requests, Receive(h, r)
    PROVE  TypeOK'
<1>1. LocalTypeOK'
  BY RequestFields, WritersAssumption DEF Receive, TypeOK, LocalTypeOK, Steps, Writers
<1> QED
  BY <1>1 DEF Receive, TypeOK, StoreTypeOK, PrivateTypeOK, store, private

LEMMA HandlerStepType ==
    ASSUME TypeOK, NEW h \in Handlers, HandlerStep(h)
    PROVE  TypeOK'
<1> h \in Writers
  BY DEF Writers
<1>1. CASE ReserveJTI(h)
  <2>1. LocalTypeOK'
    BY <1>1, GotoType DEF ReserveJTI, Steps
  <2>2. job[h] \in Requests
    BY <1>1 DEF ReserveJTI, TypeOK, LocalTypeOK
  <2>3. PrivateTypeOK'
    BY <1>1, <2>2, RequestFields DEF ReserveJTI, TypeOK, PrivateTypeOK
  <2> QED
    BY <1>1, <2>1, <2>3 DEF ReserveJTI, TypeOK, StoreTypeOK, store
<1>2. CASE DetectReplay(h)
  BY <1>2, FinishType
  DEF DetectReplay, Results, TypeOK, StoreTypeOK, PrivateTypeOK, store, private
<1>3. CASE BindPackage(h)
  <2>1. LocalTypeOK'
    BY <1>3, GotoType DEF BindPackage, Steps
  <2>2. job[h] \in Requests
    BY <1>3 DEF BindPackage, TypeOK, LocalTypeOK
  <2>3. PrivateTypeOK'
    BY <1>3, <2>2, RequestFields DEF BindPackage, TypeOK, PrivateTypeOK
  <2> QED
    BY <1>3, <2>1, <2>3 DEF BindPackage, TypeOK, StoreTypeOK, store
<1>4. CASE DetectMismatch(h)
  BY <1>4, FinishType
  DEF DetectMismatch, Results, TypeOK, StoreTypeOK, PrivateTypeOK, store, private
<1>5. CASE Validate(h)
  BY <1>5, GotoType, FinishType
  DEF Validate, Steps, Results, TypeOK, StoreTypeOK, PrivateTypeOK, store, private
<1>6. CASE FindFree(h)
  BY <1>6, GotoType
  DEF FindFree, Steps, TypeOK, StoreTypeOK, PrivateTypeOK, store, private
<1>7. CASE FindSame(h)
  BY <1>7, ListType
  DEF FindSame, Steps, TypeOK, StoreTypeOK, PrivateTypeOK, store, private
<1>8. CASE FindDifferent(h)
  BY <1>8, FinishType
  DEF FindDifferent, Results, TypeOK, StoreTypeOK, PrivateTypeOK, store, private
<1>9. CASE PutDetail(h)
  BY <1>9, PutDetailType
<1> QED
  BY <1>1, <1>2, <1>3, <1>4, <1>5, <1>6, <1>7, <1>8, <1>9 DEF HandlerStep

LEMMA PutPackageVersionsIndexType ==
    ASSUME TypeOK, NEW w \in Writers, PutPackageVersionsIndex(w)
    PROVE  TypeOK'
<1>1. PICK p \in scope[w] : \E d \in Latests(DetailsIn(seen[w], p)) :
        /\ packageIndex' = [packageIndex EXCEPT ![p] = IndexOf(DetailsIn(seen[w], p), d)]
        /\ \/ /\ pc' = [pc EXCEPT ![w] = "alias"]
              /\ latest' = [latest EXCEPT ![w] = d]
              /\ UNCHANGED <<job, todo, seen, scope, reply, faults>>
           \/ Fail(w, "INDEX_CONFLICT")
  BY DEF PutPackageVersionsIndex
<1>2. PICK d \in Latests(DetailsIn(seen[w], p)) :
        /\ packageIndex' = [packageIndex EXCEPT ![p] = IndexOf(DetailsIn(seen[w], p), d)]
        /\ \/ /\ pc' = [pc EXCEPT ![w] = "alias"]
              /\ latest' = [latest EXCEPT ![w] = d]
              /\ UNCHANGED <<job, todo, seen, scope, reply, faults>>
           \/ Fail(w, "INDEX_CONFLICT")
  BY <1>1
<1>3. DetailsIn(seen[w], p) \subseteq VersionedPackageDetail /\ d \in DetailsIn(seen[w], p)
  BY DEF DetailsIn, Latests, TypeOK, LocalTypeOK
<1>4. IndexOf(DetailsIn(seen[w], p), d) \in PackageVersionsIndex
  BY <1>3 DEF IndexOf, Record, PackageVersionsIndex, VersionRecord, VersionedPackageDetail
<1>5. StoreTypeOK'
  BY <1>2, <1>4 DEF PutPackageVersionsIndex, TypeOK, StoreTypeOK
<1>6. LocalTypeOK' /\ faults' \in Nat
  <2>1. CASE /\ pc' = [pc EXCEPT ![w] = "alias"]
             /\ latest' = [latest EXCEPT ![w] = d]
             /\ UNCHANGED <<job, todo, seen, scope, reply, faults>>
    BY <2>1, <1>3 DEF PutPackageVersionsIndex, TypeOK, LocalTypeOK, Steps
  <2>2. CASE Fail(w, "INDEX_CONFLICT")
    BY <2>2, FailType DEF PutPackageVersionsIndex, Results
  <2> QED
    BY <2>1, <2>2, <1>2
<1> QED
  BY <1>5, <1>6 DEF PutPackageVersionsIndex, TypeOK, PrivateTypeOK, private

LEMMA PutLatestAliasType ==
    ASSUME TypeOK, NEW w \in Writers, PutLatestAlias(w)
    PROVE  TypeOK'
<1>1. StoreTypeOK'
  BY DEF PutLatestAlias, TypeOK, StoreTypeOK, LocalTypeOK
<1>2. LocalTypeOK' /\ faults' \in Nat
  <2>1. CASE AfterAlias(w) /\ UNCHANGED faults
    <3>1. /\ scope' \in [Writers -> SUBSET Packages] /\ todo' \in [Writers -> SUBSET Slots]
          /\ seen' \in [Writers -> SUBSET VersionedPackageDetail]
      BY <2>1 DEF AfterAlias, TypeOK, LocalTypeOK
    <3>2. pc' \in [Writers -> Steps]
      BY <2>1 DEF AfterAlias, TypeOK, LocalTypeOK, Steps
    <3>3. \A h \in Handlers : pc'[h] # "idle" => job'[h] \in Requests
      <4> SUFFICES ASSUME NEW h \in Handlers
                   PROVE  pc'[h] # "idle" => job'[h] \in Requests
        OBVIOUS
      <4>1. pc'[h] # "idle" => pc[h] # "idle"
        BY <2>1 DEF AfterAlias, PutLatestAlias, TypeOK, LocalTypeOK, Writers
      <4> QED
        BY <2>1, <4>1 DEF AfterAlias, TypeOK, LocalTypeOK
    <3> QED
      BY <2>1, <3>1, <3>2, <3>3 DEF AfterAlias, TypeOK, LocalTypeOK
  <2>2. CASE Fail(w, "INDEX_CONFLICT")
    BY <2>2, FailType DEF PutLatestAlias, Results
  <2> QED
    BY <2>1, <2>2 DEF PutLatestAlias
<1> QED
  BY <1>1, <1>2 DEF PutLatestAlias, TypeOK, PrivateTypeOK, private

\* Every root index that can be derived from details is typed.
LEMMA RootIndexesType ==
    ASSUME NEW S \in SUBSET VersionedPackageDetail, NEW r \in RootIndexes(Packages, S)
    PROVE  r \in [Packages -> VersionRecord \cup {None}]
<1>1. {Record(d) : d \in S} \subseteq VersionRecord
  BY DEF Record, VersionRecord, VersionedPackageDetail
<1> QED
  BY <1>1 DEF RootIndexes

LEMMA PutRootIndexType ==
    ASSUME TypeOK, NEW w \in Writers, PutRootIndex(w)
    PROVE  TypeOK'
<1>1. StoreTypeOK'
  BY RootIndexesType DEF PutRootIndex, TypeOK, StoreTypeOK, LocalTypeOK
<1>2. LocalTypeOK' /\ faults' \in Nat
  <2> DEFINE updated == w \in Handlers /\ latest[w].key = job[w].key
  <2>1. updated \in BOOLEAN
    OBVIOUS
  <2>2. CASE Finish(w, "OK", updated) /\ UNCHANGED faults
    <3> HIDE DEF updated
    <3>1. LocalTypeOK'
      BY <2>1, <2>2, FinishType DEF PutRootIndex, Results
    <3> QED
      BY <2>2, <3>1 DEF TypeOK
  <2>3. CASE Fail(w, "INDEX_CONFLICT")
    BY <2>3, FailType DEF PutRootIndex, Results
  <2> QED
    BY <2>2, <2>3 DEF PutRootIndex
<1> QED
  BY <1>1, <1>2 DEF PutRootIndex, TypeOK, PrivateTypeOK, private

LEMMA ReadDetailType ==
    ASSUME TypeOK, NEW w \in Writers, NEW s \in Slots, ReadDetail(w, s)
    PROVE  TypeOK'
<1>1. LocalTypeOK'
  BY DEF ReadDetail, TypeOK, LocalTypeOK, StoreTypeOK
<1> QED
  BY <1>1 DEF ReadDetail, TypeOK, StoreTypeOK, PrivateTypeOK, store, private

LEMMA RebuilderType ==
    ASSUME TypeOK, NEW b \in Rebuilders,
           (\E p \in Packages \cup {None} : StartRebuild(b, p)) \/ Plan(b)
    PROVE  TypeOK'
<1> b \in Writers /\ b \notin Handlers
  BY WritersAssumption DEF Writers
<1>1. ASSUME NEW p \in Packages \cup {None}, StartRebuild(b, p)
      PROVE  TypeOK'
  BY <1>1 DEF StartRebuild, TypeOK, StoreTypeOK, PrivateTypeOK, LocalTypeOK, Steps, store, private
<1>2. CASE Plan(b)
  <2> DEFINE listed == {d.package : d \in seen[b]}
  <2>1. listed \subseteq Packages
    BY DEF TypeOK, LocalTypeOK, VersionedPackageDetail
  <2>2. CASE /\ job[b] \in listed \cup {None}
             /\ scope' = [scope EXCEPT ![b] = IF job[b] = None THEN listed ELSE {job[b]}]
             /\ pc' = [pc EXCEPT ![b] = IF listed = {} THEN "root" ELSE "index"]
             /\ UNCHANGED <<job, todo, seen, latest, reply>>
    <3> HIDE DEF listed
    <3>1. LocalTypeOK'
      BY <2>1, <2>2 DEF TypeOK, LocalTypeOK, Steps
    <3> QED
      BY <1>2, <3>1 DEF Plan, TypeOK, StoreTypeOK, PrivateTypeOK, store, private
  <2>3. CASE Finish(b, "INTERNAL_ERROR", FALSE)
    <3>1. LocalTypeOK'
      BY <1>2, <2>3, FinishType DEF Plan, Results
    <3> QED
      BY <1>2, <3>1 DEF Plan, TypeOK, StoreTypeOK, PrivateTypeOK, store, private
  <2> QED
    BY <1>2, <2>2, <2>3 DEF Plan
<1> QED
  BY <1>1, <1>2

LEMMA StoreErrorType ==
    ASSUME TypeOK, NEW w \in Writers, StoreError(w)
    PROVE  TypeOK'
<1>1. pc[w] # "idle"
  BY DEF StoreError, Writing, Reading
<1> QED
  BY <1>1, FailType
  DEF StoreError, Results, TypeOK, StoreTypeOK, PrivateTypeOK, store, private

LEMMA CrashType ==
    ASSUME TypeOK, Crash
    PROVE  TypeOK'
<1>1. reply' \in [Handlers -> Reply \cup {None}]
  BY DEF Crash, TypeOK, LocalTypeOK, Reply, Results, Writers
<1>2. pc' \in [Writers -> Steps]
  BY DEF Crash, TypeOK, LocalTypeOK, Steps
<1>3. PrivateTypeOK'
  BY DEF Crash, TypeOK, PrivateTypeOK
<1>4. LocalTypeOK'
  BY <1>1, <1>2, WritersAssumption DEF Crash, TypeOK, LocalTypeOK, Writers
<1> QED
  BY <1>3, <1>4 DEF Crash, TypeOK, StoreTypeOK, store

LEMMA NextType == TypeOK /\ [Next]_vars => TypeOK'
<1> SUFFICES ASSUME TypeOK, [Next]_vars
             PROVE  TypeOK'
  OBVIOUS
<1>1. ASSUME NEW h \in Handlers, NEW r \in Requests, Receive(h, r)
      PROVE  TypeOK'
  BY <1>1, ReceiveType
<1>2. ASSUME NEW h \in Handlers, HandlerStep(h)
      PROVE  TypeOK'
  BY <1>2, HandlerStepType
<1>3. ASSUME NEW b \in Rebuilders,
             (\E p \in Packages \cup {None} : StartRebuild(b, p)) \/ Plan(b)
      PROVE  TypeOK'
  BY <1>3, RebuilderType
<1>4. ASSUME NEW w \in Writers, SharedStep(w)
      PROVE  TypeOK'
  BY <1>4, ReadDetailType, PutPackageVersionsIndexType, PutLatestAliasType, PutRootIndexType
  DEF SharedStep
<1>5. ASSUME NEW w \in Writers, StoreError(w)
      PROVE  TypeOK'
  BY <1>5, StoreErrorType
<1>6. CASE Crash
  BY <1>6, CrashType
<1>7. CASE UNCHANGED vars
  BY <1>7
  DEF vars, store, private, local, TypeOK, StoreTypeOK, PrivateTypeOK, LocalTypeOK
<1> QED
  BY <1>1, <1>2, <1>3, <1>4, <1>5, <1>6, <1>7 DEF Next

\* The state of stores and writers keeps its type; in particular each detail is
\* filed in its own slot and a busy handler holds a request.
THEOREM TypeCorrect == Spec => []TypeOK
<1>1. Init => TypeOK
  BY WritersAssumption
  DEF Init, TypeOK, StoreTypeOK, PrivateTypeOK, LocalTypeOK, Steps, Writers
<1> QED
  BY <1>1, NextType, PTL DEF Spec

-----------------------------------------------------------------------------
(***************************************************************************)
(* Discoverability.  Details only ever appear; so what a listing has read  *)
(* stays published, and with it whatever is derived from the listing.      *)
(***************************************************************************)

LEMMA OnlyPutChangesDetails ==
    [Next]_vars => details' = details \/ \E h \in Handlers : PutDetail(h)
BY DEF Next, HandlerStep, SharedStep, Receive, ReserveJTI, DetectReplay, BindPackage,
       DetectMismatch, Validate, FindFree, FindSame, FindDifferent, StartRebuild, Plan,
       ReadDetail, PutPackageVersionsIndex, PutLatestAlias, PutRootIndex, StoreError, Crash,
       vars, store

\* A published version never disappears, whoever does what.
LEMMA PublishedStays ==
    ASSUME TypeOK, [Next]_vars, NEW s \in Slots, Published(s)
    PROVE  Published(s)'
<1>1. ASSUME NEW h \in Handlers, PutDetail(h)
      PROVE  details'[s] # None
  <2>1. job[h] \in Requests
    BY <1>1 DEF PutDetail, TypeOK, LocalTypeOK
  <2>2. PICK t \in Times :
          details' = [details EXCEPT ![SlotOf(job[h])] =
              [package |-> job[h].package, key |-> job[h].key,
               content |-> job[h].content, publishedAt |-> t]]
    BY <1>1 DEF PutDetail
  <2>3. [package |-> job[h].package, key |-> job[h].key,
         content |-> job[h].content, publishedAt |-> t] \in VersionedPackageDetail
    BY <2>1, RequestFields DEF VersionedPackageDetail
  <2> QED
    BY <2>2, <2>3, NoneAssumption DEF TypeOK, StoreTypeOK, Published
<1> QED
  BY <1>1, OnlyPutChangesDetails DEF Published

\* How a step changes what a writer has read and the detail it holds as the latest:
\* what is read was stored at that moment, and the latest is chosen from what was read.
Origin(w) ==
    /\ seen'[w] \subseteq seen[w] \cup {details[s] : s \in {x \in Slots : details[x] # None}}
    /\ latest'[w] \in {None, latest[w]} \cup seen[w]
    /\ pc'[w] = "alias" => latest'[w] \in seen[w] \/ (pc[w] = "alias" /\ latest'[w] = latest[w])

LEMMA GotoOrigin ==
    ASSUME TypeOK, NEW w \in Writers, NEW step \in Steps \ {"alias"}, Goto(w, step)
    PROVE  \A v \in Writers : Origin(v)
BY DEF Goto, Origin, TypeOK, LocalTypeOK

LEMMA ListOrigin ==
    ASSUME TypeOK, NEW w \in Writers, NEW step \in Steps \ {"alias"}, NEW slots,
           List(w, step, slots)
    PROVE  \A v \in Writers : Origin(v)
BY DEF List, Origin, TypeOK, LocalTypeOK

LEMMA FinishOrigin ==
    ASSUME TypeOK, NEW w \in Writers, NEW result, NEW updated, Finish(w, result, updated)
    PROVE  \A v \in Writers : Origin(v)
BY DEF Finish, Origin, TypeOK, LocalTypeOK

LEMMA HandlerStepOrigin ==
    ASSUME TypeOK, NEW h \in Handlers, HandlerStep(h)
    PROVE  \A v \in Writers : Origin(v)
<1> h \in Writers
  BY DEF Writers
<1>1. CASE ReserveJTI(h) \/ BindPackage(h) \/ FindFree(h)
  BY <1>1, GotoOrigin DEF ReserveJTI, BindPackage, FindFree, Steps
<1>2. CASE DetectReplay(h) \/ DetectMismatch(h) \/ FindDifferent(h)
  BY <1>2, FinishOrigin DEF DetectReplay, DetectMismatch, FindDifferent
<1>3. CASE Validate(h)
  BY <1>3, GotoOrigin, FinishOrigin DEF Validate, Steps
<1>4. CASE FindSame(h)
  BY <1>4, ListOrigin DEF FindSame, Steps
<1>5. CASE PutDetail(h)
  BY <1>5, ListOrigin, FinishOrigin DEF PutDetail, Fail, Steps
<1> QED
  BY <1>1, <1>2, <1>3, <1>4, <1>5 DEF HandlerStep

LEMMA SharedStepOrigin ==
    ASSUME TypeOK, NEW w \in Writers, SharedStep(w)
    PROVE  \A v \in Writers : Origin(v)
<1>1. ASSUME NEW s \in Slots, ReadDetail(w, s)
      PROVE  \A v \in Writers : Origin(v)
  BY <1>1 DEF ReadDetail, Origin, TypeOK, LocalTypeOK
<1>2. CASE PutPackageVersionsIndex(w)
  <2>1. PICK d \in seen[w] :
          \/ /\ pc' = [pc EXCEPT ![w] = "alias"]
             /\ latest' = [latest EXCEPT ![w] = d]
             /\ UNCHANGED <<job, todo, seen, scope, reply, faults>>
          \/ Fail(w, "INDEX_CONFLICT")
    BY <1>2 DEF PutPackageVersionsIndex, Latests, DetailsIn
  <2> QED
    BY <2>1, FinishOrigin DEF Fail, Origin, TypeOK, LocalTypeOK
<1>3. CASE PutLatestAlias(w)
  BY <1>3, FinishOrigin DEF PutLatestAlias, AfterAlias, Fail, Origin, TypeOK, LocalTypeOK
<1>4. CASE PutRootIndex(w)
  BY <1>4, FinishOrigin DEF PutRootIndex, Fail
<1> QED
  BY <1>1, <1>2, <1>3, <1>4 DEF SharedStep

LEMMA NextOrigin ==
    ASSUME TypeOK, [Next]_vars
    PROVE  \A v \in Writers : Origin(v)
<1>1. ASSUME NEW h \in Handlers, NEW r \in Requests, Receive(h, r)
      PROVE  \A v \in Writers : Origin(v)
  BY <1>1 DEF Receive, Origin, TypeOK, LocalTypeOK
<1>2. ASSUME NEW b \in Rebuilders, NEW p, StartRebuild(b, p)
      PROVE  \A v \in Writers : Origin(v)
  BY <1>2 DEF StartRebuild, Origin, TypeOK, LocalTypeOK
<1>3. ASSUME NEW b \in Rebuilders, Plan(b)
      PROVE  \A v \in Writers : Origin(v)
  BY <1>3, FinishOrigin DEF Plan, Origin, TypeOK, LocalTypeOK, Writers
<1>4. ASSUME NEW w \in Writers, StoreError(w)
      PROVE  \A v \in Writers : Origin(v)
  BY <1>4, FinishOrigin DEF StoreError, Fail
<1>5. CASE Crash
  BY <1>5 DEF Crash, Origin, TypeOK, LocalTypeOK
<1>6. CASE UNCHANGED vars
  BY <1>6 DEF vars, local, Origin, TypeOK, LocalTypeOK
<1> QED
  BY <1>1, <1>2, <1>3, <1>4, <1>5, <1>6, HandlerStepOrigin, SharedStepOrigin DEF Next

\* What writers hold stays published.
LEMMA HeldStaysPublished ==
    ASSUME TypeOK, ListingsPublished, LatestPublished, [Next]_vars
    PROVE  ListingsPublished' /\ LatestPublished'
<1>1. ASSUME NEW w \in Writers, NEW d \in seen'[w]
      PROVE  SlotOf(d) \in Slots /\ Published(SlotOf(d))'
  <2>1. SlotOf(d) \in Slots /\ Published(SlotOf(d))
    BY <1>1, NextOrigin DEF Origin, ListingsPublished, Published, TypeOK, StoreTypeOK
  <2> QED
    BY <2>1, PublishedStays
<1>2. ASSUME NEW w \in Writers
      PROVE  /\ latest'[w] # None =>
                  SlotOf(latest'[w]) \in Slots /\ Published(SlotOf(latest[w]))'
             /\ pc'[w] = "alias" => latest'[w] # None
  <2>1. latest'[w] # None =>
          SlotOf(latest'[w]) \in Slots /\ Published(SlotOf(latest'[w]))
    BY NextOrigin DEF Origin, ListingsPublished, LatestPublished
  <2>2. latest'[w] # None => Published(SlotOf(latest[w]))'
    BY <2>1, PublishedStays DEF Published
  <2>3. \A d \in seen[w] : d # None
    BY NoneAssumption DEF TypeOK, LocalTypeOK
  <2> QED
    BY <2>1, <2>2, <2>3, NextOrigin DEF Origin, LatestPublished
<1> QED
  BY <1>1, <1>2 DEF ListingsPublished, LatestPublished

\* Each kind of derived document is written by one step.
LEMMA DocumentWriters ==
    ASSUME [Next]_vars
    PROVE  /\ packageIndex' = packageIndex \/ \E w \in Writers : PutPackageVersionsIndex(w)
           /\ latestAlias' = latestAlias \/ \E w \in Writers : PutLatestAlias(w)
           /\ rootIndex' = rootIndex \/ \E w \in Writers : PutRootIndex(w)
BY DEF Next, HandlerStep, SharedStep, Receive, ReserveJTI, DetectReplay, BindPackage,
       DetectMismatch, Validate, FindFree, FindSame, FindDifferent, PutDetail, StartRebuild,
       Plan, ReadDetail, PutPackageVersionsIndex, PutLatestAlias, PutRootIndex, StoreError,
       Crash, vars, store

\* The three conjuncts of Discoverability, for one package.
IndexDiscoverable(p) ==
    packageIndex[p] # None =>
        \A v \in packageIndex[p].versions : <<p, v.key>> \in Slots /\ Published(<<p, v.key>>)
AliasDiscoverable(p) ==
    latestAlias[p] # None =>
        /\ latestAlias[p].package = p
        /\ SlotOf(latestAlias[p]) \in Slots /\ Published(SlotOf(latestAlias[p]))
RootDiscoverable(p) ==
    rootIndex # None /\ rootIndex[p] # None =>
        <<p, rootIndex[p].key>> \in Slots /\ Published(<<p, rootIndex[p].key>>)

LEMMA DiscoverabilityParts ==
    Discoverability <=>
        \A p \in Packages : IndexDiscoverable(p) /\ AliasDiscoverable(p) /\ RootDiscoverable(p)
BY DEF Discoverability, IndexDiscoverable, AliasDiscoverable, RootDiscoverable

LEMMA IndexStep ==
    ASSUME TypeOK, ListingsPublished, [Next]_vars, NEW p \in Packages, IndexDiscoverable(p)
    PROVE  IndexDiscoverable(p)'
<1>1. CASE packageIndex'[p] = packageIndex[p]
  BY <1>1, PublishedStays DEF IndexDiscoverable, Published
<1>2. ASSUME NEW w \in Writers, PutPackageVersionsIndex(w), packageIndex'[p] # packageIndex[p]
      PROVE  IndexDiscoverable(p)'
  <2>1. PICK d : packageIndex'[p] = IndexOf(DetailsIn(seen[w], p), d)
    BY <1>2 DEF PutPackageVersionsIndex, TypeOK, StoreTypeOK
  <2>2. packageIndex'[p].versions = {Record(e) : e \in DetailsIn(seen[w], p)}
    BY <2>1 DEF IndexOf
  <2>3. ASSUME NEW e \in DetailsIn(seen[w], p)
        PROVE  <<p, Record(e).key>> \in Slots /\ Published(<<p, Record(e).key>>)'
    <3>1. <<p, Record(e).key>> = SlotOf(e) /\ e \in seen[w]
      BY DEF DetailsIn, Record, SlotOf
    <3> QED
      BY <3>1, PublishedStays DEF ListingsPublished
  <2> QED
    BY <2>2, <2>3 DEF IndexDiscoverable, Published
<1> QED
  BY <1>1, <1>2, DocumentWriters

LEMMA AliasStep ==
    ASSUME TypeOK, LatestPublished, [Next]_vars, NEW p \in Packages, AliasDiscoverable(p)
    PROVE  AliasDiscoverable(p)'
<1>1. CASE latestAlias'[p] = latestAlias[p]
  BY <1>1, PublishedStays DEF AliasDiscoverable, Published
<1>2. ASSUME NEW w \in Writers, PutLatestAlias(w), latestAlias'[p] # latestAlias[p]
      PROVE  AliasDiscoverable(p)'
  <2>1. latestAlias'[p] = latest[w] /\ latest[w].package = p /\ latest[w] # None
    BY <1>2 DEF PutLatestAlias, LatestPublished, TypeOK, StoreTypeOK
  <2>2. SlotOf(latest[w]) \in Slots /\ Published(SlotOf(latest[w]))
    BY <2>1 DEF LatestPublished
  <2> QED
    BY <2>1, <2>2, PublishedStays DEF AliasDiscoverable, Published
<1> QED
  BY <1>1, <1>2, DocumentWriters

LEMMA RootStep ==
    ASSUME TypeOK, ListingsPublished, [Next]_vars, NEW p \in Packages, RootDiscoverable(p)
    PROVE  RootDiscoverable(p)'
<1>1. CASE rootIndex' = rootIndex
  BY <1>1, PublishedStays DEF RootDiscoverable, Published
<1>2. ASSUME NEW w \in Writers, PutRootIndex(w), rootIndex'[p] # None
      PROVE  RootDiscoverable(p)'
  <2>1. PICK d \in DetailsIn(seen[w], p) : rootIndex'[p] = Record(d)
    BY <1>2 DEF PutRootIndex, RootIndexes, FirstLatests, Latests
  <2>2. <<p, rootIndex'[p].key>> = SlotOf(d) /\ d \in seen[w]
    BY <2>1 DEF DetailsIn, Record, SlotOf
  <2> QED
    BY <2>2, PublishedStays DEF ListingsPublished, RootDiscoverable, Published
<1> QED
  BY <1>1, <1>2, DocumentWriters DEF RootDiscoverable

\* Whatever writers do at the same time, fail to do or leave half done, no derived
\* document names a version whose authoritative detail is missing.
THEOREM DiscoverabilityHolds == Spec => []Discoverability
<1> DEFINE Inv == TypeOK /\ ListingsPublished /\ LatestPublished /\ Discoverability
<1>1. Init => Inv
  <2>1. Init => TypeOK
    BY WritersAssumption
    DEF Init, TypeOK, StoreTypeOK, PrivateTypeOK, LocalTypeOK, Steps, Writers
  <2> QED
    BY <2>1 DEF Init, ListingsPublished, LatestPublished, Discoverability
<1>2. Inv /\ [Next]_vars => Inv'
  <2> SUFFICES ASSUME Inv, [Next]_vars
               PROVE  Inv'
    OBVIOUS
  <2>1. TypeOK' /\ ListingsPublished' /\ LatestPublished'
    BY NextType, HeldStaysPublished
  <2>2. \A p \in Packages : IndexDiscoverable(p)' /\ AliasDiscoverable(p)' /\ RootDiscoverable(p)'
    BY DiscoverabilityParts, IndexStep, AliasStep, RootStep
  <2>3. Discoverability'
    BY <2>2 DEF Discoverability, IndexDiscoverable, AliasDiscoverable, RootDiscoverable
  <2> QED
    BY <2>1, <2>3
<1> QED
  BY <1>1, <1>2, PTL DEF Spec

-----------------------------------------------------------------------------
(***************************************************************************)
(* Who is let through, what a listing contains, and when a published       *)
(* version can change.                                                     *)
(***************************************************************************)

(***************************************************************************)
(* Where a handler goes in one step, its own or anybody's.                 *)
(***************************************************************************)

Stays(h) ==
    /\ pc'[h] = pc[h] /\ job'[h] = job[h] /\ scope'[h] = scope[h]
    /\ \/ todo'[h] = todo[h] /\ seen'[h] = seen[h]
       \/ \E s \in Slots : ReadDetail(h, s)

Advances(h) ==
    /\ job'[h] = job[h]
    /\ scope'[h] = scope[h] \/ pc'[h] = "root"
    /\ \/ ReserveJTI(h) /\ pc'[h] = "bind"
       \/ BindPackage(h) /\ pc'[h] = "validate"
       \/ pc[h] = "validate" /\ pc'[h] = "lookup"
       \/ FindFree(h) /\ pc'[h] = "put"
       \/ FindSame(h) /\ pc'[h] = "index" /\ SlotOf(job[h]) \in todo'[h]
       \/ PutDetail(h) /\ pc'[h] = "index" /\ SlotOf(job[h]) \in todo'[h]
       \/ PutPackageVersionsIndex(h) /\ pc'[h] = "alias"
       \/ PutLatestAlias(h) /\ pc'[h] = "root" /\ todo'[h] = Slots

Moves(h) ==
    \/ Stays(h)
    \/ pc'[h] = "idle"
    \/ pc'[h] = "reserve" /\ job'[h] \in Requests /\ scope'[h] = {job'[h].package}
    \/ Advances(h)

LEMMA FinishMoves ==
    ASSUME TypeOK, NEW w \in Writers, NEW result, NEW updated, Finish(w, result, updated)
    PROVE  \A g \in Handlers : Moves(g)
BY DEF Finish, Moves, Stays, TypeOK, LocalTypeOK, Writers

LEMMA HandlerStepMoves ==
    ASSUME TypeOK, NEW h \in Handlers, HandlerStep(h)
    PROVE  \A g \in Handlers : Moves(g)
<1> h \in Writers
  BY DEF Writers
<1>0. pc[h] # "idle" => SlotOf(job[h]) \in {s \in Slots : s[1] = job[h].package}
  BY RequestFields DEF SlotOf, TypeOK, LocalTypeOK
<1> USE DEF Goto, List, Moves, Stays, Advances, TypeOK, LocalTypeOK, Writers
<1>1. CASE ReserveJTI(h)
  BY <1>1 DEF ReserveJTI
<1>2. CASE BindPackage(h)
  BY <1>2 DEF BindPackage
<1>3. CASE FindFree(h)
  BY <1>3 DEF FindFree
<1>4. CASE DetectReplay(h) \/ DetectMismatch(h) \/ FindDifferent(h)
  BY <1>4, FinishMoves DEF DetectReplay, DetectMismatch, FindDifferent
<1>5. CASE Validate(h)
  BY <1>5, FinishMoves DEF Validate
<1>6. CASE FindSame(h)
  BY <1>6, <1>0 DEF FindSame
<1>7. CASE PutDetail(h)
  <2>1. CASE Fail(h, "INDEX_CONFLICT")
    BY <2>1, FinishMoves DEF Fail
  <2>2. CASE List(h, "index", {s \in Slots : s[1] = job[h].package})
    <3>1. pc[h] = "put" /\ job[h] \in Requests /\ h \in Writers
      BY <1>7 DEF PutDetail
    <3>2. \A g \in Handlers \ {h} : Stays(g)
      BY <2>2
    <3> QED
      BY <1>7, <1>0, <2>2, <3>1, <3>2
  <2> QED
    BY <1>7, <2>1, <2>2 DEF PutDetail
<1> QED
  BY <1>1, <1>2, <1>3, <1>4, <1>5, <1>6, <1>7 DEF HandlerStep

LEMMA SharedStepMoves ==
    ASSUME TypeOK, NEW w \in Writers, SharedStep(w)
    PROVE  \A g \in Handlers : Moves(g)
<1> USE DEF Moves, Stays, Advances, TypeOK, LocalTypeOK, Writers
<1>1. ASSUME NEW s \in Slots, ReadDetail(w, s)
      PROVE  \A g \in Handlers : Moves(g)
  BY <1>1 DEF ReadDetail
<1>2. CASE PutPackageVersionsIndex(w)
  <2>1. CASE Fail(w, "INDEX_CONFLICT")
    BY <2>1, FinishMoves DEF Fail
  <2>2. CASE /\ pc' = [pc EXCEPT ![w] = "alias"]
             /\ UNCHANGED <<job, todo, seen, scope>>
    BY <1>2, <2>2
  <2> QED
    BY <1>2, <2>1, <2>2 DEF PutPackageVersionsIndex
<1>3. CASE PutLatestAlias(w)
  <2>1. CASE Fail(w, "INDEX_CONFLICT")
    BY <2>1, FinishMoves DEF Fail
  <2>2. CASE AfterAlias(w)
    BY <1>3, <2>2, WritersAssumption DEF AfterAlias
  <2> QED
    BY <1>3, <2>1, <2>2 DEF PutLatestAlias
<1>4. CASE PutRootIndex(w)
  BY <1>4, FinishMoves DEF PutRootIndex, Fail
<1> QED
  BY <1>1, <1>2, <1>3, <1>4 DEF SharedStep

LEMMA NextMoves ==
    ASSUME TypeOK, [Next]_vars
    PROVE  \A g \in Handlers : Moves(g)
<1>1. ASSUME NEW h \in Handlers, NEW r \in Requests, Receive(h, r)
      PROVE  \A g \in Handlers : Moves(g)
  BY <1>1 DEF Receive, Moves, Stays, TypeOK, LocalTypeOK, Writers
<1>2. ASSUME NEW b \in Rebuilders, NEW p, StartRebuild(b, p)
      PROVE  \A g \in Handlers : Moves(g)
  BY <1>2, WritersAssumption DEF StartRebuild, Moves, Stays, TypeOK, LocalTypeOK, Writers
<1>3. ASSUME NEW b \in Rebuilders, Plan(b)
      PROVE  \A g \in Handlers : Moves(g)
  BY <1>3, FinishMoves, WritersAssumption DEF Plan, Moves, Stays, TypeOK, LocalTypeOK, Writers
<1>4. ASSUME NEW w \in Writers, StoreError(w)
      PROVE  \A g \in Handlers : Moves(g)
  BY <1>4, FinishMoves DEF StoreError, Fail
<1>5. CASE Crash
  BY <1>5 DEF Crash, Moves, TypeOK, LocalTypeOK, Writers
<1>6. CASE UNCHANGED vars
  BY <1>6 DEF vars, local, Moves, Stays
<1> QED
  BY <1>1, <1>2, <1>3, <1>4, <1>5, <1>6, HandlerStepMoves, SharedStepMoves DEF Next

-----------------------------------------------------------------------------
(***************************************************************************)
(* What a handler derives from.  Until a handler's own slot is read it is  *)
(* still to read, and the slot is published before any listing begins.     *)
(***************************************************************************)

LEMMA OwnVersionStep ==
    ASSUME TypeOK, OwnVersionPublished, [Next]_vars
    PROVE  OwnVersionPublished'
<1> SUFFICES ASSUME NEW h \in Handlers
             PROVE  /\ pc'[h] \in {"index", "alias", "root"} => Published(SlotOf(job[h]))'
                    /\ pc'[h] \in {"index", "root"} /\ SlotOf(job'[h]) \notin todo'[h] =>
                           \E d \in seen'[h] : SlotOf(d) = SlotOf(job'[h])
  BY DEF OwnVersionPublished
<1> h \in Writers
  BY DEF Writers
<1>0. pc[h] # "idle" => SlotOf(job[h]) \in Slots
  BY RequestFields DEF TypeOK, LocalTypeOK
<1>1. CASE Stays(h)
  <2>1. pc'[h] \in {"index", "alias", "root"} => Published(SlotOf(job[h]))'
    BY <1>0, <1>1, PublishedStays DEF Stays, OwnVersionPublished, Published
  <2>2. CASE todo'[h] = todo[h] /\ seen'[h] = seen[h]
    BY <1>1, <2>1, <2>2 DEF Stays, OwnVersionPublished
  <2>3. ASSUME NEW s \in Slots, ReadDetail(h, s),
               pc'[h] \in {"index", "root"}, SlotOf(job'[h]) \notin todo'[h]
        PROVE  \E d \in seen'[h] : SlotOf(d) = SlotOf(job'[h])
    <3>1. seen'[h] = seen[h] \cup ({details[s]} \ {None}) /\ todo'[h] = todo[h] \ {s}
      BY <2>3 DEF ReadDetail, TypeOK, LocalTypeOK
    <3>2. CASE s = SlotOf(job[h])
      <4>1. details[s] # None
        BY <1>1, <2>3, <3>2 DEF Stays, OwnVersionPublished, Published
      <4>2. SlotOf(details[s]) = s
        BY <4>1 DEF TypeOK, StoreTypeOK
      <4> QED
        BY <1>1, <3>1, <3>2, <4>1, <4>2 DEF Stays
    <3>3. CASE s # SlotOf(job[h])
      BY <1>1, <2>3, <3>1, <3>3 DEF Stays, OwnVersionPublished
    <3> QED
      BY <3>2, <3>3
  <2> QED
    BY <1>1, <2>1, <2>2, <2>3 DEF Stays
<1>2. CASE Advances(h)
  <2>1. CASE pc'[h] \in {"bind", "validate", "lookup", "put"}
    BY <2>1
  <2>2. CASE FindSame(h) /\ pc'[h] = "index" /\ SlotOf(job[h]) \in todo'[h]
    BY <1>0, <1>2, <2>2, PublishedStays DEF Advances, FindSame, Published
  <2>3. CASE PutDetail(h) /\ pc'[h] = "index" /\ SlotOf(job[h]) \in todo'[h]
    <3>1. job[h] \in Requests /\ SlotOf(job[h]) \in Slots
      BY <1>0, <2>3 DEF PutDetail, TypeOK, LocalTypeOK
    <3>2. PICK t \in Times :
            details' = [details EXCEPT ![SlotOf(job[h])] =
                [package |-> job[h].package, key |-> job[h].key,
                 content |-> job[h].content, publishedAt |-> t]]
      BY <2>3 DEF PutDetail
    <3>3. [package |-> job[h].package, key |-> job[h].key,
           content |-> job[h].content, publishedAt |-> t] \in VersionedPackageDetail
      BY <3>1, RequestFields DEF VersionedPackageDetail
    <3>4. Published(SlotOf(job[h]))'
      BY <1>2, <3>1, <3>2, <3>3, NoneAssumption DEF Advances, Published, TypeOK, StoreTypeOK
    <3> QED
      BY <1>2, <2>3, <3>4 DEF Advances
  <2>4. CASE PutPackageVersionsIndex(h) /\ pc'[h] = "alias"
    BY <1>0, <1>2, <2>4, PublishedStays
    DEF Advances, PutPackageVersionsIndex, OwnVersionPublished, Published
  <2>5. CASE PutLatestAlias(h) /\ pc'[h] = "root" /\ todo'[h] = Slots
    BY <1>0, <1>2, <2>5, PublishedStays
    DEF Advances, PutLatestAlias, OwnVersionPublished, Published
  <2> QED
    BY <1>2, <2>1, <2>2, <2>3, <2>4, <2>5 DEF Advances
<1> QED
  BY <1>1, <1>2, NextMoves DEF Moves

\* A handler derives documents only from listings that contain the version it was
\* asked to publish, whatever other writers do between its put and its listing.
THEOREM OwnVersionListedHolds == Spec => []OwnVersionListed
<1>1. Init => OwnVersionPublished
  BY DEF Init, OwnVersionPublished, Writers
<1>2. TypeOK /\ OwnVersionPublished /\ [Next]_vars => OwnVersionPublished'
  BY OwnVersionStep
<1>3. OwnVersionPublished => OwnVersionListed
  BY DEF OwnVersionPublished, OwnVersionListed
<1> QED
  BY <1>1, <1>2, <1>3, TypeCorrect, PTL DEF Spec

-----------------------------------------------------------------------------
(***************************************************************************)
(* The private state.                                                      *)
(***************************************************************************)

LEMMA PrivateSteps ==
    ASSUME [Next]_vars, StateDurable
    PROVE  /\ \/ usedJTI' = usedJTI /\ admissions' = admissions
              \/ \E h \in Handlers : ReserveJTI(h)
           /\ bindings' = bindings \/ \E h \in Handlers : BindPackage(h)
BY DEF Next, HandlerStep, SharedStep, Receive, ReserveJTI, DetectReplay, BindPackage,
       DetectMismatch, Validate, FindFree, FindSame, FindDifferent, PutDetail, StartRebuild,
       Plan, ReadDetail, PutPackageVersionsIndex, PutLatestAlias, PutRootIndex, StoreError,
       Crash, vars, private

\* With a durable private-state store a token is let through the replay check at
\* most once, however its requests interleave, fail, are repeated or are cut off.
THEOREM AdmittedAtMostOnceHolds == StateDurable => (Spec => []AdmittedAtMostOnce)
<1> SUFFICES ASSUME StateDurable
             PROVE  Spec => []AdmittedAtMostOnce
  OBVIOUS
<1> DEFINE Inv == AdmittedAreUsed /\ AdmittedAtMostOnce
<1>1. Init => Inv
  BY DEF Init, AdmittedAreUsed, AdmittedAtMostOnce
<1>2. TypeOK /\ Inv /\ [Next]_vars => Inv'
  <2> SUFFICES ASSUME TypeOK, Inv, [Next]_vars
               PROVE  Inv'
    OBVIOUS
  <2>1. CASE usedJTI' = usedJTI /\ admissions' = admissions
    BY <2>1 DEF AdmittedAreUsed, AdmittedAtMostOnce
  <2>2. ASSUME NEW h \in Handlers, ReserveJTI(h)
        PROVE  Inv'
    <3>1. admissions[job[h].jti] = 0 /\ job[h].jti \in JTIs
      BY <2>2, RequestFields
      DEF ReserveJTI, AdmittedAreUsed, TypeOK, LocalTypeOK, PrivateTypeOK
    <3> QED
      BY <2>2, <3>1
      DEF ReserveJTI, AdmittedAreUsed, AdmittedAtMostOnce, TypeOK, PrivateTypeOK
  <2> QED
    BY <2>1, <2>2, PrivateSteps
<1> QED
  BY <1>1, <1>2, TypeCorrect, PTL DEF Spec

\* A binding, once made, stays.
LEMMA BindingStays ==
    ASSUME TypeOK, [Next]_vars, StateDurable, NEW p \in Packages, bindings[p] # None
    PROVE  bindings'[p] = bindings[p]
<1>1. ASSUME NEW h \in Handlers, BindPackage(h)
      PROVE  bindings'[p] = bindings[p]
  BY <1>1 DEF BindPackage, TypeOK, PrivateTypeOK
<1> QED
  BY <1>1, PrivateSteps

LEMMA BoundWhileBusyStep ==
    ASSUME TypeOK, BoundWhileBusy, [Next]_vars, StateDurable
    PROVE  BoundWhileBusy'
<1> SUFFICES ASSUME NEW h \in Handlers, pc'[h] \in {"validate", "lookup", "put"}
             PROVE  bindings'[job'[h].package] = job'[h].repositoryId
  BY DEF BoundWhileBusy
<1> USE DEF TypeOK, LocalTypeOK
<1>1. CASE pc[h] \in {"validate", "lookup", "put"} /\ job'[h] = job[h]
  <2>1. job[h].package \in Packages /\ job[h].repositoryId # None
    BY <1>1, RequestFields, NoneAssumption
  <2> QED
    BY <1>1, <2>1, BindingStays DEF BoundWhileBusy
<1>2. CASE BindPackage(h) /\ job'[h] = job[h]
  <2>1. job[h].package \in Packages
    BY <1>2, RequestFields DEF BindPackage
  <2> QED
    BY <1>2, <2>1 DEF BindPackage, PrivateTypeOK
<1> QED
  BY <1>1, <1>2, NextMoves DEF Moves, Stays, Advances, FindFree

LEMMA PublishedByOwnerStep ==
    ASSUME TypeOK, BoundWhileBusy, PublishedByOwner, [Next]_vars, StateDurable
    PROVE  PublishedByOwner'
<1> SUFFICES ASSUME NEW s \in Slots, details'[s] # None
             PROVE  \E r \in Requests :
                        /\ SlotOf(r) = s
                        /\ r.content = details'[s].content
                        /\ r.repositoryId = bindings'[s[1]]
  BY DEF PublishedByOwner, Published
<1>1. CASE details'[s] = details[s]
  <2>1. PICK r \in Requests : /\ SlotOf(r) = s
                              /\ r.content = details[s].content
                              /\ r.repositoryId = bindings[s[1]]
    BY <1>1 DEF PublishedByOwner, Published
  <2>2. s[1] \in Packages /\ bindings[s[1]] # None
    BY <2>1, RequestFields, NoneAssumption DEF SlotOf
  <2> QED
    BY <1>1, <2>1, <2>2, BindingStays
<1>2. ASSUME NEW h \in Handlers, PutDetail(h), details'[s] # details[s]
      PROVE  \E r \in Requests :
                 /\ SlotOf(r) = s
                 /\ r.content = details'[s].content
                 /\ r.repositoryId = bindings'[s[1]]
  <2>1. job[h] \in Requests /\ bindings' = bindings
    BY <1>2 DEF PutDetail, private, TypeOK, LocalTypeOK
  <2>2. bindings[job[h].package] = job[h].repositoryId
    BY <1>2 DEF PutDetail, BoundWhileBusy
  <2>3. s = SlotOf(job[h]) /\ details'[s].content = job[h].content
    BY <1>2 DEF PutDetail, TypeOK, StoreTypeOK
  <2> QED
    BY <2>1, <2>2, <2>3 DEF SlotOf
<1> QED
  BY <1>1, <1>2, OnlyPutChangesDetails

\* With a durable private-state store a detail is published only for the repository
\* that its package is bound to.
THEOREM PublishedByOwnerHolds == StateDurable => (Spec => []PublishedByOwner)
<1> SUFFICES ASSUME StateDurable
             PROVE  Spec => []PublishedByOwner
  OBVIOUS
<1> DEFINE Inv == BoundWhileBusy /\ PublishedByOwner
<1>1. Init => Inv
  BY DEF Init, BoundWhileBusy, PublishedByOwner, Published, Writers
<1>2. TypeOK /\ Inv /\ [Next]_vars => Inv'
  BY BoundWhileBusyStep, PublishedByOwnerStep
<1> QED
  BY <1>1, <1>2, TypeCorrect, PTL DEF Spec

-----------------------------------------------------------------------------
(***************************************************************************)
(* Immutability, for a server that handles one request at a time: the slot *)
(* that the lookup found free is still free when the detail is put.        *)
(***************************************************************************)

FreeWhilePutting == \A h \in Handlers : pc[h] = "put" => ~Published(SlotOf(job[h]))

LEMMA FreeWhilePuttingStep ==
    ASSUME TypeOK, FreeWhilePutting, [Next]_vars, \A g, h \in Handlers : g = h
    PROVE  FreeWhilePutting'
<1> SUFFICES ASSUME NEW h \in Handlers, pc'[h] = "put"
             PROVE  details'[SlotOf(job'[h])] = None
  BY DEF FreeWhilePutting, Published
<1>1. ~PutDetail(h)
  BY DEF PutDetail, List, Fail, Finish, TypeOK, LocalTypeOK, Writers
<1>2. details' = details
  BY <1>1, OnlyPutChangesDetails
<1>3. CASE Stays(h)
  BY <1>2, <1>3 DEF Stays, FreeWhilePutting, Published
<1>4. CASE Advances(h)
  BY <1>2, <1>4 DEF Advances, FindFree
<1> QED
  BY <1>3, <1>4, NextMoves DEF Moves

\* While requests do not overlap, a published detail never changes again, whatever
\* rebuilders do, whatever fails, is sent again or is cut off by a crash.  The run
\* overwrite shows that two handlers suffice to break it.
THEOREM ImmutableWhenSequential == (\A g, h \in Handlers : g = h) => (Spec => ImmutableVersions)
<1> SUFFICES ASSUME \A g, h \in Handlers : g = h
             PROVE  Spec => ImmutableVersions
  OBVIOUS
<1>1. Init => FreeWhilePutting
  BY DEF Init, FreeWhilePutting, Writers
<1>2. TypeOK /\ FreeWhilePutting /\ [Next]_vars => FreeWhilePutting'
  BY FreeWhilePuttingStep
<1>3. TypeOK /\ FreeWhilePutting /\ [Next]_vars =>
          [\A s \in Slots : Published(s) => details'[s] = details[s]]_vars
  <2> SUFFICES ASSUME TypeOK, FreeWhilePutting, [Next]_vars, NEW s \in Slots, Published(s)
               PROVE  details'[s] = details[s]
    OBVIOUS
  <2>1. ASSUME NEW h \in Handlers, PutDetail(h)
        PROVE  details'[s] = details[s]
    BY <2>1 DEF PutDetail, FreeWhilePutting, TypeOK, StoreTypeOK
  <2> QED
    BY <2>1, OnlyPutChangesDetails
<1> QED
  BY <1>1, <1>2, <1>3, TypeCorrect, PTL DEF Spec, ImmutableVersions

-----------------------------------------------------------------------------
(***************************************************************************)
(* No writer builds a versions index from an empty list of details.        *)
(***************************************************************************)

\* A handler writes the documents of its own package; a rebuilder those of packages
\* that its one listing has details of.
ScopeHasDetails ==
    /\ \A h \in Handlers : pc[h] \notin {"idle", "root"} => scope[h] = {job[h].package}
    /\ \A b \in Rebuilders :
        /\ pc[b] \in {"index", "alias"} =>
               todo[b] = {} /\ \A p \in scope[b] : DetailsIn(seen[b], p) # {}
        /\ pc[b] = "index" => scope[b] # {}

\* Where a rebuilder goes in one step, its own or anybody's.
RebuilderMoves(b) ==
    \/ Stays(b)
    \/ pc'[b] \in {"idle", "plan", "root"}
    \/ /\ todo'[b] = todo[b] /\ seen'[b] = seen[b]
       /\ \/ Plan(b) /\ pc'[b] = "index"
          \/ PutPackageVersionsIndex(b) /\ pc'[b] = "alias" /\ scope'[b] = scope[b]
          \/ /\ PutLatestAlias(b) /\ pc'[b] = "index"
             /\ scope'[b] \subseteq scope[b] /\ scope'[b] # {}

LEMMA FinishRebuilderMoves ==
    ASSUME TypeOK, NEW w \in Writers, NEW result, NEW updated, Finish(w, result, updated)
    PROVE  \A b \in Rebuilders : RebuilderMoves(b)
BY DEF Finish, RebuilderMoves, Stays, TypeOK, LocalTypeOK, Writers

LEMMA HandlerStepRebuilderMoves ==
    ASSUME TypeOK, NEW h \in Handlers, HandlerStep(h)
    PROVE  \A b \in Rebuilders : RebuilderMoves(b)
<1>1. h \in Writers /\ \A b \in Rebuilders : b # h
  BY WritersAssumption DEF Writers
<1>2. CASE \E step, slots : Goto(h, step) \/ List(h, step, slots)
  BY <1>1, <1>2 DEF Goto, List, RebuilderMoves, Stays, TypeOK, LocalTypeOK, Writers
<1>3. CASE \E result, updated : Finish(h, result, updated)
  BY <1>1, <1>3, FinishRebuilderMoves
<1>4. \/ \E step, slots : Goto(h, step) \/ List(h, step, slots)
      \/ \E result, updated : Finish(h, result, updated)
  BY DEF HandlerStep, ReserveJTI, DetectReplay, BindPackage, DetectMismatch, Validate,
         FindFree, FindSame, FindDifferent, PutDetail, Fail
<1> QED
  BY <1>2, <1>3, <1>4

LEMMA SharedStepRebuilderMoves ==
    ASSUME TypeOK, NEW w \in Writers, SharedStep(w)
    PROVE  \A b \in Rebuilders : RebuilderMoves(b)
<1> USE DEF RebuilderMoves, Stays, TypeOK, LocalTypeOK, Writers
<1>1. ASSUME NEW s \in Slots, ReadDetail(w, s)
      PROVE  \A b \in Rebuilders : RebuilderMoves(b)
  BY <1>1 DEF ReadDetail
<1>2. CASE PutPackageVersionsIndex(w)
  <2>1. CASE Fail(w, "INDEX_CONFLICT")
    BY <2>1, FinishRebuilderMoves DEF Fail
  <2>2. CASE /\ pc' = [pc EXCEPT ![w] = "alias"]
             /\ UNCHANGED <<job, todo, seen, scope>>
    BY <1>2, <2>2
  <2> QED
    BY <1>2, <2>1, <2>2 DEF PutPackageVersionsIndex
<1>3. CASE PutLatestAlias(w)
  <2>1. CASE Fail(w, "INDEX_CONFLICT")
    BY <2>1, FinishRebuilderMoves DEF Fail
  <2>2. CASE AfterAlias(w)
    BY <1>3, <2>2, WritersAssumption DEF AfterAlias
  <2> QED
    BY <1>3, <2>1, <2>2 DEF PutLatestAlias
<1>4. CASE PutRootIndex(w)
  BY <1>4, FinishRebuilderMoves DEF PutRootIndex, Fail
<1> QED
  BY <1>1, <1>2, <1>3, <1>4 DEF SharedStep

LEMMA NextRebuilderMoves ==
    ASSUME TypeOK, [Next]_vars
    PROVE  \A b \in Rebuilders : RebuilderMoves(b)
<1>1. ASSUME NEW h \in Handlers, NEW r \in Requests, Receive(h, r)
      PROVE  \A b \in Rebuilders : RebuilderMoves(b)
  BY <1>1, WritersAssumption
  DEF Receive, RebuilderMoves, Stays, TypeOK, LocalTypeOK, Writers
<1>2. ASSUME NEW b \in Rebuilders, NEW p, StartRebuild(b, p)
      PROVE  \A c \in Rebuilders : RebuilderMoves(c)
  BY <1>2 DEF StartRebuild, RebuilderMoves, Stays, TypeOK, LocalTypeOK, Writers
<1>3. ASSUME NEW b \in Rebuilders, Plan(b)
      PROVE  \A c \in Rebuilders : RebuilderMoves(c)
  BY <1>3, FinishRebuilderMoves
  DEF Plan, RebuilderMoves, Stays, TypeOK, LocalTypeOK, Writers
<1>4. ASSUME NEW w \in Writers, StoreError(w)
      PROVE  \A b \in Rebuilders : RebuilderMoves(b)
  BY <1>4, FinishRebuilderMoves DEF StoreError, Fail
<1>5. CASE Crash
  BY <1>5, WritersAssumption DEF Crash, RebuilderMoves, Stays, TypeOK, LocalTypeOK, Writers
<1>6. CASE UNCHANGED vars
  BY <1>6 DEF vars, local, RebuilderMoves, Stays
<1> QED
  BY <1>1, <1>2, <1>3, <1>4, <1>5, <1>6, HandlerStepRebuilderMoves, SharedStepRebuilderMoves
  DEF Next

LEMMA ScopeHasDetailsStep ==
    ASSUME TypeOK, ScopeHasDetails, [Next]_vars
    PROVE  ScopeHasDetails'
<1>1. ASSUME NEW h \in Handlers, pc'[h] \notin {"idle", "root"}
      PROVE  scope'[h] = {job'[h].package}
  BY <1>1, NextMoves
  DEF Moves, Stays, Advances, ScopeHasDetails, ReserveJTI, BindPackage, FindFree, FindSame,
      PutDetail, PutPackageVersionsIndex
<1>2. ASSUME NEW b \in Rebuilders, pc'[b] \in {"index", "alias"}
      PROVE  /\ todo'[b] = {}
             /\ \A p \in scope'[b] : DetailsIn(seen'[b], p) # {}
             /\ pc'[b] = "index" => scope'[b] # {}
  <2>1. CASE Stays(b)
    BY <1>2, <2>1 DEF Stays, ReadDetail, ScopeHasDetails
  <2>2. CASE Plan(b) /\ pc'[b] = "index" /\ todo'[b] = todo[b] /\ seen'[b] = seen[b]
    <3> DEFINE listed == {d.package : d \in seen[b]}
    <3>1. ~Finish(b, "INTERNAL_ERROR", FALSE)
      BY <2>2 DEF Finish, TypeOK, LocalTypeOK, Writers
    <3>2. /\ todo[b] = {}
          /\ job[b] \in listed \cup {None}
          /\ scope'[b] = IF job[b] = None THEN listed ELSE {job[b]}
          /\ pc'[b] = IF listed = {} THEN "root" ELSE "index"
      BY <2>2, <3>1 DEF Plan, TypeOK, LocalTypeOK, Writers
    <3>3. listed # {} /\ scope'[b] \subseteq listed /\ scope'[b] # {}
      BY <2>2, <3>2
    <3>4. \A p \in listed : DetailsIn(seen[b], p) # {}
      BY DEF DetailsIn
    <3> QED
      BY <2>2, <3>2, <3>3, <3>4
  <2>3. CASE PutPackageVersionsIndex(b) \/ PutLatestAlias(b)
    BY <1>2, <2>3, NextRebuilderMoves
    DEF RebuilderMoves, Stays, ReadDetail, Plan, ScopeHasDetails, PutPackageVersionsIndex,
        PutLatestAlias
  <2> QED
    BY <1>2, <2>1, <2>2, <2>3, NextRebuilderMoves DEF RebuilderMoves
<1> QED
  BY <1>1, <1>2 DEF ScopeHasDetails

\* BuildPackageVersionsIndex, which takes the first of the details it is given, is
\* never given none, by a handler or by a rebuilder.
THEOREM NeverIndexesNothingHolds == Spec => []NeverIndexesNothing
<1>1. Init => ScopeHasDetails
  BY DEF Init, ScopeHasDetails, Writers
<1>2. TypeOK /\ ScopeHasDetails /\ [Next]_vars => ScopeHasDetails'
  BY ScopeHasDetailsStep
<1>3. TypeOK /\ ScopeHasDetails /\ OwnVersionListed => NeverIndexesNothing
  <2> SUFFICES ASSUME TypeOK, ScopeHasDetails, OwnVersionListed,
                      NEW w \in Writers, pc[w] = "index", todo[w] = {}
               PROVE  scope[w] # {} /\ \A p \in scope[w] : DetailsIn(seen[w], p) # {}
    BY DEF NeverIndexesNothing
  <2>1. CASE w \in Handlers
    <3>1. scope[w] = {job[w].package}
      BY <2>1 DEF ScopeHasDetails
    <3>2. PICK d \in seen[w] : SlotOf(d) = SlotOf(job[w])
      BY <2>1 DEF OwnVersionListed
    <3>3. d \in DetailsIn(seen[w], job[w].package)
      BY <3>2 DEF SlotOf, DetailsIn
    <3> QED
      BY <3>1, <3>3
  <2>2. CASE w \in Rebuilders
    BY <2>2 DEF ScopeHasDetails
  <2> QED
    BY <2>1, <2>2 DEF Writers
<1> QED
  BY <1>1, <1>2, <1>3, TypeCorrect, OwnVersionListedHolds, PTL DEF Spec
-----------------------------------------------------------------------------
(***************************************************************************)
(* One request at a time, with no rebuilder beside it: Publication         *)
(* implements Registry, and an update answered 200 leaves every document   *)
(* of its package and the root index derived from what is published.       *)
(***************************************************************************)

OneAtATime == Rebuilders = {} /\ \A g, h \in Handlers : g = h

(***************************************************************************)
(* The inductive invariant.  A listing holds exactly what is published     *)
(* under the slots it has read; from the first document that a handler     *)
(* writes on, the documents written are those of what is published.        *)
(***************************************************************************)

ListedSlots(h) == IF pc[h] = "index" THEN {s \in Slots : s[1] = job[h].package} ELSE Slots

ListingExact ==
    \A h \in Handlers : pc[h] \in {"index", "root"} =>
        /\ todo[h] \subseteq ListedSlots(h)
        /\ seen[h] = {details[s] : s \in ListedSlots(h) \ todo[h]} \ {None}

Heads(d, p) ==
    /\ d \in Latests(DetailsIn(Reg!Stored, p))
    /\ packageIndex[p] = IndexOf(DetailsIn(Reg!Stored, p), d)

DocumentsFollow ==
    \A h \in Handlers :
        /\ pc[h] \in {"alias", "root"} => Heads(latest[h], job[h].package)
        /\ pc[h] = "root" => latestAlias[job[h].package] = latest[h]

LEMMA LoneWriter ==
    ASSUME OneAtATime, NEW h \in Handlers
    PROVE  Writers = {h}
BY DEF OneAtATime, Writers

LEMMA LoneStep ==
    ASSUME OneAtATime, NEW h \in Handlers, [Next]_vars
    PROVE  \/ UNCHANGED vars
           \/ \E r \in Requests : Receive(h, r)
           \/ HandlerStep(h)
           \/ SharedStep(h)
           \/ StoreError(h)
           \/ Crash
<1>1. Handlers = {h} /\ Rebuilders = {} /\ Writers = {h}
  BY DEF OneAtATime, Writers
<1> QED
  BY <1>1 DEF Next

\* Only the put moves a version in; a handler that stays where it is has not put.
LEMMA DetailsStay ==
    ASSUME TypeOK, OneAtATime, NEW h \in Handlers, [Next]_vars, ~PutDetail(h)
    PROVE  details' = details
BY OnlyPutChangesDetails DEF OneAtATime

LEMMA PutMovesOn ==
    ASSUME TypeOK, NEW h \in Handlers, PutDetail(h)
    PROVE  pc'[h] \in {"idle", "index"} /\ pc'[h] # pc[h]
BY DEF PutDetail, List, Fail, Finish, TypeOK, LocalTypeOK, Writers

-----------------------------------------------------------------------------
(* Listings.                                                               *)

LEMMA ListingExactStep ==
    ASSUME TypeOK, OneAtATime, ListingExact, [Next]_vars
    PROVE  ListingExact'
<1> SUFFICES ASSUME NEW h \in Handlers, pc'[h] \in {"index", "root"}
             PROVE  /\ todo'[h] \subseteq ListedSlots(h)'
                    /\ seen'[h] = {details'[s] : s \in ListedSlots(h)' \ todo'[h]} \ {None}
  BY DEF ListingExact
<1> h \in Writers
  BY DEF Writers
<1>1. CASE Stays(h)
  <2>1. details' = details
    BY <1>1, DetailsStay, PutMovesOn DEF Stays
  <2>2. ListedSlots(h)' = ListedSlots(h)
    BY <1>1 DEF Stays, ListedSlots
  <2>3. todo[h] \subseteq ListedSlots(h)
        /\ seen[h] = {details[s] : s \in ListedSlots(h) \ todo[h]} \ {None}
    BY <1>1 DEF Stays, ListingExact
  <2>4. CASE todo'[h] = todo[h] /\ seen'[h] = seen[h]
    BY <2>1, <2>2, <2>3, <2>4
  <2>5. ASSUME NEW s \in Slots, ReadDetail(h, s)
        PROVE  /\ todo'[h] \subseteq ListedSlots(h)
               /\ seen'[h] = {details[x] : x \in ListedSlots(h) \ todo'[h]} \ {None}
    <3>1. todo'[h] = todo[h] \ {s} /\ s \in todo[h]
      BY <2>5 DEF ReadDetail, TypeOK, LocalTypeOK
    <3>2. seen'[h] = seen[h] \cup ({details[s]} \ {None})
      BY <2>5 DEF ReadDetail, TypeOK, LocalTypeOK
    <3>3. ListedSlots(h) \ todo'[h] = (ListedSlots(h) \ todo[h]) \cup {s}
      BY <2>3, <3>1
    <3> QED
      BY <2>3, <3>1, <3>2, <3>3
  <2> QED
    BY <1>1, <2>1, <2>2, <2>4, <2>5 DEF Stays
<1>2. CASE Advances(h)
  <2>1. CASE pc'[h] = "index"
    <3>1. List(h, "index", {s \in Slots : s[1] = job[h].package}) /\ job' = job
      <4>1. CASE FindSame(h)
        BY <4>1 DEF FindSame, List
      <4>2. CASE PutDetail(h)
        <5>1. ~Finish(h, "INDEX_CONFLICT", FALSE)
          BY <2>1 DEF Finish, TypeOK, LocalTypeOK
        <5> QED
          BY <4>2, <5>1 DEF PutDetail, Fail, List
      <4> QED
        BY <1>2, <2>1, <4>1, <4>2 DEF Advances
    <3>2. todo'[h] = {s \in Slots : s[1] = job[h].package} /\ seen'[h] = {}
      BY <3>1 DEF List, TypeOK, LocalTypeOK
    <3>3. ListedSlots(h)' = {s \in Slots : s[1] = job[h].package}
      BY <2>1, <3>1 DEF ListedSlots
    <3> QED
      BY <3>2, <3>3
  <2>2. CASE pc'[h] = "root"
    <3>1. PutLatestAlias(h) /\ todo'[h] = Slots
      BY <1>2, <2>2 DEF Advances
    <3>2. ~Finish(h, "INDEX_CONFLICT", FALSE)
      BY <2>2 DEF Finish, TypeOK, LocalTypeOK
    <3>3. AfterAlias(h) /\ h \notin Rebuilders
      BY <3>1, <3>2 DEF PutLatestAlias, Fail, OneAtATime
    <3>4. seen'[h] = {}
      BY <3>3 DEF AfterAlias, TypeOK, LocalTypeOK
    <3>5. ListedSlots(h)' = Slots
      BY <2>2 DEF ListedSlots
    <3> QED
      BY <3>1, <3>4, <3>5
  <2> QED
    BY <2>1, <2>2
<1> QED
  BY <1>1, <1>2, NextMoves DEF Moves

\* A finished listing of a package holds its published details, and no others.
LEMMA ListedPackage ==
    ASSUME TypeOK, ListingExact, NEW h \in Handlers, pc[h] = "index", todo[h] = {}
    PROVE  DetailsIn(seen[h], job[h].package) = DetailsIn(Reg!Stored, job[h].package)
<1>1. seen[h] = {details[s] : s \in {x \in Slots : x[1] = job[h].package}} \ {None}
  BY DEF ListingExact, ListedSlots
<1>2. \A s \in Slots : details[s] # None => details[s].package = s[1]
  BY DEF TypeOK, StoreTypeOK, SlotOf
<1> QED
  BY <1>1, <1>2 DEF DetailsIn, Reg!Stored

LEMMA ListedRoot ==
    ASSUME ListingExact, NEW h \in Handlers, pc[h] = "root", todo[h] = {}
    PROVE  seen[h] = Reg!Stored
BY DEF ListingExact, ListedSlots, Reg!Stored

-----------------------------------------------------------------------------
(* Documents.                                                              *)

\* The step that writes the index writes that of the published details.
LEMMA IndexWritten ==
    ASSUME TypeOK, ListingExact, ScopeHasDetails, NEW h \in Handlers,
           PutPackageVersionsIndex(h)
    PROVE  \E d \in Latests(DetailsIn(Reg!Stored, job[h].package)) :
             /\ packageIndex' = [packageIndex EXCEPT ![job[h].package] =
                    IndexOf(DetailsIn(Reg!Stored, job[h].package), d)]
             /\ pc'[h] # "idle" => pc'[h] = "alias" /\ job' = job /\ latest'[h] = d
<1>1. h \in Writers /\ pc[h] = "index" /\ todo[h] = {}
  BY DEF PutPackageVersionsIndex, Writers
<1>2. scope[h] = {job[h].package}
  BY <1>1 DEF ScopeHasDetails
<1>3. DetailsIn(seen[h], job[h].package) = DetailsIn(Reg!Stored, job[h].package)
  BY <1>1, ListedPackage
<1>4. PICK p \in scope[h] : \E d \in Latests(DetailsIn(seen[h], p)) :
        /\ packageIndex' = [packageIndex EXCEPT ![p] = IndexOf(DetailsIn(seen[h], p), d)]
        /\ \/ /\ pc' = [pc EXCEPT ![h] = "alias"]
              /\ latest' = [latest EXCEPT ![h] = d]
              /\ UNCHANGED <<job, todo, seen, scope, reply, faults>>
           \/ Fail(h, "INDEX_CONFLICT")
  BY DEF PutPackageVersionsIndex
<1>5. p = job[h].package
  BY <1>2, <1>4
<1>6. Fail(h, "INDEX_CONFLICT") => pc'[h] = "idle"
  BY <1>1 DEF Fail, Finish, TypeOK, LocalTypeOK
<1>7. PICK d \in Latests(DetailsIn(Reg!Stored, job[h].package)) :
        /\ packageIndex' = [packageIndex EXCEPT ![job[h].package] =
                IndexOf(DetailsIn(Reg!Stored, job[h].package), d)]
        /\ \/ /\ pc' = [pc EXCEPT ![h] = "alias"]
              /\ latest' = [latest EXCEPT ![h] = d]
              /\ UNCHANGED <<job, todo, seen, scope, reply, faults>>
           \/ Fail(h, "INDEX_CONFLICT")
  BY <1>3, <1>4, <1>5
<1> QED
  BY <1>1, <1>6, <1>7 DEF TypeOK, LocalTypeOK

\* Everything but the writes of documents leaves a handler elsewhere.
LEMMA WritesAside ==
    ASSUME TypeOK, NEW h \in Handlers,
           \/ \E r \in Requests : Receive(h, r)
           \/ HandlerStep(h)
           \/ PutRootIndex(h)
           \/ StoreError(h)
           \/ Crash
    PROVE  pc'[h] \notin {"alias", "root"}
<1> h \in Writers
  BY DEF Writers
<1>1. ASSUME NEW result, NEW updated, Finish(h, result, updated)
      PROVE  pc'[h] = "idle"
  BY <1>1 DEF Finish, TypeOK, LocalTypeOK
<1>2. CASE \E r \in Requests : Receive(h, r)
  BY <1>2 DEF Receive, TypeOK, LocalTypeOK
<1>3. CASE PutRootIndex(h) \/ StoreError(h)
  BY <1>1, <1>3 DEF PutRootIndex, StoreError, Fail
<1>4. CASE Crash
  BY <1>4 DEF Crash
<1>5. CASE HandlerStep(h)
  <2>1. \/ \E result, updated : Finish(h, result, updated)
        \/ \E step \in Steps \ {"alias", "root"} : Goto(h, step) \/ \E slots : List(h, step, slots)
    BY <1>5 DEF HandlerStep, ReserveJTI, DetectReplay, BindPackage, DetectMismatch, Validate,
         FindFree, FindSame, FindDifferent, PutDetail, Fail, Steps
  <2> QED
    BY <1>1, <2>1 DEF Goto, List, TypeOK, LocalTypeOK
<1> QED
  BY <1>2, <1>3, <1>4, <1>5

LEMMA DocumentsFollowStep ==
    ASSUME TypeOK, OneAtATime, ListingExact, ScopeHasDetails, DocumentsFollow, [Next]_vars
    PROVE  DocumentsFollow'
<1> SUFFICES ASSUME NEW h \in Handlers, pc'[h] \in {"alias", "root"}
             PROVE  /\ Heads(latest[h], job[h].package)'
                    /\ pc'[h] = "root" => latestAlias'[job'[h].package] = latest'[h]
  BY DEF DocumentsFollow
<1> h \in Writers
  BY DEF Writers
<1>1. details' = details /\ Reg!Stored' = Reg!Stored
  BY DetailsStay, PutMovesOn DEF Reg!Stored
<1>2. CASE UNCHANGED <<packageIndex, latestAlias, pc, job, latest>>
  BY <1>1, <1>2 DEF DocumentsFollow, Heads
<1>3. CASE PutPackageVersionsIndex(h)
  <2>1. PICK d \in Latests(DetailsIn(Reg!Stored, job[h].package)) :
          /\ packageIndex' = [packageIndex EXCEPT ![job[h].package] =
                 IndexOf(DetailsIn(Reg!Stored, job[h].package), d)]
          /\ pc'[h] # "idle" => pc'[h] = "alias" /\ job' = job /\ latest'[h] = d
    BY <1>3, IndexWritten
  <2>2. job[h].package \in Packages
    BY <1>3, RequestFields DEF PutPackageVersionsIndex, TypeOK, LocalTypeOK
  <2> QED
    BY <1>1, <2>1, <2>2 DEF Heads, TypeOK, StoreTypeOK
<1>4. CASE PutLatestAlias(h)
  <2>1. ~Finish(h, "INDEX_CONFLICT", FALSE)
    BY DEF Finish, TypeOK, LocalTypeOK
  <2>2. AfterAlias(h)
    BY <1>4, <2>1 DEF PutLatestAlias, Fail
  <2>3. pc[h] = "alias" /\ Heads(latest[h], job[h].package)
    BY <1>4 DEF PutLatestAlias, DocumentsFollow
  <2>4. latest[h].package = job[h].package /\ job[h].package \in Packages
    BY <2>3, RequestFields DEF Heads, Latests, DetailsIn, TypeOK, LocalTypeOK
  <2>5. packageIndex' = packageIndex /\ job' = job /\ latest' = latest
    BY <1>4, <2>2 DEF PutLatestAlias, AfterAlias
  <2>6. latestAlias'[job[h].package] = latest[h]
    BY <1>4, <2>4 DEF PutLatestAlias, TypeOK, StoreTypeOK
  <2> QED
    BY <1>1, <2>3, <2>5, <2>6 DEF Heads
<1> QED
  BY <1>2, <1>3, <1>4, LoneStep, WritesAside DEF SharedStep, ReadDetail, vars, store, local

-----------------------------------------------------------------------------
(* Success.                                                                *)

\* The step that answers 200 writes the root index of what is published.
LEMMA RootWritten ==
    ASSUME ListingExact, NEW h \in Handlers, PutRootIndex(h)
    PROVE  rootIndex' \in RootIndexes(Packages, Reg!Stored)
BY ListedRoot DEF PutRootIndex

\* Which steps leave a handler idle with an answer of 200.
LEMMA Succeeds ==
    ASSUME TypeOK, OneAtATime, NEW h \in Handlers, [Next]_vars,
           pc'[h] = "idle", reply'[h] # None, reply'[h].result = "OK"
    PROVE  \/ /\ pc[h] = "idle" /\ reply'[h] = reply[h]
              /\ UNCHANGED store
           \/ /\ PutRootIndex(h)
              /\ reply'[h] = [request |-> job[h], result |-> "OK",
                              updated |-> (latest[h].key = job[h].key)]
<1> h \in Writers
  BY DEF Writers
<1>0. ASSUME NEW result, NEW updated, Finish(h, result, updated)
      PROVE  reply'[h] = [request |-> job[h], result |-> result, updated |-> updated]
  BY <1>0 DEF Finish, TypeOK, LocalTypeOK
<1>f. ASSUME NEW result \in Results \ {"OK"}
      PROVE  ~Finish(h, result, FALSE)
  <2>1. Finish(h, result, FALSE) => reply'[h].result = result
    BY DEF Finish, TypeOK, LocalTypeOK
  <2> QED
    BY <1>f, <2>1
<1>1. CASE UNCHANGED vars
  BY <1>1 DEF vars, local
<1>2. CASE \E r \in Requests : Receive(h, r)
  BY <1>2 DEF Receive, TypeOK, LocalTypeOK
<1>3. CASE Crash
  BY <1>3 DEF Crash, TypeOK, LocalTypeOK
<1>4. CASE HandlerStep(h)
  <2>1. \/ \E result \in Results \ {"OK"} : Finish(h, result, FALSE)
        \/ \E step \in Steps \ {"idle"} : Goto(h, step) \/ \E slots : List(h, step, slots)
    BY <1>4 DEF HandlerStep, ReserveJTI, DetectReplay, BindPackage, DetectMismatch, Validate,
         FindFree, FindSame, FindDifferent, PutDetail, Fail, Steps, Results
  <2> QED
    BY <1>f, <2>1 DEF Goto, List, TypeOK, LocalTypeOK, Steps
<1>5. CASE StoreError(h)
  BY <1>5, <1>f DEF StoreError, Fail, Results
<1>6. CASE SharedStep(h) /\ ~PutRootIndex(h)
  <2>1. ~Fail(h, "INDEX_CONFLICT")
    BY <1>f DEF Fail, Results
  <2>2. CASE \E s \in Slots : ReadDetail(h, s)
    BY <2>2 DEF ReadDetail, TypeOK, LocalTypeOK
  <2>3. CASE PutPackageVersionsIndex(h)
    BY <2>1, <2>3 DEF PutPackageVersionsIndex, TypeOK, LocalTypeOK
  <2>4. CASE PutLatestAlias(h)
    <3>1. AfterAlias(h)
      BY <2>1, <2>4 DEF PutLatestAlias
    <3>2. pc'[h] = "root"
      BY <3>1 DEF AfterAlias, OneAtATime, TypeOK, LocalTypeOK
    <3> QED
      BY <3>2
  <2> QED
    BY <1>6, <2>2, <2>3, <2>4 DEF SharedStep
<1>7. CASE PutRootIndex(h)
  <2>1. ~Fail(h, "INDEX_CONFLICT")
    BY <1>f DEF Fail, Results
  <2>2. Finish(h, "OK", h \in Handlers /\ latest[h].key = job[h].key)
    BY <1>7, <2>1 DEF PutRootIndex
  <2>3. reply'[h] = [request |-> job[h], result |-> "OK",
                     updated |-> (h \in Handlers /\ latest[h].key = job[h].key)]
    BY <1>0, <2>2
  <2>4. (h \in Handlers /\ latest[h].key = job[h].key) = (latest[h].key = job[h].key)
    OBVIOUS
  <2> QED
    BY <1>7, <2>3, <2>4
<1> QED
  BY <1>1, <1>2, <1>3, <1>4, <1>5, <1>6, <1>7, LoneStep

LEMMA SuccessMeansCurrentStep ==
    ASSUME TypeOK, OneAtATime, ListingExact, DocumentsFollow, SuccessMeansCurrent, [Next]_vars
    PROVE  SuccessMeansCurrent'
<1> SUFFICES ASSUME NEW h \in Handlers,
                    pc'[h] = "idle", reply'[h] # None, reply'[h].result = "OK"
             PROVE  /\ PackageCurrent(reply[h].request.package)'
                    /\ RootCurrent'
                    /\ reply'[h].updated <=>
                         latestAlias'[reply'[h].request.package].key = reply'[h].request.key
  BY DEF SuccessMeansCurrent
<1>1. CASE pc[h] = "idle" /\ reply'[h] = reply[h] /\ UNCHANGED store
  BY <1>1 DEF SuccessMeansCurrent, PackageCurrent, RootCurrent, Reg!Stored, store
<1>2. CASE /\ PutRootIndex(h)
           /\ reply'[h] = [request |-> job[h], result |-> "OK",
                           updated |-> (latest[h].key = job[h].key)]
  <2>1. /\ Heads(latest[h], job[h].package)
        /\ latestAlias[job[h].package] = latest[h]
    BY <1>2 DEF PutRootIndex, DocumentsFollow
  <2>2. UNCHANGED <<details, packageIndex, latestAlias>> /\ Reg!Stored' = Reg!Stored
    BY <1>2 DEF PutRootIndex, Reg!Stored
  <2>3. RootCurrent'
    BY <1>2, <2>2, RootWritten DEF RootCurrent
  <2>4. reply'[h].request = job[h] /\ reply'[h].updated = (latest[h].key = job[h].key)
    BY <1>2
  <2>5. PackageCurrent(reply[h].request.package)'
    BY <2>1, <2>2, <2>4 DEF PackageCurrent, Heads
  <2>6. reply'[h].updated <=>
            latestAlias'[reply'[h].request.package].key = reply'[h].request.key
    BY <2>1, <2>2, <2>4
  <2> QED
    BY <2>3, <2>5, <2>6
<1> QED
  BY <1>1, <1>2, Succeeds

SerialSound == ScopeHasDetails /\ FreeWhilePutting /\ ListingExact /\ DocumentsFollow

LEMMA SerialSoundHolds == OneAtATime => (Spec => []SerialSound)
<1> SUFFICES ASSUME OneAtATime
             PROVE  Spec => []SerialSound
  OBVIOUS
<1>1. Init => SerialSound
  BY DEF Init, SerialSound, ScopeHasDetails, FreeWhilePutting, ListingExact, DocumentsFollow, Writers
<1>2. TypeOK /\ SerialSound /\ [Next]_vars => SerialSound'
  BY ScopeHasDetailsStep, FreeWhilePuttingStep, ListingExactStep, DocumentsFollowStep
  DEF SerialSound, OneAtATime
<1> QED
  BY <1>1, <1>2, TypeCorrect, PTL DEF Spec

\* While requests do not overlap, with each other or with a rebuild, a handler that
\* has answered 200 leaves the package's index and alias and the root index derived
\* from exactly what is published, and says rightly whether the alias is its version.
THEOREM SuccessMeansCurrentHolds == OneAtATime => (Spec => []SuccessMeansCurrent)
<1> SUFFICES ASSUME OneAtATime
             PROVE  Spec => []SuccessMeansCurrent
  OBVIOUS
<1>1. Init => SuccessMeansCurrent
  BY DEF Init, SuccessMeansCurrent
<1>2. TypeOK /\ SerialSound /\ SuccessMeansCurrent /\ [Next]_vars => SuccessMeansCurrent'
  BY SuccessMeansCurrentStep DEF SerialSound
<1> QED
  BY <1>1, <1>2, TypeCorrect, SerialSoundHolds, PTL DEF Spec

\* What may head either document is neither newer nor older than what heads the other.
LEMMA LatestsTie ==
    ASSUME NEW S \in SUBSET VersionedPackageDetail, NEW d \in Latests(S), NEW e \in Latests(S)
    PROVE  Rank[d.key] = Rank[e.key] /\ d.publishedAt = e.publishedAt
<1>1. d \in S /\ e \in S /\ ~Newer(d, e) /\ ~Newer(e, d)
  BY DEF Latests
<1>2. /\ Rank[d.key] \in Nat /\ Rank[e.key] \in Nat
      /\ d.publishedAt \in Nat /\ e.publishedAt \in Nat
  BY <1>1, OrderAssumption DEF VersionedPackageDetail
<1> QED
  BY <1>1, <1>2 DEF Newer

LEMMA CurrentHeadsTie ==
    ASSUME TypeOK, NEW p \in Packages, PackageCurrent(p), RootCurrent
    PROVE  \E v \in packageIndex[p].versions :
             /\ v.key = packageIndex[p].latest
             /\ Rank[v.key] = Rank[rootIndex[p].key]
             /\ v.publishedAt = rootIndex[p].publishedAt
<1> DEFINE S == DetailsIn(Reg!Stored, p)
<1>1. PICK d \in Latests(S) : packageIndex[p] = IndexOf(S, d)
  BY DEF PackageCurrent
<1>2. d \in S
  BY <1>1 DEF Latests
<1>3. S \in SUBSET VersionedPackageDetail
  BY DEF DetailsIn, Reg!Stored, TypeOK, StoreTypeOK
<1>4. PICK e \in FirstLatests(S) : rootIndex[p] = Record(e)
  BY <1>2 DEF RootCurrent, RootIndexes
<1>5. e \in Latests(S)
  BY <1>4 DEF FirstLatests
<1>6. Rank[d.key] = Rank[e.key] /\ d.publishedAt = e.publishedAt
  <2> HIDE DEF S
  <2> QED
    BY <1>1, <1>3, <1>5, LatestsTie
<1>7. Record(d) \in packageIndex[p].versions /\ packageIndex[p].latest = d.key
  <2> HIDE DEF S
  <2> QED
    BY <1>1, <1>2 DEF IndexOf
<1>8. Record(d).key = d.key /\ Record(d).publishedAt = d.publishedAt
  BY DEF Record
<1>9. rootIndex[p].key = e.key /\ rootIndex[p].publishedAt = e.publishedAt
  BY <1>4 DEF Record
<1> QED
  <2> HIDE DEF S
  <2> QED
    BY <1>6, <1>7, <1>8, <1>9

\* Whatever versions tie, the versions index and the root index then agree on the
\* precedence and the time of the version that heads the package.
THEOREM HeadsAgreeHolds == OneAtATime => (Spec => []HeadsAgree)
<1>1. TypeOK /\ SuccessMeansCurrent => HeadsAgree
  <2> SUFFICES ASSUME TypeOK, SuccessMeansCurrent, NEW h \in Handlers,
                      pc[h] = "idle", reply[h] # None, reply[h].result = "OK"
               PROVE  \E v \in packageIndex[reply[h].request.package].versions :
                        /\ v.key = packageIndex[reply[h].request.package].latest
                        /\ Rank[v.key] = Rank[rootIndex[reply[h].request.package].key]
                        /\ v.publishedAt = rootIndex[reply[h].request.package].publishedAt
    BY DEF HeadsAgree
  <2>1. reply[h].request \in Requests
    BY DEF TypeOK, LocalTypeOK, Reply
  <2>2. reply[h].request.package \in Packages
    BY <2>1, RequestFields
  <2> QED
    BY <2>2, CurrentHeadsTie DEF SuccessMeansCurrent
<1> QED
  BY <1>1, TypeCorrect, SuccessMeansCurrentHolds, PTL

-----------------------------------------------------------------------------
(* Refinement.                                                             *)

LEMMA SameDerivation ==
    /\ \A S, p : Reg!DetailsIn(S, p) = DetailsIn(S, p)
    /\ \A S : Reg!Latests(S) = Latests(S)
    /\ \A S, d : Reg!IndexOf(S, d) = IndexOf(S, d)
    /\ \A P, S : Reg!RootIndexes(P, S) = RootIndexes(P, S)
BY DEF Reg!DetailsIn, DetailsIn, Reg!Latests, Latests, Reg!Newer, Newer, Reg!IndexOf, IndexOf,
       Reg!Record, Record, Reg!RootIndexes, RootIndexes, Reg!FirstLatests, FirstLatests

LEMMA RegistryStep ==
    ASSUME TypeOK, OneAtATime, SerialSound, [Next]_vars
    PROVE  [Reg!Next]_<<details, packageIndex, latestAlias, rootIndex>>
<1>1. ASSUME NEW h \in Handlers, PutDetail(h)
      PROVE  Reg!Next
  <2>1. job[h] \in Requests /\ SlotOf(job[h]) \in Slots
    BY <1>1, RequestFields DEF PutDetail, TypeOK, LocalTypeOK
  <2>2. PICK t \in Times :
          details' = [details EXCEPT ![SlotOf(job[h])] =
              [package |-> job[h].package, key |-> job[h].key,
               content |-> job[h].content, publishedAt |-> t]]
    BY <1>1 DEF PutDetail
  <2> DEFINE d == [package |-> job[h].package, key |-> job[h].key,
                   content |-> job[h].content, publishedAt |-> t]
  <2>3. d \in VersionedPackageDetail /\ SlotOf(job[h]) = <<d.package, d.key>>
    BY <2>1, RequestFields DEF VersionedPackageDetail, SlotOf
  <2>4. details[SlotOf(job[h])] = None
    BY <1>1 DEF SerialSound, FreeWhilePutting, Published, PutDetail
  <2>5. Reg!Publish(SlotOf(job[h]), d)
    BY <1>1, <2>2, <2>3, <2>4 DEF PutDetail, Reg!Publish
  <2> QED
    BY <2>1, <2>3, <2>5 DEF Reg!Next
<1>2. ASSUME NEW h \in Handlers, PutPackageVersionsIndex(h)
      PROVE  Reg!Next
  <2>1. job[h].package \in Packages
    BY <1>2, RequestFields DEF PutPackageVersionsIndex, TypeOK, LocalTypeOK
  <2>2. Reg!RefreshIndex(job[h].package)
    BY <1>2, IndexWritten, SameDerivation
    DEF SerialSound, PutPackageVersionsIndex, Reg!RefreshIndex
  <2> QED
    BY <2>1, <2>2 DEF Reg!Next
<1>3. ASSUME NEW h \in Handlers, PutLatestAlias(h)
      PROVE  Reg!Next
  <2>1. job[h].package \in Packages
    BY <1>3, RequestFields DEF PutLatestAlias, TypeOK, LocalTypeOK
  <2>2. latest[h] \in Latests(DetailsIn(Reg!Stored, job[h].package))
    BY <1>3 DEF PutLatestAlias, SerialSound, DocumentsFollow, Heads
  <2>3. latest[h].package = job[h].package
    BY <2>2 DEF Latests, DetailsIn
  <2>4. Reg!RefreshAlias(job[h].package)
    BY <1>3, <2>2, <2>3, SameDerivation DEF PutLatestAlias, Reg!RefreshAlias
  <2> QED
    BY <2>1, <2>4 DEF Reg!Next
<1>4. ASSUME NEW h \in Handlers, PutRootIndex(h)
      PROVE  Reg!Next
  <2>1. Reg!RefreshRoot
    BY <1>4, RootWritten, SameDerivation DEF SerialSound, PutRootIndex, Reg!RefreshRoot
  <2> QED
    BY <2>1 DEF Reg!Next
<1> QED
  BY <1>1, <1>2, <1>3, <1>4, OnlyPutChangesDetails, DocumentWriters DEF OneAtATime, Writers

\* The server refines Registry: versions are published once and for good, and each
\* derived document is replaced by one of exactly what is published at that moment.
\* The runs overwrite and overtaking show that two handlers break either half.
THEOREM ServerImplementsRegistry == OneAtATime => (Spec => ImplementsRegistry)
<1> SUFFICES ASSUME OneAtATime
             PROVE  Spec => ImplementsRegistry
  OBVIOUS
<1>1. Init => Reg!Init
  BY DEF Init, Reg!Init
<1>2. TypeOK /\ SerialSound /\ [Next]_vars => [Reg!Next]_<<details, packageIndex, latestAlias, rootIndex>>
  BY RegistryStep
<1> QED
  BY <1>1, <1>2, TypeCorrect, SerialSoundHolds, PTL DEF Spec, ImplementsRegistry, Reg!Spec, Reg!documents

-----------------------------------------------------------------------------
(***************************************************************************)
(* What a rebuild restores, from whatever state handlers that overtook     *)
(* each other, failed or crashed have left the derived documents in.       *)
(***************************************************************************)

HasDetails(p) == DetailsIn(Reg!Stored, p) # {}

Restored == RootCurrent /\ \A p \in Packages : HasDetails(p) => PackageCurrent(p)

\* A full rebuild that has read nothing yet.
Begun(b) == pc[b] = "plan" /\ job[b] = None /\ todo[b] = Slots /\ seen[b] = {}

\* A step of rebuilder b in which no store call fails, or one of others, of any kind,
\* that puts no detail and no document.
Undisturbed(b) ==
    /\ Next
    /\ \/ (Plan(b) \/ SharedStep(b)) /\ UNCHANGED faults
       \/ UNCHANGED <<store, pc[b], job[b], todo[b], seen[b], latest[b], scope[b]>>

\* What the rebuilder has read, and written already.
Rebuilt(b) ==
    /\ pc[b] \in {"plan", "index", "alias", "root", "idle"}
    /\ pc[b] = "plan" =>
           job[b] = None /\ seen[b] = {details[s] : s \in Slots \ todo[b]} \ {None}
    /\ pc[b] \in {"index", "alias", "root"} => todo[b] = {} /\ seen[b] = Reg!Stored
    /\ pc[b] \in {"index", "alias"} =>
           \A p \in Packages \ scope[b] : HasDetails(p) => PackageCurrent(p)
    /\ pc[b] = "alias" => Heads(latest[b], latest[b].package)
    /\ pc[b] = "root" => \A p \in Packages : HasDetails(p) => PackageCurrent(p)
    /\ pc[b] = "idle" => Restored

LEMMA UndisturbedStays ==
    ASSUME NEW b \in Rebuilders, Rebuilt(b),
           UNCHANGED <<store, pc[b], job[b], todo[b], seen[b], latest[b], scope[b]>>
    PROVE  Rebuilt(b)'
<1>1. UNCHANGED <<details, packageIndex, latestAlias, rootIndex>> /\ Reg!Stored' = Reg!Stored
  BY DEF store, Reg!Stored
<1>2. /\ pc'[b] = pc[b] /\ job'[b] = job[b] /\ todo'[b] = todo[b] /\ seen'[b] = seen[b]
      /\ latest'[b] = latest[b] /\ scope'[b] = scope[b]
  OBVIOUS
<1>3. \A p \in Packages : HasDetails(p)' = HasDetails(p) /\ PackageCurrent(p)' = PackageCurrent(p)
  BY <1>1 DEF HasDetails, PackageCurrent
<1>4. Heads(latest[b], latest[b].package) => Heads(latest[b], latest[b].package)'
  BY <1>1, <1>2 DEF Heads
<1>5. RootCurrent' = RootCurrent
  BY <1>1 DEF RootCurrent
<1>6. Restored' = Restored
  BY <1>3, <1>5 DEF Restored
<1> QED
  BY <1>1, <1>2, <1>3, <1>4, <1>6 DEF Rebuilt

LEMMA NoFailure ==
    ASSUME TypeOK, NEW b, NEW result, faults' = faults
    PROVE  ~Fail(b, result)
<1>1. faults \in Nat /\ faults # faults + 1
  BY DEF TypeOK
<1> QED
  BY <1>1 DEF Fail

LEMMA ReadRebuilds ==
    ASSUME TypeOK, NEW b \in Rebuilders, Rebuilt(b), NEW s \in Slots, ReadDetail(b, s)
    PROVE  Rebuilt(b)'
<1>1. b \in Writers /\ todo[b] \subseteq Slots
  BY DEF Writers, TypeOK, LocalTypeOK
<1>2. pc[b] = "plan"
  BY DEF ReadDetail, Rebuilt
<1>3. pc'[b] = "plan" /\ job'[b] = None /\ details' = details
  BY <1>2 DEF ReadDetail, Rebuilt, store
<1>4. todo'[b] = todo[b] \ {s} /\ seen'[b] = seen[b] \cup ({details[s]} \ {None})
  BY <1>1 DEF ReadDetail, TypeOK, LocalTypeOK
<1>5. seen[b] = {details[x] : x \in Slots \ todo[b]} \ {None}
  BY <1>2 DEF Rebuilt
<1>6. Slots \ todo'[b] = (Slots \ todo[b]) \cup {s}
  BY <1>1, <1>4
<1>7. seen'[b] = {details[x] : x \in Slots \ todo'[b]} \ {None}
  BY <1>4, <1>5, <1>6
<1> QED
  BY <1>3, <1>7 DEF Rebuilt

LEMMA PlanRebuilds ==
    ASSUME TypeOK, NEW b \in Rebuilders, Rebuilt(b), Plan(b)
    PROVE  Rebuilt(b)'
<1> DEFINE listed == {d.package : d \in seen[b]}
<1>1. b \in Writers /\ pc[b] = "plan" /\ todo[b] = {} /\ job[b] = None
  BY DEF Writers, Plan, Rebuilt
<1>2. seen[b] = Reg!Stored
  BY <1>1 DEF Rebuilt, Reg!Stored
<1>3. /\ scope'[b] = listed /\ pc'[b] = IF listed = {} THEN "root" ELSE "index"
      /\ todo'[b] = {} /\ seen'[b] = seen[b] /\ Reg!Stored' = Reg!Stored
  <2>1. /\ scope' = [scope EXCEPT ![b] = listed]
        /\ pc' = [pc EXCEPT ![b] = IF listed = {} THEN "root" ELSE "index"]
        /\ UNCHANGED <<todo, seen, details>>
    BY <1>1 DEF Plan, store
  <2> QED
    BY <1>1, <2>1 DEF TypeOK, LocalTypeOK, Reg!Stored
<1>4. ASSUME NEW p \in Packages \ scope'[b] PROVE DetailsIn(Reg!Stored', p) = {}
  BY <1>2, <1>3 DEF DetailsIn
<1> QED
  BY <1>2, <1>3, <1>4 DEF Rebuilt, HasDetails

\* The index of a package is written from the details of that package.
LEMMA IndexRebuilds ==
    ASSUME TypeOK, NEW b \in Rebuilders, Rebuilt(b), PutPackageVersionsIndex(b),
           UNCHANGED faults
    PROVE  Rebuilt(b)'
<1>1. b \in Writers /\ pc[b] = "index" /\ todo[b] = {} /\ seen[b] = Reg!Stored
  BY DEF Writers, PutPackageVersionsIndex, Rebuilt
<1>2. ~Fail(b, "INDEX_CONFLICT")
  BY NoFailure
<1>3. PICK p \in scope[b] : \E d \in Latests(DetailsIn(Reg!Stored, p)) :
        /\ packageIndex' = [packageIndex EXCEPT ![p] = IndexOf(DetailsIn(Reg!Stored, p), d)]
        /\ pc' = [pc EXCEPT ![b] = "alias"] /\ latest' = [latest EXCEPT ![b] = d]
        /\ UNCHANGED <<todo, seen, scope>>
  BY <1>1, <1>2 DEF PutPackageVersionsIndex
<1>4. PICK d \in Latests(DetailsIn(Reg!Stored, p)) :
        /\ packageIndex' = [packageIndex EXCEPT ![p] = IndexOf(DetailsIn(Reg!Stored, p), d)]
        /\ pc' = [pc EXCEPT ![b] = "alias"] /\ latest' = [latest EXCEPT ![b] = d]
        /\ UNCHANGED <<todo, seen, scope>>
  BY <1>3
<1>5. Reg!Stored' = Reg!Stored /\ latestAlias' = latestAlias
  BY DEF PutPackageVersionsIndex, Reg!Stored
<1>6. p \in Packages /\ d.package = p
  BY <1>1, <1>4 DEF TypeOK, LocalTypeOK, Latests, DetailsIn
<1>7. pc'[b] = "alias" /\ latest'[b] = d /\ todo'[b] = {} /\ seen'[b] = Reg!Stored'
      /\ scope'[b] = scope[b]
  BY <1>1, <1>4, <1>5 DEF TypeOK, LocalTypeOK
<1>8. Heads(latest[b], latest[b].package)'
  BY <1>4, <1>5, <1>6, <1>7 DEF Heads, TypeOK, StoreTypeOK
<1>9. ASSUME NEW q \in Packages \ scope'[b], HasDetails(q)' PROVE PackageCurrent(q)'
  <2>1. q # p /\ packageIndex'[q] = packageIndex[q]
    BY <1>4, <1>7, <1>9 DEF TypeOK, StoreTypeOK
  <2>2. PackageCurrent(q)
    BY <1>1, <1>5, <1>7, <1>9 DEF Rebuilt, HasDetails
  <2> QED
    BY <1>5, <2>1, <2>2 DEF PackageCurrent
<1> QED
  BY <1>7, <1>8, <1>9 DEF Rebuilt

LEMMA AliasRebuilds ==
    ASSUME TypeOK, NEW b \in Rebuilders, Rebuilt(b), PutLatestAlias(b), UNCHANGED faults
    PROVE  Rebuilt(b)'
<1> DEFINE p == latest[b].package
<1>1. b \in Writers /\ b \notin Handlers /\ pc[b] = "alias" /\ Heads(latest[b], p)
      /\ todo[b] = {} /\ seen[b] = Reg!Stored
  BY WritersAssumption DEF Writers, PutLatestAlias, Rebuilt
<1>2. ~Fail(b, "INDEX_CONFLICT")
  BY NoFailure
<1>3. AfterAlias(b) /\ latestAlias' = [latestAlias EXCEPT ![p] = latest[b]]
      /\ details' = details /\ packageIndex' = packageIndex
  BY <1>2 DEF PutLatestAlias
<1>4. /\ scope'[b] = scope[b] \ {p} /\ todo'[b] = {} /\ seen'[b] = seen[b]
      /\ pc'[b] = IF scope[b] \ {p} = {} THEN "root" ELSE "index"
  BY <1>1, <1>3 DEF AfterAlias, TypeOK, LocalTypeOK
<1>5. Reg!Stored' = Reg!Stored
  BY <1>3 DEF Reg!Stored
<1>6. p \in Packages
  BY <1>1 DEF Heads, Latests, DetailsIn, Reg!Stored, TypeOK, StoreTypeOK, VersionedPackageDetail
<1>7. ASSUME NEW q \in Packages \ scope'[b], HasDetails(q)' PROVE PackageCurrent(q)'
  <2>1. CASE q = p
    <3>1. latestAlias'[q] = latest[b]
      BY <1>3, <1>6, <2>1 DEF TypeOK, StoreTypeOK
    <3> QED
      BY <1>1, <1>3, <1>5, <2>1, <3>1 DEF Heads, PackageCurrent
  <2>2. CASE q # p
    <3>1. q \in Packages \ scope[b] /\ latestAlias'[q] = latestAlias[q]
      BY <1>3, <1>4, <1>7, <2>2 DEF TypeOK, StoreTypeOK
    <3>2. PackageCurrent(q)
      BY <1>1, <1>5, <1>7, <3>1 DEF Rebuilt, HasDetails
    <3> QED
      BY <1>3, <1>5, <3>1, <3>2 DEF PackageCurrent
  <2> QED
    BY <2>1, <2>2
<1>8. pc'[b] \in {"index", "root"} /\ seen'[b] = Reg!Stored'
      /\ (pc'[b] = "root" => Packages \ scope'[b] = Packages)
  BY <1>1, <1>4, <1>5
<1> QED
  BY <1>4, <1>7, <1>8 DEF Rebuilt

LEMMA RootRebuilds ==
    ASSUME TypeOK, NEW b \in Rebuilders, Rebuilt(b), PutRootIndex(b), UNCHANGED faults
    PROVE  Rebuilt(b)'
<1>1. b \in Writers /\ pc[b] = "root" /\ seen[b] = Reg!Stored
  BY DEF Writers, PutRootIndex, Rebuilt
<1>2. ~Fail(b, "INDEX_CONFLICT")
  BY NoFailure
<1>3. pc'[b] = "idle"
  BY <1>1, <1>2 DEF PutRootIndex, Finish, TypeOK, LocalTypeOK
<1>4. Reg!Stored' = Reg!Stored /\ UNCHANGED <<packageIndex, latestAlias>>
  BY DEF PutRootIndex, Reg!Stored
<1>5. RootCurrent'
  BY <1>1, <1>4 DEF PutRootIndex, RootCurrent
<1>6. \A p \in Packages : HasDetails(p)' => PackageCurrent(p)'
  BY <1>1, <1>4 DEF Rebuilt, HasDetails, PackageCurrent
<1> QED
  BY <1>3, <1>5, <1>6 DEF Rebuilt, Restored

\* A full rebuild in which no store call fails, and during which nobody else puts a
\* document, leaves every derived document that of the published details, whatever the
\* documents were before: they can be rebuilt from the details alone
\* (docs/architecture.md:133).  It is the safety half of RebuildRestores.
THEOREM RebuildHeals ==
    ASSUME NEW b \in Rebuilders
    PROVE  TypeOK /\ Begun(b) /\ [][Undisturbed(b)]_vars => [](pc[b] = "idle" => Restored)
<1>1. Begun(b) => Rebuilt(b)
  BY DEF Begun, Rebuilt
<1>2. TypeOK /\ Rebuilt(b) /\ [Undisturbed(b)]_vars => TypeOK' /\ Rebuilt(b)'
  <2> SUFFICES ASSUME TypeOK, Rebuilt(b), [Undisturbed(b)]_vars PROVE TypeOK' /\ Rebuilt(b)'
    OBVIOUS
  <2>1. TypeOK'
    BY NextType DEF Undisturbed
  <2>2. CASE UNCHANGED vars
    <3>1. UNCHANGED <<store, pc[b], job[b], todo[b], seen[b], latest[b], scope[b]>>
      BY <2>2 DEF vars, local
    <3> QED
      BY <2>1, <3>1, UndisturbedStays
  <2>3. CASE UNCHANGED <<store, pc[b], job[b], todo[b], seen[b], latest[b], scope[b]>>
    BY <2>1, <2>3, UndisturbedStays
  <2>4. CASE (Plan(b) \/ SharedStep(b)) /\ UNCHANGED faults
    BY <2>1, <2>4, PlanRebuilds, ReadRebuilds, IndexRebuilds, AliasRebuilds, RootRebuilds
    DEF SharedStep
  <2> QED
    BY <2>1, <2>2, <2>3, <2>4 DEF Undisturbed
<1>3. Rebuilt(b) => (pc[b] = "idle" => Restored)
  BY DEF Rebuilt
<1> QED
  BY <1>1, <1>2, <1>3, PTL
=============================================================================
