---------------------------- MODULE ReadApiProofs ----------------------------
(***************************************************************************)
(* Theorems about ReadApi, for any number of readers and writers, any      *)
(* failures and any other server; the last two for a server that handles   *)
(* one update at a time.                                                   *)
(***************************************************************************)
EXTENDS ReadApi, PublicationProofs

\* Reading takes nothing from the write path: each of its invariants holds here too.
LEMMA Writes == ReadSpec => Spec
<1>1. ReadInit => Init
    BY DEF ReadInit
<1>2. [ReadNext]_readVars => [Next]_vars
    BY DEF ReadNext, WriterStep, readVars
<1> QED BY <1>1, <1>2, PTL DEF ReadSpec, Spec

-----------------------------------------------------------------------------
(* Type correctness. *)

LEMMA StoredType ==
    ASSUME TypeOK, NEW q \in Queries
    PROVE  /\ Stored(q) \in Documents \cup {None}
           /\ q.kind = "root" => Stored(q) = rootIndex
           /\ q.kind = "elsewhere" => Stored(q) = Elsewhere /\ Elsewhere # None
           /\ q.kind = "index" => Stored(q) = packageIndex[q.package]
           /\ q.kind = "alias" => Stored(q) = latestAlias[q.package]
           /\ q.kind = "detail" => Stored(q) = IF SlotOf(q) \in Slots THEN details[SlotOf(q)] ELSE None
           /\ q.kind \in {"root", "elsewhere", "index", "alias", "detail"}
           /\ q.kind \in {"index", "alias", "detail"} => q.package \in Packages
           /\ q.kind \in Asked => Stored(q) \in RootIndex \cup {None}
<1>1. q.kind \in {"root", "elsewhere", "index", "alias", "detail"}
    BY DEF Queries
<1>2. q.kind \in {"index", "alias", "detail"} => q.package \in Packages
    BY DEF Queries
<1>3. Elsewhere # None
    BY ElsewhereAssumption, NoneAssumption DEF RootIndex
<1> QED
    BY <1>1, <1>2, <1>3, ElsewhereAssumption
    DEF Stored, Asked, Documents, RootIndex, TypeOK, StoreTypeOK

LEMMA RespondType ==
    ASSUME ReadTypeOK, NEW c \in Readers, at[c] \in {"get", "reread", "list"},
           NEW result \in Outcomes, NEW doc \in Documents \cup {None},
           Respond(c, result, doc), ServerOnly
    PROVE  ReadTypeOK'
<1>1. response'[c] \in Response
    BY DEF Respond, Response, Outcomes, ReadTypeOK
<1>2. answer[c] = None
    BY DEF ReadTypeOK
<1> QED
    BY <1>1, <1>2, ReadNoneAssumption DEF Respond, ServerOnly, ReadTypeOK

LEMMA EndCallType ==
    ASSUME ReadTypeOK, NEW c \in Readers, at[c] \notin {"idle", "done"},
           NEW result \in Outcomes \ {"NOT_MODIFIED"}, NEW body \in Documents \cup {None},
           EndCall(c, result, body), cache' \in Cached \cup {None}
    PROVE  ReadTypeOK'
<1>1. answer'[c] \in Answer
    BY DEF EndCall, Answer, ReadTypeOK
<1> QED
    BY <1>1, ReadNoneAssumption DEF EndCall, ReadTypeOK

LEMMA StartListingType ==
    ASSUME ReadTypeOK, NEW c \in Readers, at[c] \in {"get", "reread"}, StartListing(c), ServerOnly
    PROVE  ReadTypeOK'
BY DEF StartListing, ServerOnly, ReadTypeOK

-----------------------------------------------------------------------------
(* What a GET finds is right. *)

\* A stored document is right for the query it is stored under.
LEMMA StoredRight ==
    ASSUME TypeOK, Discoverability, ReadTypeOK, NEW c \in Readers, at[c] \in {"get", "reread"},
           CallRemembers(c), Stored(query[c]) # None
    PROVE  RightOutcome(c, "OK", Stored(query[c]))
<1> DEFINE q == query[c]
           doc == Stored(q)
<1>1. q \in Queries
    BY DEF ReadTypeOK
<1>2. q.kind \in Asked => doc \in RootIndex
    BY <1>1, StoredType
<1>3. FromServer(c, q, doc)
    BY <1>1, StoredType DEF FromServer, CallRemembers
<1>4. Readable(q, doc)
    <2>1. CASE q.kind = "root"
        BY <2>1, <1>1, StoredType DEF Readable, Names, Discoverability
    <2>2. CASE q.kind = "index"
        <3>1. doc = packageIndex[q.package] /\ q.package \in Packages
            BY <2>2, <1>1, StoredType
        <3>2. \A v \in doc.versions : <<q.package, v.key>> \in Slots /\ Published(<<q.package, v.key>>)
            BY <3>1 DEF Discoverability
        <3> HIDE DEF doc, q
        <3> QED
            BY <2>2, <3>2 DEF Readable, Names
    <2>3. CASE q.kind = "alias"
        <3>1. doc = latestAlias[q.package] /\ q.package \in Packages
            BY <2>3, <1>1, StoredType
        <3>2. SlotOf(doc) \in Slots /\ Published(SlotOf(doc))
            BY <3>1 DEF Discoverability
        <3> HIDE DEF doc, q
        <3> QED
            BY <2>3, <3>2 DEF Readable, Names
    <2>4. CASE q.kind = "detail"
        BY <2>4, <1>1, StoredType DEF Readable, Names, TypeOK, StoreTypeOK, Published
    <2>5. CASE q.kind = "elsewhere"
        BY <2>5 DEF Readable, Names
    <2> QED
        BY <2>1, <2>2, <2>3, <2>4, <2>5, <1>1, StoredType
<1> QED
    BY <1>2, <1>3, <1>4 DEF RightOutcome, NotDenied

\* The newest of what a listing has found is no older than what it has found.
LEMMA LatestIsNewest ==
    ASSUME NEW S \in SUBSET VersionedPackageDetail, NEW d \in Latests(S), NEW e \in S
    PROVE  Rank[d.key] >= Rank[e.key]
<1>1. d.key \in VersionKeys /\ e.key \in VersionKeys
    BY DEF Latests, VersionedPackageDetail
<1> QED
    BY <1>1, OrderAssumption DEF Latests, Newer

\* So is a document that is derived from a complete listing.
LEMMA DerivedRight ==
    ASSUME TypeOK, ReadTypeOK, NEW c \in Readers, at[c] = "list", toRead[c] = {},
           CallRemembers(c), ListingComplete(c)
    PROVE  /\ query[c].kind = "root" =>
                \A r \in RootIndexes(Packages, found[c]) :
                    r \in RootIndex /\ RightOutcome(c, "OK", r)
           /\ query[c].kind = "index" =>
                \A d \in Latests(found[c]) :
                    /\ IndexOf(found[c], d) \in PackageVersionsIndex
                    /\ RightOutcome(c, "OK", IndexOf(found[c], d))
           /\ query[c].kind = "alias" =>
                \A d \in Latests(found[c]) :
                    d \in VersionedPackageDetail /\ RightOutcome(c, "OK", d)
           /\ query[c].kind # "root" /\ found[c] = {} => RightOutcome(c, "PACKAGE_NOT_FOUND", None)
           /\ query[c].kind = "detail" => RightOutcome(c, "VERSION_NOT_FOUND", None)
<1> DEFINE q == query[c]
           S == found[c]
<1>1. S \subseteq VersionedPackageDetail
    BY DEF ReadTypeOK
<1>2. ASSUME q.kind = "root", NEW r \in RootIndexes(Packages, S)
      PROVE  r \in RootIndex /\ RightOutcome(c, "OK", r)
    <2>1. r \in RootIndex
        BY <1>1, RootIndexesType DEF RootIndex
    <2>2. ASSUME NEW p \in Packages, r[p] # None
          PROVE  \E d \in Latests(DetailsIn(S, p)) : r[p] = Record(d)
        BY <2>2, <1>2 DEF RootIndexes, FirstLatests
    <2>3. Readable(q, r)
        <3>1. ASSUME NEW p \in Packages, r[p] # None
              PROVE  <<p, r[p].key>> \in Slots /\ Published(<<p, r[p].key>>)
            <4>1. PICK d \in Latests(DetailsIn(S, p)) : r[p] = Record(d)
                BY <2>2, <3>1
            <4>2. d \in S /\ SlotOf(d) = <<p, r[p].key>>
                BY <4>1 DEF Latests, DetailsIn, Record, SlotOf
            <4> QED
                BY <4>2 DEF ListingComplete
        <3> QED
            BY <3>1, <1>2 DEF Readable, Names
    <2>4. ASSUME NEW s \in then[c].published
          PROVE  r[s[1]] # None /\ Rank[r[s[1]].key] >= Rank[s[2]]
        <3>1. PICK d \in S : SlotOf(d) = s
            BY <1>2, <2>4 DEF ListingComplete, InScope
        <3>2. d \in DetailsIn(S, s[1]) /\ s[1] \in Packages /\ s[2] = d.key
            BY <3>1, <1>1 DEF DetailsIn, SlotOf, VersionedPackageDetail
        <3>3. PICK e \in FirstLatests(DetailsIn(S, s[1])) : r[s[1]] = Record(e)
            BY <1>2, <3>2 DEF RootIndexes
        <3>4. e \in Latests(DetailsIn(S, s[1]))
            BY <3>3 DEF FirstLatests
        <3>5. Rank[e.key] >= Rank[d.key]
            BY <3>2, <3>4, <1>1, LatestIsNewest DEF DetailsIn
        <3>6. Record(e) \in VersionRecord /\ Record(e).key = e.key
            BY <3>4, <1>1 DEF Latests, DetailsIn, Record, VersionRecord, VersionedPackageDetail
        <3> QED
            BY <3>2, <3>3, <3>5, <3>6, NoneAssumption
    <2>5. None \in roots[c]
        BY <1>2 DEF ListingComplete
    <2>6. FromServer(c, q, r)
        BY <1>2, <2>4, <2>5 DEF FromServer
    <2> QED
        BY <2>1, <2>3, <2>6 DEF RightOutcome, NotDenied
<1>3. ASSUME q.kind = "index", NEW d \in Latests(S)
      PROVE  IndexOf(S, d) \in PackageVersionsIndex /\ RightOutcome(c, "OK", IndexOf(S, d))
    <2>1. IndexOf(S, d) \in PackageVersionsIndex
        BY <1>1 DEF Latests, IndexOf, Record, PackageVersionsIndex, VersionRecord, VersionedPackageDetail
    <2>2. ASSUME NEW v \in IndexOf(S, d).versions
          PROVE  <<q.package, v.key>> \in Slots /\ Published(<<q.package, v.key>>)
        <3>1. PICK e \in S : v = Record(e)
            BY <2>2 DEF IndexOf
        <3>2. SlotOf(e) = <<q.package, v.key>>
            BY <1>3, <3>1 DEF ListingComplete, InScope, SlotOf, Record
        <3> QED
            BY <3>2 DEF ListingComplete
    <2>3. Readable(q, IndexOf(S, d))
        BY <1>3, <2>2 DEF Readable, Names
    <2> QED
        BY <1>3, <2>1, <2>3 DEF RightOutcome, FromServer, NotDenied, Asked
<1>4. ASSUME q.kind = "alias", NEW d \in Latests(S)
      PROVE  d \in VersionedPackageDetail /\ RightOutcome(c, "OK", d)
    <2>1. d \in S
        BY DEF Latests
    <2>2. Readable(q, d)
        BY <1>4, <2>1 DEF Readable, Names, ListingComplete
    <2> QED
        BY <1>1, <1>4, <2>1, <2>2 DEF RightOutcome, FromServer, NotDenied, Asked
<1>5. ASSUME q.kind # "root", S = {}
      PROVE  RightOutcome(c, "PACKAGE_NOT_FOUND", None)
    BY <1>5 DEF ListingComplete, InScope, RightOutcome, NotDenied
<1>6. ASSUME q.kind = "detail"
      PROVE  RightOutcome(c, "VERSION_NOT_FOUND", None)
    BY <1>6 DEF CallRemembers, RightOutcome, NotDenied
<1> QED
    BY <1>2, <1>3, <1>4, <1>5, <1>6

-----------------------------------------------------------------------------
(* The steps of readers. *)

\* A reader's step is its own.
LEMMA OthersKept ==
    ASSUME ReadTypeOK, NEW c \in Readers, ReaderStep(c), UNCHANGED vars,
           NEW d \in Readers \ {c}, CallSound(d)
    PROVE  CallSound(d)'
<1>1. /\ at'[d] = at[d] /\ query'[d] = query[d] /\ loaded'[d] = loaded[d]
      /\ toRead'[d] = toRead[d] /\ found'[d] = found[d] /\ response'[d] = response[d]
      /\ answer'[d] = answer[d] /\ then'[d] = then[d] /\ roots'[d] = roots[d]
    BY DEF ReaderStep, Ask, GetStored, Reread, ReadListed, DeriveAnswer, Deliver, CallFails,
           Exit, Respond, StartListing, EndCall, ServerOnly, ReadTypeOK
<1>2. details' = details /\ rootIndex' = rootIndex
    BY DEF vars, store
<1> QED
    BY <1>1, <1>2
    DEF CallSound, ResponseRight, AnswerRight, CallRemembers, ListingComplete, InScope,
        RightOutcome, FromServer, Readable, Published, NotDenied

\* The invariant: types, tags, and a right outcome of every call.
Sound == ReadTypeOK /\ CacheMatches /\ \A c \in Readers : CallSound(c)

LEMMA AskSound ==
    ASSUME TypeOK, Sound, NEW c \in Readers, NEW q \in Queries, Ask(c, q), UNCHANGED vars
    PROVE  ReadTypeOK' /\ CacheMatches' /\ CallSound(c)'
<1>1. ReadTypeOK'
    BY DEF Ask, Sound, ReadTypeOK, CacheMatches, TypeOK, StoreTypeOK, RootIndex
<1>2. CacheMatches'
    BY DEF Ask, Sound, ReadTypeOK, CacheMatches
<1>3. at'[c] = "get" /\ roots'[c] = {rootIndex} /\ rootIndex' = rootIndex /\ details' = details
      /\ then'[c].published = {s \in Slots : Published(s)}
    BY DEF Ask, Sound, ReadTypeOK, vars, store
<1> QED
    BY <1>1, <1>2, <1>3
    DEF CallSound, ResponseRight, AnswerRight, CallRemembers, ListingComplete, Published

\* A right outcome makes a right response, a 304 included.
LEMMA RespondSound ==
    ASSUME Sound, NEW c \in Readers, at[c] \in {"get", "reread", "list"},
           NEW result \in Outcomes \ {"NOT_MODIFIED"}, NEW doc \in Documents \cup {None},
           RightOutcome(c, result, doc), Respond(c, result, doc), ServerOnly, UNCHANGED vars
    PROVE  ReadTypeOK' /\ CacheMatches' /\ CallSound(c)'
<1>1. ReadTypeOK'
    BY RespondType DEF Sound
<1>2. CacheMatches'
    BY DEF ServerOnly, Sound, CacheMatches
<1>3. /\ at'[c] = "deliver" /\ query' = query /\ loaded' = loaded /\ then' = then /\ roots' = roots
      /\ details' = details /\ rootIndex' = rootIndex
    BY DEF Respond, ServerOnly, Sound, ReadTypeOK, vars, store
<1>4. CallRemembers(c)'
    BY <1>3 DEF Sound, CallSound, CallRemembers, Published
<1>5. ResponseRight(c)'
    <2>1. CASE result = "OK" /\ loaded[c] # None /\ loaded[c].etag = ETag(doc)
        <3>1. response'[c].result = "NOT_MODIFIED"
            BY <2>1 DEF Respond, Sound, ReadTypeOK
        <3>2. loaded[c].body = doc
            BY <2>1 DEF Sound, CacheMatches, ETag
        <3> QED
            BY <2>1, <3>1, <3>2, <1>3
            DEF ResponseRight, RightOutcome, FromServer, Readable, Published, NotDenied
    <2>2. CASE ~(result = "OK" /\ loaded[c] # None /\ loaded[c].etag = ETag(doc))
        <3>1. response'[c].result = result /\ response'[c].body = doc
            BY <2>2 DEF Respond, Sound, ReadTypeOK
        <3> QED
            BY <3>1, <1>3
            DEF ResponseRight, RightOutcome, FromServer, Readable, Published, NotDenied
    <2> QED
        BY <2>1, <2>2
<1> QED
    BY <1>1, <1>2, <1>3, <1>4, <1>5 DEF CallSound, AnswerRight, ListingComplete

\* A listing begins with everything in its scope still to read.
LEMMA StartListingSound ==
    ASSUME TypeOK, Sound, NEW c \in Readers, at[c] \in {"get", "reread"},
           Stored(query[c]) = None, StartListing(c), ServerOnly, UNCHANGED vars,
           at[c] = "get" => query[c].kind # "detail"
    PROVE  ReadTypeOK' /\ CacheMatches' /\ CallSound(c)'
<1>1. query[c] \in Queries /\ found[c] = {}
    BY DEF Sound, ReadTypeOK
<1>2. query[c].kind # "elsewhere"
    BY <1>1, StoredType
<1>3. ReadTypeOK'
    BY StartListingType DEF Sound
<1>4. CacheMatches'
    BY DEF ServerOnly, Sound, CacheMatches
<1>5. /\ at'[c] = "list" /\ query' = query /\ found' = found /\ then' = then /\ roots' = roots
      /\ toRead'[c] = {s \in Slots : InScope(c, s)}
      /\ details' = details /\ rootIndex' = rootIndex
    BY DEF StartListing, ServerOnly, Sound, ReadTypeOK, vars, store, InScope
<1>6. query[c].kind = "root" => None \in roots[c]
    BY <1>1, StoredType DEF Sound, CallSound, CallRemembers
<1>7. CallRemembers(c)'
    BY <1>5 DEF Sound, CallSound, CallRemembers, Published
<1>8. ListingComplete(c)'
    BY <1>1, <1>2, <1>5, <1>6 DEF Sound, CallSound, CallRemembers, ListingComplete, InScope, Published
<1> QED
    BY <1>3, <1>4, <1>5, <1>7, <1>8 DEF CallSound, ResponseRight, AnswerRight

LEMMA GetStoredSound ==
    ASSUME TypeOK, Discoverability, Sound, NEW c \in Readers, GetStored(c), UNCHANGED vars
    PROVE  ReadTypeOK' /\ CacheMatches' /\ CallSound(c)'
<1>1. query[c] \in Queries /\ at[c] = "get"
    BY DEF GetStored, Sound, ReadTypeOK
<1>2. CASE Stored(query[c]) # None /\ Respond(c, "OK", Stored(query[c]))
    BY <1>1, <1>2, StoredRight, StoredType, RespondSound DEF GetStored, Sound, CallSound, Outcomes
<1>3. CASE /\ Stored(query[c]) = None /\ query[c].kind = "detail"
           /\ at' = [at EXCEPT ![c] = "reread"]
           /\ UNCHANGED <<toRead, found, response>>
    <2>1. ReadTypeOK' /\ CacheMatches'
        BY <1>1, <1>3 DEF GetStored, ServerOnly, Sound, ReadTypeOK, CacheMatches
    <2>2. SlotOf(query[c]) \notin then[c].published
        BY <1>1, <1>3, StoredType DEF Sound, CallSound, CallRemembers, Published
    <2>3. /\ at'[c] = "reread" /\ query' = query /\ then' = then /\ roots' = roots
          /\ details' = details /\ rootIndex' = rootIndex
        BY <1>3 DEF GetStored, ServerOnly, Sound, ReadTypeOK, vars, store
    <2> QED
        BY <1>1, <2>1, <2>2, <2>3
        DEF Sound, CallSound, ResponseRight, AnswerRight, CallRemembers, ListingComplete, Published
<1>4. CASE Stored(query[c]) = None /\ query[c].kind # "detail" /\ StartListing(c)
    BY <1>1, <1>4, StartListingSound DEF GetStored
<1> QED
    BY <1>2, <1>3, <1>4 DEF GetStored

LEMMA RereadSound ==
    ASSUME TypeOK, Discoverability, Sound, NEW c \in Readers, Reread(c), UNCHANGED vars
    PROVE  ReadTypeOK' /\ CacheMatches' /\ CallSound(c)'
<1>1. query[c] \in Queries /\ at[c] = "reread"
    BY DEF Reread, Sound, ReadTypeOK
<1>2. CASE Stored(query[c]) # None /\ Respond(c, "OK", Stored(query[c]))
    BY <1>1, <1>2, StoredRight, StoredType, RespondSound DEF Reread, Sound, CallSound, Outcomes
<1>3. CASE Stored(query[c]) = None /\ StartListing(c)
    BY <1>1, <1>3, StartListingSound DEF Reread
<1> QED
    BY <1>2, <1>3 DEF Reread

LEMMA ReadListedSound ==
    ASSUME TypeOK, Sound, NEW c \in Readers, NEW s \in Slots, ReadListed(c, s), UNCHANGED vars
    PROVE  ReadTypeOK' /\ CacheMatches' /\ CallSound(c)'
<1>1. ReadTypeOK' /\ CacheMatches'
    BY DEF ReadListed, ServerOnly, Sound, ReadTypeOK, CacheMatches, TypeOK, StoreTypeOK
<1>2. /\ at[c] = "list" /\ at'[c] = "list" /\ s \in toRead[c]
      /\ query' = query /\ then' = then /\ roots' = roots
      /\ toRead'[c] = toRead[c] \ {s} /\ found'[c] = found[c] \cup ({details[s]} \ {None})
      /\ details' = details /\ rootIndex' = rootIndex
    BY DEF ReadListed, ServerOnly, Sound, ReadTypeOK, vars, store
<1>3. CallRemembers(c)'
    BY <1>2 DEF Sound, CallSound, CallRemembers, Published
<1>4. details[s] # None => SlotOf(details[s]) = s
    BY DEF TypeOK, StoreTypeOK
<1>5. ListingComplete(c)'
    <2>1. \A d \in found'[c] : InScope(c, SlotOf(d)) /\ SlotOf(d) \in Slots /\ Published(SlotOf(d))
        BY <1>2, <1>4 DEF Sound, CallSound, ListingComplete, Published
    <2>2. \A x \in then[c].published :
            InScope(c, x) => x \in toRead'[c] \/ \E d \in found'[c] : SlotOf(d) = x
        <3> SUFFICES ASSUME NEW x \in then[c].published, InScope(c, x), x \notin toRead'[c]
                     PROVE  \E d \in found'[c] : SlotOf(d) = x
            OBVIOUS
        <3>1. CASE x = s
            BY <3>1, <1>2, <1>4 DEF Sound, CallSound, CallRemembers, Published
        <3>2. CASE x # s
            BY <3>2, <1>2 DEF Sound, CallSound, ListingComplete
        <3> QED
            BY <3>1, <3>2
    <2> QED
        BY <1>2, <2>1, <2>2 DEF Sound, CallSound, ListingComplete, InScope, Published
<1> QED
    BY <1>1, <1>2, <1>3, <1>5 DEF CallSound, ResponseRight, AnswerRight

LEMMA DeriveAnswerSound ==
    ASSUME TypeOK, Sound, NEW c \in Readers, DeriveAnswer(c), UNCHANGED vars
    PROVE  ReadTypeOK' /\ CacheMatches' /\ CallSound(c)'
<1> USE DEF Documents, Outcomes
<1>1. /\ at[c] = "list" /\ toRead[c] = {} /\ ServerOnly
      /\ ReadTypeOK /\ CallRemembers(c) /\ ListingComplete(c)
    BY DEF DeriveAnswer, Sound, CallSound
<1>2. ASSUME query[c].kind = "root", NEW r \in RootIndexes(Packages, found[c]), Respond(c, "OK", r)
      PROVE  ReadTypeOK' /\ CacheMatches' /\ CallSound(c)'
    BY <1>1, <1>2, DerivedRight, RespondSound
<1>3. CASE query[c].kind # "root" /\ found[c] = {} /\ Respond(c, "PACKAGE_NOT_FOUND", None)
    BY <1>1, <1>3, DerivedRight, RespondSound
<1>4. ASSUME query[c].kind = "index", NEW d \in Latests(found[c]), Respond(c, "OK", IndexOf(found[c], d))
      PROVE  ReadTypeOK' /\ CacheMatches' /\ CallSound(c)'
    BY <1>1, <1>4, DerivedRight, RespondSound
<1>5. ASSUME query[c].kind = "alias", NEW d \in Latests(found[c]), Respond(c, "OK", d)
      PROVE  ReadTypeOK' /\ CacheMatches' /\ CallSound(c)'
    BY <1>1, <1>5, DerivedRight, RespondSound
<1>6. CASE query[c].kind = "detail" /\ Respond(c, "VERSION_NOT_FOUND", None)
    BY <1>1, <1>6, DerivedRight, RespondSound
<1> QED
    BY <1>2, <1>3, <1>4, <1>5, <1>6 DEF DeriveAnswer

\* A call ends as its outcome says.
LEMMA EndCallSound ==
    ASSUME Sound, NEW c \in Readers, at[c] \notin {"idle", "done"},
           NEW result \in Outcomes \ {"NOT_MODIFIED"}, NEW body \in Documents \cup {None},
           RightOutcome(c, result, body), EndCall(c, result, body), UNCHANGED vars,
           cache' \in {cache, None} \/ \E r \in RootIndex : cache' = [etag |-> ETag(r), body |-> r]
    PROVE  ReadTypeOK' /\ CacheMatches' /\ CallSound(c)'
<1>1. cache' \in Cached \cup {None}
    BY DEF Sound, ReadTypeOK, Cached, ETag
<1>2. ReadTypeOK'
    BY <1>1, EndCallType DEF Sound
<1>3. CacheMatches'
    BY DEF EndCall, Sound, CacheMatches, ReadTypeOK
<1>4. /\ at'[c] = "done" /\ query' = query /\ then' = then /\ roots' = roots
      /\ answer'[c] = [query |-> query[c], result |-> result, body |-> body]
      /\ details' = details /\ rootIndex' = rootIndex
    BY DEF EndCall, Sound, ReadTypeOK, vars, store
<1>5. CallRemembers(c)'
    BY <1>4 DEF Sound, CallSound, CallRemembers, Published
<1>6. AnswerRight(c)'
    BY <1>4 DEF AnswerRight, RightOutcome, FromServer, Readable, Published, NotDenied
<1> QED
    BY <1>2, <1>3, <1>4, <1>5, <1>6 DEF CallSound, ResponseRight, ListingComplete

LEMMA DeliverSound ==
    ASSUME Sound, NEW c \in Readers, Deliver(c), UNCHANGED vars
    PROVE  ReadTypeOK' /\ CacheMatches' /\ CallSound(c)'
<1> DEFINE r == response[c]
<1>1. at[c] = "deliver" /\ r \in Response /\ ResponseRight(c)
    BY DEF Deliver, Sound, ReadTypeOK, CallSound
<1>2. CASE r.result = "NOT_MODIFIED" /\ EndCall(c, "OK", loaded[c].body) /\ UNCHANGED cache
    <2>1. loaded[c].body \in Documents /\ RightOutcome(c, "OK", loaded[c].body)
        BY <1>1, <1>2 DEF ResponseRight, Sound, ReadTypeOK, Cached, Documents
    <2> QED
        BY <1>1, <1>2, <2>1, EndCallSound DEF Outcomes
<1>3. CASE /\ r.result = "OK" /\ query[c].kind \in Asked /\ EndCall(c, "OK", r.body)
           /\ cache' \in {[etag |-> ETag(r.body), body |-> r.body], None, cache}
    <2>1. RightOutcome(c, "OK", r.body) /\ r.body \in RootIndex
        BY <1>1, <1>3 DEF ResponseRight, RightOutcome
    <2>2. r.body \in Documents \cup {None}
        BY <1>1 DEF Response
    <2> QED
        BY <1>1, <1>3, <2>1, <2>2, EndCallSound DEF Outcomes
<1>4. CASE r.result # "NOT_MODIFIED" /\ EndCall(c, r.result, r.body) /\ UNCHANGED cache
    <2>1. RightOutcome(c, r.result, r.body)
        BY <1>1, <1>4 DEF ResponseRight
    <2>2. r.result \in Outcomes /\ r.body \in Documents \cup {None}
        BY <1>1 DEF Response
    <2> QED
        BY <1>1, <1>4, <2>1, <2>2, EndCallSound
<1> QED
    BY <1>2, <1>3, <1>4 DEF Deliver

LEMMA CallFailsSound ==
    ASSUME Sound, NEW c \in Readers, CallFails(c), UNCHANGED vars
    PROVE  ReadTypeOK' /\ CacheMatches' /\ CallSound(c)'
BY EndCallSound DEF CallFails, RightOutcome, NotDenied, Outcomes

LEMMA ExitSound ==
    ASSUME TypeOK, Sound, NEW c \in Readers, Exit(c), UNCHANGED vars
    PROVE  ReadTypeOK' /\ CacheMatches' /\ CallSound(c)'
<1>1. Listed(c) => answer[c].query = query[c] /\ query[c].kind = "root" /\ answer[c].result = "OK"
    BY DEF Listed, Returned, Exit, Sound, CallSound, AnswerRight
<1>2. Listed(c) => answer[c].body \in RootIndex
    BY <1>1 DEF Exit, Sound, CallSound, AnswerRight, RightOutcome, Asked
<1>3. ReadTypeOK'
    BY <1>2 DEF Exit, NoCall, Sound, ReadTypeOK
<1>4. CacheMatches' /\ at'[c] = "idle"
    BY DEF Exit, Sound, CacheMatches, ReadTypeOK
<1> QED
    BY <1>3, <1>4 DEF CallSound, ResponseRight, AnswerRight, CallRemembers, ListingComplete

LEMMA ReaderStepSound ==
    ASSUME TypeOK, Discoverability, Sound, NEW c \in Readers, ReaderStep(c), UNCHANGED vars
    PROVE  Sound'
<1>1. ReadTypeOK' /\ CacheMatches' /\ CallSound(c)'
    <2>1. Questions[c] \subseteq Queries
        BY QuestionsAssumption
    <2> QED
        BY <2>1, AskSound, GetStoredSound, RereadSound, ReadListedSound, DeriveAnswerSound,
           DeliverSound, CallFailsSound, ExitSound
        DEF ReaderStep
<1>2. \A d \in Readers \ {c} : CallSound(d)'
    BY OthersKept DEF Sound
<1> QED
    BY <1>1, <1>2 DEF Sound

-----------------------------------------------------------------------------
(* The steps of writers: what is published stays, and roots grows. *)

LEMMA WriterStepSound ==
    ASSUME TypeOK, TypeOK', Sound, WriterStep
    PROVE  Sound'
<1>1. \A s \in Slots : Published(s) => Published(s)'
    BY PublishedStays DEF WriterStep
<1>2. \A s \in Slots : (details'[s] # None) => SlotOf(details'[s]) = s
    BY DEF TypeOK, StoreTypeOK
<1>3. ReadTypeOK'
    <2>1. announced' \subseteq Slots
        <3> SUFFICES ASSUME NEW h \in Handlers, reply'[h] # None
                     PROVE  SlotOf(reply'[h].request) \in Slots
            BY DEF WriterStep, Sound, ReadTypeOK
        <3>1. reply'[h].request \in Requests
            BY DEF TypeOK, LocalTypeOK, Reply
        <3> QED
            BY <3>1, RequestFields
    <2>2. roots' \in [Readers -> SUBSET (RootIndex \cup {None})]
        BY DEF WriterStep, Sound, ReadTypeOK, TypeOK, StoreTypeOK, RootIndex
    <2> QED
        BY <2>1, <2>2 DEF WriterStep, readers, Sound, ReadTypeOK
<1>4. CacheMatches'
    BY DEF WriterStep, readers, Sound, CacheMatches
<1>5. ASSUME NEW c \in Readers, at[c] # "idle"
      PROVE  CallSound(c)'
    <2>1. /\ at' = at /\ query' = query /\ loaded' = loaded /\ toRead' = toRead /\ found' = found
          /\ response' = response /\ answer' = answer /\ then' = then
          /\ roots'[c] = roots[c] \cup {rootIndex'}
        BY <1>5 DEF WriterStep, readers
    <2>2. CallRemembers(c)'
        BY <1>1, <1>5, <2>1 DEF Sound, CallSound, CallRemembers, Published
    <2>3. ListingComplete(c)'
        BY <1>1, <2>1 DEF Sound, CallSound, ListingComplete, InScope, Published
    <2>4. ResponseRight(c)' /\ AnswerRight(c)'
        BY <1>1, <2>1, ZenonT(60)
        DEF Sound, CallSound, ResponseRight, AnswerRight, RightOutcome, FromServer, Readable,
            NotDenied, Published
    <2> QED
        BY <2>2, <2>3, <2>4 DEF CallSound
<1>6. ASSUME NEW c \in Readers, at[c] = "idle"
      PROVE  CallSound(c)'
    BY <1>6 DEF WriterStep, readers, CallSound, ResponseRight, AnswerRight, CallRemembers, ListingComplete
<1> QED
    BY <1>3, <1>4, <1>5, <1>6 DEF Sound

-----------------------------------------------------------------------------
(* The theorems. *)

LEMMA SoundInit == ReadInit => Sound
<1> SUFFICES ASSUME ReadInit PROVE Sound
    OBVIOUS
<1>1. ReadTypeOK
    BY ElsewhereAssumption DEF ReadInit, ReadTypeOK, Cached, ETag, NoCall
<1> QED
    BY <1>1 DEF ReadInit, Sound, CacheMatches, CallSound, ResponseRight, AnswerRight,
                CallRemembers, ListingComplete

LEMMA SoundNext ==
    TypeOK /\ TypeOK' /\ Discoverability /\ Sound /\ [ReadNext]_readVars => Sound'
<1> SUFFICES ASSUME TypeOK, TypeOK', Discoverability, Sound, [ReadNext]_readVars
             PROVE  Sound'
    OBVIOUS
<1>1. CASE UNCHANGED readVars
    <2>1. UNCHANGED <<cache, at, query, loaded, toRead, found, response, answer, then, shown, roots,
                      details, packageIndex, latestAlias, rootIndex>>
        BY <1>1 DEF readVars, readers, vars, store
    <2>2. ReadTypeOK' /\ CacheMatches'
        BY <1>1, <2>1 DEF Sound, ReadTypeOK, CacheMatches, readVars, readers
    <2>3. ASSUME NEW c \in Readers PROVE CallSound(c)'
        <3>1. ResponseRight(c)' = ResponseRight(c) /\ AnswerRight(c)' = AnswerRight(c)
            BY <2>1 DEF ResponseRight, AnswerRight, RightOutcome, FromServer, Readable,
                        NotDenied, Published
        <3>2. CallRemembers(c)' = CallRemembers(c) /\ ListingComplete(c)' = ListingComplete(c)
            BY <2>1 DEF CallRemembers, ListingComplete, InScope, Published
        <3> QED
            BY <3>1, <3>2 DEF Sound, CallSound
    <2> QED
        BY <2>2, <2>3 DEF Sound
<1> QED
    BY <1>1, WriterStepSound, ReaderStepSound DEF ReadNext

LEMMA AlwaysSound == ReadSpec => []Sound
<1>1. ReadSpec => []TypeOK /\ []Discoverability
    BY Writes, TypeCorrect, DiscoverabilityHolds, PTL
<1> QED
    BY <1>1, SoundInit, SoundNext, PTL DEF ReadSpec

\* The state of requests, listings and the cache keeps its type; among the rest, only
\* details are read from listings and only root indexes are cached.
THEOREM ReadTypeCorrect == ReadSpec => []ReadTypeOK
BY AlwaysSound, PTL DEF Sound

\* However many processes share the cache and however their saves fail, its tag is the
\* tag of its document.
THEOREM CacheMatchesHolds == ReadSpec => []CacheMatches
BY AlwaysSound, PTL DEF Sound

\* Whatever server put its root index in the cache, ls-remote shows the one it asked.
THEOREM RootAnswerIsTheServersHolds == ReadSpec => []RootAnswerIsTheServers
<1>1. Sound => RootAnswerIsTheServers
    BY DEF Sound, ReadTypeOK, CallSound, AnswerRight, RightOutcome, RootAnswerIsTheServers,
           Returned, FromServer
<1> QED
    BY <1>1, AlwaysSound, PTL

\* Every version that an answer names is published, with any number of updates,
\* rebuilds, failures and crashes under way.
THEOREM NamedIsReadableHolds == ReadSpec => []NamedIsReadable
<1>1. Sound => NamedIsReadable
    BY DEF Sound, ReadTypeOK, CallSound, AnswerRight, RightOutcome, NamedIsReadable, Returned
<1> QED
    BY <1>1, AlwaysSound, PTL

\* What was published when a call began is never reported missing.
THEOREM MissingIsMissingHolds == ReadSpec => []MissingIsMissing
<1>1. Sound => MissingIsMissing
    BY DEF Sound, ReadTypeOK, CallSound, AnswerRight, RightOutcome, MissingIsMissing
<1> QED
    BY <1>1, AlwaysSound, PTL

-----------------------------------------------------------------------------
(***************************************************************************)
(* A server that handles one update at a time, with no rebuilder beside    *)
(* it.  What was announced is held by every document that a reader can     *)
(* fetch, because each is then derived from exactly what is published; a   *)
(* listing, which holds no document, is never made for what was announced. *)
(***************************************************************************)

AtLeast(record, key) == record # None /\ Rank[record.key] >= Rank[key]

Held(s) ==
    /\ s \in Slots /\ Published(s)
    /\ packageIndex[s[1]] # None /\ \E v \in packageIndex[s[1]].versions : v.key = s[2]
    /\ AtLeast(latestAlias[s[1]], s[2])
    /\ rootIndex # None /\ AtLeast(rootIndex[s[1]], s[2])

AnnouncedHeld == \A s \in announced : Held(s)

RepliesAnnounced ==
    \A h \in Handlers :
        reply[h] # None /\ reply[h].result = "OK" => SlotOf(reply[h].request) \in announced

\* What an answer to q owes to a version that was announced before the call.
Owes(q, body, s) ==
    /\ q.kind = "root" => AtLeast(body[s[1]], s[2])
    /\ q.kind = "index" /\ q.package = s[1] => \E v \in body.versions : v.key = s[2]
    /\ q.kind = "alias" /\ q.package = s[1] => AtLeast(body, s[2])

Owed(c, result, body) ==
    result = "OK" => \A s \in then[c].announced : Owes(query[c], body, s)

CallShows(c) ==
    /\ at[c] # "idle" => then[c].announced \subseteq announced
    /\ at[c] = "reread" => query[c].kind = "detail"
    /\ at[c] = "list" /\ query[c].kind # "detail" =>
        \A s \in then[c].announced : ~InScope(c, s)
    /\ at[c] = "deliver" =>
        IF response[c].result = "NOT_MODIFIED"
        THEN Owed(c, "OK", loaded[c].body)
        ELSE Owed(c, response[c].result, response[c].body)
    /\ at[c] = "done" => Owed(c, answer[c].result, answer[c].body)

\* Documents derived from what is published hold every published version.
LEMMA CurrentHolds ==
    ASSUME TypeOK, NEW s \in Slots, Published(s)
    PROVE  /\ \A d \in Latests(DetailsIn(Reg!Stored, s[1])) :
                /\ d # None /\ Rank[d.key] >= Rank[s[2]]
                /\ \E v \in IndexOf(DetailsIn(Reg!Stored, s[1]), d).versions : v.key = s[2]
           /\ \A r \in RootIndexes(Packages, Reg!Stored) : AtLeast(r[s[1]], s[2])
<1> DEFINE S == DetailsIn(Reg!Stored, s[1])
           e == details[s]
<1>1. e \in VersionedPackageDetail /\ SlotOf(e) = s
    BY DEF TypeOK, StoreTypeOK, Published
<1>2. e.package = s[1] /\ e.key = s[2] /\ s[1] \in Packages /\ e \in S
    BY <1>1 DEF SlotOf, VersionedPackageDetail, DetailsIn, Reg!Stored, Published
<1>3. S \in SUBSET VersionedPackageDetail
    BY DEF DetailsIn, Reg!Stored, TypeOK, StoreTypeOK
<1>4. ASSUME NEW d \in Latests(S)
      PROVE  d \in VersionedPackageDetail /\ Rank[d.key] >= Rank[s[2]]
    <2> HIDE DEF S, e
    <2>1. d \in S
        BY <1>4 DEF Latests
    <2> QED
        BY <1>2, <1>3, <1>4, <2>1, LatestIsNewest
<1>5. ASSUME NEW d \in Latests(S)
      PROVE  \E v \in IndexOf(S, d).versions : v.key = s[2]
    <2> HIDE DEF S, e
    <2>1. Record(e) \in IndexOf(S, d).versions /\ Record(e).key = s[2]
        BY <1>2 DEF IndexOf, Record
    <2> QED
        BY <2>1
<1>6. ASSUME NEW r \in RootIndexes(Packages, Reg!Stored)
      PROVE  AtLeast(r[s[1]], s[2])
    <2>1. PICK d \in FirstLatests(S) : r[s[1]] = Record(d)
        BY <1>2, <1>6 DEF RootIndexes
    <2>2. d \in Latests(S)
        BY <2>1 DEF FirstLatests
    <2>3. d \in VersionedPackageDetail /\ Rank[d.key] >= Rank[s[2]]
        BY <2>2, <1>4
    <2>4. Record(d) \in VersionRecord /\ Record(d).key = d.key
        BY <2>3 DEF Record, VersionRecord, VersionedPackageDetail
    <2> QED
        BY <2>1, <2>3, <2>4, NoneAssumption DEF AtLeast
<1> QED
    BY <1>4, <1>5, <1>6, NoneAssumption

\* A step of the abstract registry leaves every document holding what it held.
LEMMA HeldStays ==
    ASSUME TypeOK, OneAtATime, SerialSound, [Next]_vars, NEW s \in Slots, Held(s)
    PROVE  Held(s)'
<1>1. Published(s)'
    BY PublishedStays DEF Held
<1>2. /\ s[1] \in Packages
      /\ \A p \in Packages : (p = s[1]) => s[1] = p
    BY DEF Slots, SlotOf, Packages
<1>3. CASE UNCHANGED <<packageIndex, latestAlias, rootIndex>>
    BY <1>1, <1>3 DEF Held
<1>4. ASSUME NEW p \in Packages, Reg!RefreshIndex(p)
      PROVE  Held(s)'
    <2>1. PICK d \in Latests(DetailsIn(Reg!Stored, p)) :
            packageIndex' = [packageIndex EXCEPT ![p] = IndexOf(DetailsIn(Reg!Stored, p), d)]
        BY <1>4, SameDerivation DEF Reg!RefreshIndex
    <2>2. UNCHANGED <<latestAlias, rootIndex>>
        BY <1>4 DEF Reg!RefreshIndex
    <2>3. packageIndex'[s[1]] # None /\ \E v \in packageIndex'[s[1]].versions : v.key = s[2]
        <3>1. CASE p = s[1]
            <4>1. packageIndex'[s[1]] = IndexOf(DetailsIn(Reg!Stored, s[1]), d)
                BY <2>1, <3>1 DEF TypeOK, StoreTypeOK
            <4>2. d \in VersionedPackageDetail
                BY DEF Latests, DetailsIn, Reg!Stored, TypeOK, StoreTypeOK
            <4>3. IndexOf(DetailsIn(Reg!Stored, s[1]), d) \in PackageVersionsIndex
                BY <4>2 DEF IndexOf, Record, PackageVersionsIndex, VersionRecord,
                            VersionedPackageDetail, DetailsIn, Reg!Stored, TypeOK, StoreTypeOK
            <4> QED
                BY <3>1, <4>1, <4>3, CurrentHolds, NoneAssumption DEF Held
        <3>2. CASE p # s[1]
            BY <2>1, <3>2, <1>2 DEF Held, TypeOK, StoreTypeOK
        <3> QED
            BY <3>1, <3>2
    <2> QED
        BY <1>1, <2>2, <2>3 DEF Held
<1>5. ASSUME NEW p \in Packages, Reg!RefreshAlias(p)
      PROVE  Held(s)'
    <2>1. PICK d \in Latests(DetailsIn(Reg!Stored, p)) :
            latestAlias' = [latestAlias EXCEPT ![p] = d]
        BY <1>5, SameDerivation DEF Reg!RefreshAlias
    <2>2. UNCHANGED <<packageIndex, rootIndex>>
        BY <1>5 DEF Reg!RefreshAlias
    <2>3. AtLeast(latestAlias'[s[1]], s[2])
        BY <1>2, <2>1, CurrentHolds DEF Held, AtLeast, TypeOK, StoreTypeOK
    <2> QED
        BY <1>1, <2>2, <2>3 DEF Held
<1>6. CASE Reg!RefreshRoot
    <2>1. rootIndex' \in RootIndexes(Packages, Reg!Stored)
        BY <1>6, SameDerivation DEF Reg!RefreshRoot
    <2>2. rootIndex' # None
        <3>1. rootIndex' \in [Packages -> VersionRecord \cup {None}]
            BY <2>1, RootIndexesType DEF Reg!Stored, TypeOK, StoreTypeOK
        <3> QED
            BY <3>1, NoneAssumption
    <2> QED
        BY <1>1, <1>6, <2>1, <2>2, CurrentHolds DEF Held, Reg!RefreshRoot
<1>7. [Reg!Next]_<<details, packageIndex, latestAlias, rootIndex>>
    BY RegistryStep
<1> QED
    BY <1>3, <1>4, <1>5, <1>6, <1>7 DEF Reg!Next, Reg!Publish

\* A step with an answer of 200 has it from before, or writes the root index.
LEMMA Answers ==
    ASSUME TypeOK, OneAtATime, NEW h \in Handlers, [Next]_vars,
           reply'[h] # None, reply'[h].result = "OK"
    PROVE  reply'[h] = reply[h] \/ (PutRootIndex(h) /\ pc'[h] = "idle" /\ reply'[h].request = job[h])
<1> h \in Writers
    BY DEF Writers
<1>1. CASE pc'[h] = "idle"
    <2> DEFINE updated == latest[h].key = job[h].key
    <2>1. \/ reply'[h] = reply[h]
          \/ PutRootIndex(h) /\ reply'[h] = [request |-> job[h], result |-> "OK", updated |-> updated]
        BY <1>1, Succeeds
    <2> HIDE DEF updated
    <2> QED
        BY <1>1, <2>1
<1>2. CASE pc'[h] # "idle"
    <2>1. \A result, updated : ~Finish(h, result, updated)
        BY <1>2 DEF Finish, TypeOK, LocalTypeOK
    <2>2. CASE HandlerStep(h)
        BY <2>1, <2>2 DEF HandlerStep, ReserveJTI, DetectReplay, BindPackage, DetectMismatch,
            Validate, FindFree, FindSame, FindDifferent, PutDetail, Fail, Goto, List
    <2>3. CASE SharedStep(h)
        BY <2>1, <2>3 DEF SharedStep, ReadDetail, PutPackageVersionsIndex, PutLatestAlias,
            PutRootIndex, AfterAlias, Fail
    <2>4. CASE StoreError(h) \/ Crash \/ UNCHANGED vars
        BY <1>2, <2>1, <2>4 DEF StoreError, Fail, Crash, vars, local
    <2>5. CASE \E r \in Requests : Receive(h, r)
        BY <2>5 DEF Receive
    <2> QED
        BY <2>2, <2>3, <2>4, <2>5, LoneStep
<1> QED
    BY <1>1, <1>2

\* What is answered 200 is held by every document at that moment.
LEMMA AnsweredHeld ==
    ASSUME TypeOK, OneAtATime, SerialSound, OwnVersionListed, NEW h \in Handlers, PutRootIndex(h),
           NEW s \in Slots, SlotOf(job[h]) = s
    PROVE  Held(s)'
<1>1. s[1] = job[h].package /\ s[2] = job[h].key /\ s[1] \in Packages
    BY RequestFields DEF SlotOf, PutRootIndex, TypeOK, LocalTypeOK
<1>2. Published(s)
    <2>1. PICK d \in seen[h] : SlotOf(d) = s
        BY DEF PutRootIndex, OwnVersionListed
    <2>2. d \in Reg!Stored
        BY <2>1, ListedRoot DEF SerialSound, PutRootIndex
    <2> QED
        BY <2>1, <2>2 DEF Reg!Stored, TypeOK, StoreTypeOK, Published
<1>3. latest[h] \in Latests(DetailsIn(Reg!Stored, s[1]))
      /\ packageIndex[s[1]] = IndexOf(DetailsIn(Reg!Stored, s[1]), latest[h])
      /\ latestAlias[s[1]] = latest[h]
    BY <1>1 DEF PutRootIndex, SerialSound, DocumentsFollow, Heads
<1>4. packageIndex[s[1]] # None
    <2>1. latest[h] \in VersionedPackageDetail
        BY <1>3 DEF Latests, DetailsIn, Reg!Stored, TypeOK, StoreTypeOK
    <2>2. IndexOf(DetailsIn(Reg!Stored, s[1]), latest[h]) \in PackageVersionsIndex
        BY <2>1 DEF IndexOf, Record, PackageVersionsIndex, VersionRecord,
                    VersionedPackageDetail, DetailsIn, Reg!Stored, TypeOK, StoreTypeOK
    <2> QED
        BY <1>3, <2>2, NoneAssumption
<1>5. rootIndex' \in RootIndexes(Packages, Reg!Stored)
    BY RootWritten DEF SerialSound
<1>6. rootIndex' # None
    <2>1. rootIndex' \in [Packages -> VersionRecord \cup {None}]
        BY <1>5, RootIndexesType DEF Reg!Stored, TypeOK, StoreTypeOK
    <2> QED
        BY <2>1, NoneAssumption
<1>7. UNCHANGED <<details, packageIndex, latestAlias>>
    BY DEF PutRootIndex
<1> QED
    BY <1>2, <1>3, <1>4, <1>5, <1>6, <1>7, CurrentHolds DEF Held, AtLeast, Published

Announced == AnnouncedHeld /\ RepliesAnnounced

LEMMA AnnouncedStep ==
    ASSUME TypeOK, OneAtATime, SerialSound, OwnVersionListed, Sound, Announced, WriterStep
    PROVE  Announced'
<1>1. ASSUME NEW s \in announced
      PROVE  Held(s)'
    <2>1. Held(s) /\ s \in Slots
        BY DEF Announced, AnnouncedHeld, Held
    <2> QED
        BY <2>1, HeldStays DEF WriterStep
<1>2. ASSUME NEW h \in Handlers, reply'[h] # None, reply'[h].result = "OK",
             NEW s, s = SlotOf(reply'[h].request)
      PROVE  s \in announced \/ Held(s)'
    <2>1. CASE reply'[h] = reply[h]
        BY <1>2, <2>1 DEF Announced, RepliesAnnounced
    <2>2. CASE PutRootIndex(h) /\ reply'[h].request = job[h]
        <3>1. s = SlotOf(job[h]) /\ s \in Slots
            BY <1>2, <2>2, RequestFields DEF PutRootIndex, TypeOK, LocalTypeOK
        <3> QED
            BY <2>2, <3>1, AnsweredHeld
    <2> QED
        BY <1>2, <2>1, <2>2, Answers DEF WriterStep
<1>3. announced' = announced \cup
        {SlotOf(reply'[h].request) : h \in {g \in Handlers : reply'[g] # None /\ reply'[g].result = "OK"}}
    BY DEF WriterStep
<1>4. AnnouncedHeld'
    <2> SUFFICES ASSUME NEW s \in announced'
                 PROVE  Held(s)'
        BY DEF AnnouncedHeld
    <2> QED
        BY <1>1, <1>2, <1>3
<1>5. RepliesAnnounced'
    BY <1>3 DEF RepliesAnnounced
<1> QED
    BY <1>4, <1>5 DEF Announced

\* A stored document shows what it holds; a listing begins only where none is stored.
LEMMA StoredShows ==
    ASSUME TypeOK, Sound, Announced, NEW c \in Readers, at[c] # "idle", CallShows(c)
    PROVE  /\ Stored(query[c]) # None => Owed(c, "OK", Stored(query[c]))
           /\ Stored(query[c]) = None /\ query[c].kind \notin {"detail", "elsewhere"} =>
                \A s \in then[c].announced : ~InScope(c, s)
<1>1. query[c] \in Queries
    BY DEF Sound, ReadTypeOK
<1>2. \A s \in then[c].announced : Held(s)
    BY DEF CallShows, Announced, AnnouncedHeld
<1>3. query[c].kind \in {"root", "elsewhere", "index", "alias", "detail"}
    BY <1>1, StoredType
<1>4. CASE query[c].kind = "root"
    <2>1. Stored(query[c]) = rootIndex
        BY <1>1, <1>4, StoredType
    <2> QED
        BY <1>2, <1>4, <2>1 DEF Held, Owed, Owes
<1>5. CASE query[c].kind = "index"
    <2>1. Stored(query[c]) = packageIndex[query[c].package]
        BY <1>1, <1>5, StoredType
    <2> QED
        BY <1>2, <1>5, <2>1 DEF Held, Owed, Owes, InScope
<1>6. CASE query[c].kind = "alias"
    <2>1. Stored(query[c]) = latestAlias[query[c].package]
        BY <1>1, <1>6, StoredType
    <2> QED
        BY <1>2, <1>6, <2>1 DEF Held, Owed, Owes, InScope, AtLeast
<1>7. CASE query[c].kind \in {"detail", "elsewhere"}
    BY <1>7 DEF Owed, Owes
<1> QED
    BY <1>3, <1>4, <1>5, <1>6, <1>7

LEMMA RespondShows ==
    ASSUME Sound, NEW c \in Readers, at[c] \in {"get", "reread", "list"}, CallShows(c),
           NEW result \in Outcomes \ {"NOT_MODIFIED"}, NEW doc,
           Owed(c, result, doc), Respond(c, result, doc), ServerOnly
    PROVE  CallShows(c)'
<1>1. /\ at'[c] = "deliver" /\ query' = query /\ loaded' = loaded /\ then' = then
      /\ announced' = announced
    BY DEF Respond, ServerOnly, Sound, ReadTypeOK
<1>2. CASE result = "OK" /\ loaded[c] # None /\ loaded[c].etag = ETag(doc)
    <2>1. response'[c].result = "NOT_MODIFIED" /\ loaded[c].body = doc
        BY <1>2 DEF Respond, Sound, ReadTypeOK, CacheMatches, ETag
    <2> QED
        BY <1>1, <1>2, <2>1 DEF CallShows, Owed, Owes
<1>3. CASE ~(result = "OK" /\ loaded[c] # None /\ loaded[c].etag = ETag(doc))
    <2>1. response'[c].result = result /\ response'[c].body = doc
        BY <1>3 DEF Respond, Sound, ReadTypeOK
    <2> QED
        BY <1>1, <2>1 DEF CallShows, Owed, Owes
<1> QED
    BY <1>2, <1>3

LEMMA StartListingShows ==
    ASSUME TypeOK, Sound, Announced, NEW c \in Readers, at[c] \in {"get", "reread"}, CallShows(c),
           Stored(query[c]) = None, StartListing(c), ServerOnly
    PROVE  CallShows(c)'
<1>1. at'[c] = "list" /\ query' = query /\ then' = then /\ announced' = announced
    BY DEF StartListing, ServerOnly, Sound, ReadTypeOK
<1>2. query[c].kind # "elsewhere"
    BY StoredType DEF Sound, ReadTypeOK
<1>3. query[c].kind # "detail" => \A s \in then[c].announced : ~InScope(c, s)
    BY <1>2, StoredShows
<1> QED
    BY <1>1, <1>3 DEF CallShows, InScope

LEMMA EndCallShows ==
    ASSUME Sound, NEW c \in Readers, at[c] \notin {"idle", "done"}, CallShows(c),
           NEW result, NEW body, Owed(c, result, body), EndCall(c, result, body)
    PROVE  CallShows(c)'
<1>1. /\ at'[c] = "done" /\ query' = query /\ then' = then /\ announced' = announced
      /\ answer'[c] = [query |-> query[c], result |-> result, body |-> body]
    BY DEF EndCall, Sound, ReadTypeOK
<1> QED
    BY <1>1 DEF CallShows, Owed, Owes

LEMMA ReaderShows ==
    ASSUME TypeOK, Sound, Announced, NEW c \in Readers, ReaderStep(c), UNCHANGED vars, CallShows(c)
    PROVE  CallShows(c)'
<1>1. ASSUME NEW q \in Questions[c], Ask(c, q)
      PROVE  CallShows(c)'
    BY <1>1 DEF Ask, CallShows, Sound, ReadTypeOK
<1>2. CASE GetStored(c)
    <2>1. CASE Stored(query[c]) # None /\ Respond(c, "OK", Stored(query[c]))
        BY <1>2, <2>1, StoredShows, RespondShows DEF GetStored, Outcomes
    <2>2. CASE /\ Stored(query[c]) = None /\ query[c].kind = "detail"
               /\ at' = [at EXCEPT ![c] = "reread"]
        BY <1>2, <2>2 DEF GetStored, ServerOnly, CallShows, Sound, ReadTypeOK
    <2>3. CASE Stored(query[c]) = None /\ StartListing(c)
        BY <1>2, <2>3, StartListingShows DEF GetStored
    <2> QED
        BY <1>2, <2>1, <2>2, <2>3 DEF GetStored
<1>3. CASE Reread(c)
    <2>1. CASE Stored(query[c]) # None /\ Respond(c, "OK", Stored(query[c]))
        BY <1>3, <2>1, StoredShows, RespondShows DEF Reread, Outcomes
    <2>2. CASE Stored(query[c]) = None /\ StartListing(c)
        BY <1>3, <2>2, StartListingShows DEF Reread
    <2> QED
        BY <1>3, <2>1, <2>2 DEF Reread
<1>4. CASE DeriveAnswer(c)
    <2>1. ASSUME NEW result \in Outcomes \ {"NOT_MODIFIED"}, NEW doc, Respond(c, result, doc),
                 query[c].kind # "detail" \/ result # "OK"
          PROVE  CallShows(c)'
        <3>1. Owed(c, result, doc)
            BY <1>4, <2>1 DEF DeriveAnswer, CallShows, Owed, Owes, InScope
        <3> QED
            BY <1>4, <2>1, <3>1, RespondShows DEF DeriveAnswer
    <2> QED
        BY <1>4, <2>1 DEF DeriveAnswer, Outcomes
<1>5. ASSUME NEW s \in Slots, ReadListed(c, s)
      PROVE  CallShows(c)'
    BY <1>5 DEF ReadListed, ServerOnly, CallShows, InScope
<1>6. CASE Deliver(c)
    BY <1>6, EndCallShows DEF Deliver, CallShows
<1>7. CASE CallFails(c)
    BY <1>7, EndCallShows DEF CallFails, Owed
<1>8. CASE Exit(c)
    BY <1>8 DEF Exit, CallShows, Sound, ReadTypeOK
<1> QED
    BY <1>1, <1>2, <1>3, <1>4, <1>5, <1>6, <1>7, <1>8 DEF ReaderStep

Shows == Announced /\ \A c \in Readers : CallShows(c)

LEMMA ShowsNext ==
    ASSUME TypeOK, OneAtATime, SerialSound, OwnVersionListed, Sound, Shows, [ReadNext]_readVars
    PROVE  Shows'
<1>1. CASE UNCHANGED readVars
    BY <1>1
    DEF readVars, readers, vars, store, local, Shows, Announced, AnnouncedHeld, Held, Published,
        RepliesAnnounced, CallShows, Owed, Owes, InScope
<1>2. CASE WriterStep
    <2>1. Announced'
        BY <1>2, AnnouncedStep DEF Shows
    <2>2. announced \subseteq announced'
        BY <1>2 DEF WriterStep
    <2> QED
        BY <1>2, <2>1, <2>2 DEF Shows, WriterStep, readers, CallShows, Owed, Owes, InScope
<1>3. ASSUME NEW c \in Readers, ReaderStep(c), UNCHANGED vars
      PROVE  Shows'
    <2>1. announced' = announced
        BY <1>3 DEF ReaderStep, Ask, GetStored, Reread, ReadListed, DeriveAnswer, Deliver,
            CallFails, Exit, EndCall, ServerOnly
    <2>2. Announced'
        BY <1>3, <2>1
        DEF Shows, Announced, AnnouncedHeld, Held, Published, RepliesAnnounced, vars, store, local
    <2>3. CallShows(c)'
        BY <1>3, ReaderShows DEF Shows
    <2>4. ASSUME NEW d \in Readers \ {c}
          PROVE  CallShows(d)'
        <3>1. /\ at'[d] = at[d] /\ query'[d] = query[d] /\ loaded'[d] = loaded[d]
              /\ response'[d] = response[d] /\ answer'[d] = answer[d] /\ then'[d] = then[d]
            BY <1>3 DEF ReaderStep, Ask, GetStored, Reread, ReadListed, DeriveAnswer, Deliver,
                CallFails, Exit, Respond, StartListing, EndCall, ServerOnly, Sound, ReadTypeOK
        <3> QED
            BY <2>1, <3>1 DEF Shows, CallShows, Owed, Owes, InScope
    <2> QED
        BY <2>2, <2>3, <2>4 DEF Shows
<1> QED
    BY <1>1, <1>2, <1>3 DEF ReadNext

LEMMA Serial ==
    OneAtATime => (ReadSpec => [](TypeOK /\ SerialSound /\ OwnVersionListed /\ Sound))
BY Writes, TypeCorrect, SerialSoundHolds, OwnVersionListedHolds, AlwaysSound, PTL

\* While updates do not overlap, a publisher that was answered 200 can rely on every
\* call that begins later to see its version, through every route and the cache.
THEOREM SuccessIsVisibleHolds == OneAtATime => (ReadSpec => []SuccessIsVisible)
<1> SUFFICES ASSUME OneAtATime
             PROVE  ReadSpec => []SuccessIsVisible
    OBVIOUS
<1>1. ReadInit => Shows
    BY DEF ReadInit, Init, Shows, Announced, AnnouncedHeld, RepliesAnnounced, CallShows
<1>2. TypeOK /\ SerialSound /\ OwnVersionListed /\ Sound /\ Shows /\ [ReadNext]_readVars => Shows'
    BY ShowsNext
<1>3. Sound /\ Shows => SuccessIsVisible
    BY DEF Sound, ReadTypeOK, CallSound, AnswerRight, Shows, CallShows, Owed, Owes, AtLeast,
           SuccessIsVisible, Returned
<1> QED
    BY <1>1, <1>2, <1>3, Serial, PTL DEF ReadSpec

-----------------------------------------------------------------------------
(***************************************************************************)
(* The root index goes forward, and so do the listings of one process: it  *)
(* is shown a root index stored during the call, and every root index      *)
(* stored later is no older.                                               *)
(***************************************************************************)

NoOlder(later, earlier) ==
    /\ later # None
    /\ \A p \in Packages : earlier[p] # None => AtLeast(later[p], earlier[p].key)

CallGoesForward(c) ==
    /\ at[c] # "idle" => \A r \in roots[c] : r # None => NoOlder(rootIndex, r)
    /\ shown[c] # None =>
        /\ NoOlder(rootIndex, shown[c])
        /\ \A r \in roots[c] : r # None /\ NoOlder(r, shown[c])

LEMMA NoOlderTransitive ==
    ASSUME NEW a \in RootIndex, NEW b \in RootIndex, NEW d \in RootIndex, NoOlder(b, a), NoOlder(d, b)
    PROVE  NoOlder(d, a)
<1> SUFFICES ASSUME NEW p \in Packages, a[p] # None
             PROVE  AtLeast(d[p], a[p].key)
    BY DEF NoOlder
<1>1. AtLeast(b[p], a[p].key) /\ AtLeast(d[p], b[p].key)
    BY DEF NoOlder, AtLeast
<1>2. a[p] \in VersionRecord /\ b[p] \in VersionRecord /\ d[p] \in VersionRecord
    BY <1>1 DEF RootIndex, AtLeast
<1>3. Rank[a[p].key] \in Nat /\ Rank[b[p].key] \in Nat /\ Rank[d[p].key] \in Nat
    BY <1>2, OrderAssumption DEF VersionRecord
<1> QED
    BY <1>1, <1>3 DEF AtLeast

LEMMA NoOlderReflexive ==
    ASSUME NEW r \in RootIndex
    PROVE  NoOlder(r, r)
<1>1. ASSUME NEW p \in Packages, r[p] # None
      PROVE  Rank[r[p].key] \in Nat
    BY <1>1, OrderAssumption DEF RootIndex, VersionRecord
<1> QED
    BY <1>1, NoneAssumption DEF NoOlder, AtLeast, RootIndex

LEMMA RootGoesForward ==
    ASSUME TypeOK, TypeOK', Discoverability, OneAtATime, SerialSound, [Next]_vars, rootIndex # None
    PROVE  NoOlder(rootIndex', rootIndex)
<1>1. CASE rootIndex' = rootIndex
    BY <1>1, NoOlderReflexive DEF RootIndex, TypeOK, StoreTypeOK
<1>2. CASE Reg!RefreshRoot
    <2>1. rootIndex' \in RootIndexes(Packages, Reg!Stored)
        BY <1>2, SameDerivation DEF Reg!RefreshRoot
    <2>2. rootIndex' # None
        <3>1. rootIndex' \in [Packages -> VersionRecord \cup {None}]
            BY <2>1, RootIndexesType DEF Reg!Stored, TypeOK, StoreTypeOK
        <3> QED
            BY <3>1, NoneAssumption
    <2>3. ASSUME NEW p \in Packages, rootIndex[p] # None
          PROVE  AtLeast(rootIndex'[p], rootIndex[p].key)
        <3>1. PICK s \in Slots : s = <<p, rootIndex[p].key>> /\ Published(s)
            BY <2>3 DEF Discoverability
        <3>2. AtLeast(rootIndex'[s[1]], s[2])
            BY <2>1, <3>1, CurrentHolds
        <3> QED
            BY <3>1, <3>2
    <2> QED
        BY <2>2, <2>3 DEF NoOlder
<1>3. [Reg!Next]_<<details, packageIndex, latestAlias, rootIndex>>
    BY RegistryStep
<1> QED
    BY <1>1, <1>2, <1>3 DEF Reg!Next, Reg!Publish, Reg!RefreshIndex, Reg!RefreshAlias

LEMMA WriterGoesForward ==
    ASSUME TypeOK, TypeOK', Discoverability, OneAtATime, SerialSound, Sound, WriterStep,
           NEW c \in Readers, CallGoesForward(c)
    PROVE  CallGoesForward(c)'
<1>1. at' = at /\ shown' = shown /\ [Next]_vars
      /\ roots'[c] = IF at[c] = "idle" THEN roots[c] ELSE roots[c] \cup {rootIndex'}
    BY DEF WriterStep, readers
<1>2. /\ rootIndex \in RootIndex \cup {None} /\ rootIndex' \in RootIndex \cup {None}
      /\ roots[c] \subseteq RootIndex \cup {None} /\ shown[c] \in RootIndex \cup {None}
    BY DEF TypeOK, StoreTypeOK, RootIndex, Sound, ReadTypeOK
<1>3. rootIndex # None => NoOlder(rootIndex', rootIndex)
    BY <1>1, RootGoesForward
<1>4. ASSUME NEW r \in RootIndex, NoOlder(rootIndex, r)
      PROVE  NoOlder(rootIndex', r)
    <2>1. rootIndex # None
        BY <1>4 DEF NoOlder
    <2>2. NoOlder(rootIndex', rootIndex) /\ rootIndex' # None
        BY <1>3, <2>1 DEF NoOlder
    <2> QED
        BY <1>2, <1>4, <2>1, <2>2, NoOlderTransitive
<1>5. rootIndex' # None => NoOlder(rootIndex', rootIndex')
    BY <1>2, NoOlderReflexive
<1>6. ASSUME at[c] # "idle", NEW r \in roots'[c], r # None
      PROVE  NoOlder(rootIndex', r)
    BY <1>1, <1>2, <1>4, <1>5, <1>6 DEF CallGoesForward
<1>7. ASSUME shown[c] # None
      PROVE  /\ NoOlder(rootIndex', shown[c])
             /\ \A r \in roots'[c] : r # None /\ NoOlder(r, shown[c])
    <2>1. NoOlder(rootIndex', shown[c])
        BY <1>2, <1>4, <1>7 DEF CallGoesForward
    <2> QED
        BY <1>1, <1>7, <2>1 DEF CallGoesForward, NoOlder
<1> QED
    BY <1>1, <1>6, <1>7 DEF CallGoesForward

LEMMA ReaderGoesForward ==
    ASSUME TypeOK, Sound, NEW c \in Readers, ReaderStep(c), UNCHANGED vars, CallGoesForward(c)
    PROVE  CallGoesForward(c)'
<1>1. rootIndex' = rootIndex /\ rootIndex \in RootIndex \cup {None}
    BY DEF vars, store, TypeOK, StoreTypeOK, RootIndex
<1>2. ASSUME NEW q \in Questions[c], Ask(c, q)
      PROVE  CallGoesForward(c)'
    <2>1. roots'[c] = {rootIndex} /\ shown' = shown
        BY <1>2 DEF Ask, Sound, ReadTypeOK
    <2>2. rootIndex # None => NoOlder(rootIndex, rootIndex)
        BY <1>1, NoOlderReflexive
    <2> QED
        BY <1>1, <2>1, <2>2 DEF CallGoesForward, NoOlder
<1>3. CASE roots' = roots /\ shown' = shown /\ (at'[c] # "idle" => at[c] # "idle")
    BY <1>1, <1>3 DEF CallGoesForward
<1>4. CASE Exit(c)
    <2>1. at'[c] = "idle" /\ roots'[c] = {} /\ at[c] # "idle"
        BY <1>4 DEF Exit, Sound, ReadTypeOK
    <2>2. shown'[c] = IF Listed(c) /\ answer[c].body \in roots[c] THEN answer[c].body ELSE shown[c]
        BY <1>4 DEF Exit, Sound, ReadTypeOK
    <2> QED
        BY <1>1, <2>1, <2>2 DEF CallGoesForward
<1>5. GetStored(c) \/ Reread(c) \/ DeriveAnswer(c) \/ Deliver(c) \/ CallFails(c)
      \/ (\E s \in Slots : ReadListed(c, s)) =>
        roots' = roots /\ shown' = shown /\ at[c] # "idle"
    BY DEF GetStored, Reread, DeriveAnswer, Deliver, CallFails, ReadListed, EndCall, ServerOnly
<1> QED
    BY <1>2, <1>3, <1>4, <1>5 DEF ReaderStep

GoesForward == \A c \in Readers : CallGoesForward(c)

LEMMA GoesForwardNext ==
    ASSUME TypeOK, TypeOK', Discoverability, OneAtATime, SerialSound, Sound,
           GoesForward, [ReadNext]_readVars
    PROVE  GoesForward'
<1> USE DEF GoesForward
<1>1. CASE UNCHANGED readVars
    BY <1>1 DEF readVars, readers, vars, store, CallGoesForward
<1>2. CASE WriterStep
    BY <1>2, WriterGoesForward
<1>3. ASSUME NEW c \in Readers, ReaderStep(c), UNCHANGED vars, NEW d \in Readers \ {c}
      PROVE  CallGoesForward(d)'
    <2>1. at'[d] = at[d] /\ roots'[d] = roots[d] /\ shown'[d] = shown[d] /\ rootIndex' = rootIndex
        BY <1>3 DEF ReaderStep, Ask, GetStored, Reread, ReadListed, DeriveAnswer, Deliver,
            CallFails, Exit, Respond, StartListing, EndCall, ServerOnly, Sound, ReadTypeOK, vars, store
    <2> QED
        BY <2>1 DEF CallGoesForward
<1> QED
    BY <1>1, <1>2, <1>3, ReaderGoesForward DEF ReadNext

\* While updates do not overlap, a process that was shown a stored root index never
\* sees a package vanish or go back afterwards, whoever answers it.
THEOREM ListingsGoForwardHolds == OneAtATime => (ReadSpec => []ListingsGoForward)
<1> SUFFICES ASSUME OneAtATime
             PROVE  ReadSpec => []ListingsGoForward
    OBVIOUS
<1>1. ReadInit => GoesForward
    BY DEF ReadInit, GoesForward, CallGoesForward
<1>2. TypeOK /\ TypeOK' /\ Discoverability /\ SerialSound /\ Sound /\ GoesForward
        /\ [ReadNext]_readVars => GoesForward'
    BY GoesForwardNext
<1>3. Sound /\ GoesForward => ListingsGoForward
    <2> SUFFICES ASSUME Sound, GoesForward, NEW c \in Readers, Listed(c), shown[c] # None
                 PROVE  NoOlder(answer[c].body, shown[c])
        BY DEF ListingsGoForward, NoOlder, AtLeast
    <2>1. at[c] = "done" /\ answer[c].query.kind = "root"
        BY DEF Listed, Returned, Sound, ReadTypeOK
    <2>2. FromServer(c, answer[c].query, answer[c].body)
        BY <2>1 DEF Sound, CallSound, AnswerRight, RightOutcome, Listed, Returned
    <2>3. \A r \in roots[c] : r # None /\ NoOlder(r, shown[c])
        BY DEF GoesForward, CallGoesForward
    <2> QED
        BY <2>1, <2>2, <2>3 DEF FromServer
<1>4. ReadSpec => []Discoverability
    BY Writes, DiscoverabilityHolds, PTL
<1> QED
    BY <1>1, <1>2, <1>3, <1>4, Serial, PTL DEF ReadSpec

=============================================================================
