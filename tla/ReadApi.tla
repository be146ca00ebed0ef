------------------------------- MODULE ReadApi -------------------------------
(***************************************************************************)
(* The read side of the indexer beside its write path: GET requests for    *)
(* the root index, a package's versions index, its latest alias and one    *)
(* versioned detail, and the CLI commands that send them (ls-remote with   *)
(* its metadata cache, show).                                              *)
(*                                                                         *)
(* A GET answers with the stored document; where none is stored it lists   *)
(* the details, one object at a time, and derives the document.  The CLI   *)
(* processes of a user share one cache file, whatever server they ask:     *)
(* ls-remote loads it, sends its ETag as If-None-Match, and much later     *)
(* uses what it has loaded (304) or replaces the file (200).               *)
(***************************************************************************)
EXTENDS Publication

CONSTANTS
    Readers,        \* GET requests in progress at the same time, CLI processes among them
    Questions,      \* Questions[c]: the queries that reader c sends
    Elsewhere,      \* root index of another server the CLI may be pointed at (FONTPUB_BASE_URL)
    MaxReads        \* bound: GET requests in a behaviour

RootIndex == [Packages -> VersionRecord \cup {None}]

Queries ==
    [kind : {"root", "elsewhere"}, package : {None}, key : {None}]
    \cup [kind : {"index", "alias"}, package : Packages, key : {None}]
    \cup [kind : {"detail"}, package : Packages, key : VersionKeys]

ASSUME QuestionsAssumption == Questions \in [Readers -> SUBSET Queries]
ASSUME ElsewhereAssumption == Elsewhere \in RootIndex
ASSUME MaxReadsAssumption == MaxReads \in Nat

VARIABLES
    cache,          \* metadata-cache.json: None, or the root index it holds and its ETag
    at,             \* reader -> what its request does next
    query,          \* reader -> the query it has sent, or None
    loaded,         \* reader -> the cache as LoadRootIndex returned it, or None
    toRead,         \* reader -> slots that the listing for its request has still to read
    found,          \* reader -> details that listing has read
    response,       \* reader -> the response under way, or None
    answer,         \* reader -> what its call has returned, or None
    \* history and bounds
    announced,      \* slots whose publication was answered 200
    then,           \* reader -> the slots published and announced when its call began
    roots,          \* reader -> root indexes stored (or None) while its call went on
    shown,          \* reader -> the last stored root index it was shown, or None
    reads

readers == <<cache, at, query, loaded, toRead, found, response, answer, then, shown, reads>>
readVars == <<vars, readers, announced, roots>>

\* ComputeETag hashes the bytes of the canonical document; SHA-256 is taken to be
\* free of collisions, so that a document stands for its own tag.
\* Mutant of ETag: documents of one generated_at share a tag.
ETagByTime(doc) == {doc[p].publishedAt : p \in {q \in Packages : doc[q] # None}}

ETag(doc) == doc

Cached == [etag : RootIndex, body : RootIndex]
Documents == RootIndex \cup PackageVersionsIndex \cup VersionedPackageDetail
Outcomes == {"OK", "NOT_MODIFIED", "PACKAGE_NOT_FOUND", "VERSION_NOT_FOUND", "INTERNAL_ERROR"}
Response == [result : Outcomes, body : Documents \cup {None}]
Answer == [query : Queries, result : Outcomes \ {"NOT_MODIFIED"}, body : Documents \cup {None}]
Asked == {"root", "elsewhere"}     \* the queries of ls-remote

ASSUME ReadNoneAssumption == None \notin Cached /\ None \notin Response /\ None \notin Answer

ReadTypeOK ==
    /\ cache \in Cached \cup {None}
    /\ at \in [Readers -> {"idle", "get", "reread", "list", "deliver", "done"}]
    /\ query \in [Readers -> Queries \cup {None}]
    /\ \A c \in Readers : at[c] # "idle" => query[c] \in Queries
    /\ loaded \in [Readers -> Cached \cup {None}]
    /\ toRead \in [Readers -> SUBSET Slots]
    /\ found \in [Readers -> SUBSET VersionedPackageDetail]
    /\ \A c \in Readers : at[c] # "list" => found[c] = {}
    /\ response \in [Readers -> Response \cup {None}]
    /\ \A c \in Readers : response[c] # None <=> at[c] = "deliver"
    /\ answer \in [Readers -> Answer \cup {None}]
    /\ \A c \in Readers : answer[c] # None <=> at[c] = "done"
    /\ announced \subseteq Slots
    /\ then \in [Readers -> [published : SUBSET Slots, announced : SUBSET Slots]]
    /\ roots \in [Readers -> SUBSET (RootIndex \cup {None})]
    /\ shown \in [Readers -> RootIndex \cup {None}]
    /\ reads \in Nat

NoCall == [published |-> {}, announced |-> {}]

ReadInit ==
    /\ Init
    /\ cache \in {None, [etag |-> ETag(Elsewhere), body |-> Elsewhere]}
    /\ at = [c \in Readers |-> "idle"]
    /\ query = [c \in Readers |-> None]
    /\ loaded = [c \in Readers |-> None]
    /\ toRead = [c \in Readers |-> {}]
    /\ found = [c \in Readers |-> {}]
    /\ response = [c \in Readers |-> None]
    /\ answer = [c \in Readers |-> None]
    /\ announced = {}
    /\ then = [c \in Readers |-> NoCall]
    /\ roots = [c \in Readers |-> {}]
    /\ shown = [c \in Readers |-> None]
    /\ reads = 0

-----------------------------------------------------------------------------
(* A GET request at the server.                                            *)

\* What GetDocument finds under the path of the query.
Stored(q) ==
    CASE q.kind = "root" -> rootIndex
      [] q.kind = "elsewhere" -> Elsewhere
      [] q.kind = "index" -> packageIndex[q.package]
      [] q.kind = "alias" -> latestAlias[q.package]
      [] q.kind = "detail" -> IF SlotOf(q) \in Slots THEN details[SlotOf(q)] ELSE None

\* A process starts a call.  ls-remote loads the cache first (loadRootIndex).
Ask(c, q) ==
    /\ at[c] = "idle"
    /\ reads < MaxReads
    /\ reads' = reads + 1
    /\ at' = [at EXCEPT ![c] = "get"]
    /\ query' = [query EXCEPT ![c] = q]
    /\ loaded' = [loaded EXCEPT ![c] = IF q.kind \in Asked THEN cache ELSE None]
    /\ then' = [then EXCEPT ![c] =
         [published |-> {s \in Slots : Published(s)}, announced |-> announced]]
    /\ roots' = [roots EXCEPT ![c] = {rootIndex}]
    /\ UNCHANGED <<cache, toRead, found, response, answer, announced, shown>>

\* writeReadResult: a document whose tag the client holds is not sent again.
Respond(c, result, doc) ==
    LET held == result = "OK" /\ loaded[c] # None /\ loaded[c].etag = ETag(doc) IN
    /\ at' = [at EXCEPT ![c] = "deliver"]
    /\ response' = [response EXCEPT ![c] =
         [result |-> IF held THEN "NOT_MODIFIED" ELSE result,
          body |-> IF held THEN None ELSE doc]]
    /\ toRead' = [toRead EXCEPT ![c] = {}]
    /\ found' = [found EXCEPT ![c] = {}]

StartListing(c) ==
    /\ at' = [at EXCEPT ![c] = "list"]
    /\ toRead' = [toRead EXCEPT ![c] = {s \in Slots : query[c].kind = "root" \/ s[1] = query[c].package}]
    /\ UNCHANGED <<found, response>>

ServerOnly == UNCHANGED <<cache, query, loaded, answer, announced, then, roots, shown, reads>>

\* Mutant of GetStored: a missing latest alias means a missing package.
GetStoredOnly(c) ==
    LET doc == Stored(query[c]) IN
    /\ at[c] = "get"
    /\ \/ doc # None /\ Respond(c, "OK", doc)
       \/ doc = None /\ query[c].kind = "alias" /\ Respond(c, "PACKAGE_NOT_FOUND", None)
    /\ ServerOnly

\* readStoredDocument, and what follows when there is no such document.
GetStored(c) ==
    LET doc == Stored(query[c]) IN
    /\ at[c] = "get"
    /\ \/ doc # None /\ Respond(c, "OK", doc)
       \/ /\ doc = None /\ query[c].kind = "detail"
          /\ at' = [at EXCEPT ![c] = "reread"]
          /\ UNCHANGED <<toRead, found, response>>
       \/ doc = None /\ query[c].kind # "detail" /\ StartListing(c)
    /\ ServerOnly

\* GetVersionedPackageDetail: the same object is asked for once more.
Reread(c) ==
    LET doc == Stored(query[c]) IN
    /\ at[c] = "reread"
    /\ \/ doc # None /\ Respond(c, "OK", doc)
       \/ doc = None /\ StartListing(c)
    /\ ServerOnly

\* Mutant of ReadListed: an object that is not there counts as a detail.
ReadListedGaps(c, s) ==
    /\ at[c] = "list"
    /\ s \in toRead[c]
    /\ toRead' = [toRead EXCEPT ![c] = @ \ {s}]
    /\ found' = [found EXCEPT ![c] = @ \cup {details[s]}]
    /\ UNCHANGED <<at, response>>
    /\ ServerOnly

ReadListed(c, s) ==
    /\ at[c] = "list"
    /\ s \in toRead[c]
    /\ toRead' = [toRead EXCEPT ![c] = @ \ {s}]
    /\ found' = [found EXCEPT ![c] = @ \cup ({details[s]} \ {None})]
    /\ UNCHANGED <<at, response>>
    /\ ServerOnly

\* The listing is complete: the document is derived, or there is none.
DeriveAnswer(c) ==
    LET q == query[c]
        S == found[c] IN
    /\ at[c] = "list"
    /\ toRead[c] = {}
    /\ \/ /\ q.kind = "root"
          /\ \E r \in RootIndexes(Packages, S) : Respond(c, "OK", r)
       \/ /\ q.kind # "root" /\ S = {}
          /\ Respond(c, "PACKAGE_NOT_FOUND", None)
       \/ /\ q.kind = "index"
          /\ \E d \in Latests(S) : Respond(c, "OK", IndexOf(S, d))
       \/ /\ q.kind = "alias"
          /\ \E d \in Latests(S) : Respond(c, "OK", d)
       \/ /\ q.kind = "detail" /\ S # {}
          /\ Respond(c, "VERSION_NOT_FOUND", None)
    /\ ServerOnly

-----------------------------------------------------------------------------
(* The call at the client.                                                 *)

Returned(c) == answer[c] # None /\ answer[c].result = "OK"
Listed(c) == Returned(c) /\ answer[c].query.kind = "root"

EndCall(c, result, body) ==
    /\ at' = [at EXCEPT ![c] = "done"]
    /\ answer' = [answer EXCEPT ![c] = [query |-> query[c], result |-> result, body |-> body]]
    /\ loaded' = [loaded EXCEPT ![c] = None]
    /\ toRead' = [toRead EXCEPT ![c] = {}]
    /\ found' = [found EXCEPT ![c] = {}]
    /\ response' = [response EXCEPT ![c] = None]
    /\ UNCHANGED <<query, announced, then, roots, shown, reads>>

\* Mutant of Deliver: the new document is saved under the tag of the old one.
DeliverUnderOldTag(c) ==
    LET r == response[c] IN
    /\ at[c] = "deliver"
    /\ r.result = "OK" /\ query[c].kind \in Asked
    /\ EndCall(c, "OK", r.body)
    /\ cache' = [etag |-> IF loaded[c] = None THEN ETag(r.body) ELSE loaded[c].etag,
                 body |-> r.body]

\* FetchRootIndex and getJSON return, and loadRootIndex ends.  A save that fails
\* removes the cache, or leaves it when that fails as well.
Deliver(c) ==
    LET r == response[c] IN
    /\ at[c] = "deliver"
    /\ \/ /\ r.result = "NOT_MODIFIED"
          /\ EndCall(c, "OK", loaded[c].body)
          /\ UNCHANGED cache
       \/ /\ r.result = "OK" /\ query[c].kind \in Asked
          /\ EndCall(c, "OK", r.body)
          /\ cache' \in {[etag |-> ETag(r.body), body |-> r.body], None, cache}
       \/ /\ r.result # "NOT_MODIFIED" /\ (r.result = "OK" => query[c].kind \notin Asked)
          /\ EndCall(c, r.result, r.body)
          /\ UNCHANGED cache

\* Mutant of CallFails: without an answer, the cache will do.
CallFailsStale(c) ==
    /\ at[c] \notin {"idle", "done"}
    /\ loaded[c] # None
    /\ EndCall(c, "OK", loaded[c].body)
    /\ UNCHANGED cache

\* A store call of the server fails (500), or the connection does.
CallFails(c) ==
    /\ at[c] \notin {"idle", "done"}
    /\ EndCall(c, "INTERNAL_ERROR", None)
    /\ UNCHANGED cache

\* The command writes what it has got, and its process exits.
Exit(c) ==
    /\ at[c] = "done"
    /\ at' = [at EXCEPT ![c] = "idle"]
    /\ shown' = [shown EXCEPT ![c] =
         IF Listed(c) /\ answer[c].body \in roots[c] THEN answer[c].body ELSE @]
    /\ query' = [query EXCEPT ![c] = None]
    /\ answer' = [answer EXCEPT ![c] = None]
    /\ then' = [then EXCEPT ![c] = NoCall]
    /\ roots' = [roots EXCEPT ![c] = {}]
    /\ UNCHANGED <<cache, loaded, toRead, found, response, announced, reads>>

-----------------------------------------------------------------------------

ReaderStep(c) ==
    \/ \E q \in Questions[c] : Ask(c, q)
    \/ GetStored(c) \/ Reread(c) \/ DeriveAnswer(c)
    \/ \E s \in Slots : ReadListed(c, s)
    \/ Deliver(c) \/ CallFails(c) \/ Exit(c)

\* A step of a writer, as the readers' history records it.
WriterStep ==
    /\ Next
    /\ announced' = announced \cup
         {SlotOf(reply'[h].request) : h \in {g \in Handlers : reply'[g] # None /\ reply'[g].result = "OK"}}
    /\ roots' = [c \in Readers |-> IF at[c] = "idle" THEN roots[c] ELSE roots[c] \cup {rootIndex'}]
    /\ UNCHANGED readers

ReadNext ==
    \/ WriterStep
    \/ \E c \in Readers : ReaderStep(c) /\ UNCHANGED vars

ReadSpec == ReadInit /\ [][ReadNext]_readVars

-----------------------------------------------------------------------------
(* Safety properties that hold for any number of writers and readers.      *)

\* The tag in the cache is the tag of the document in the cache, whichever process
\* saved it and whichever save or removal failed.
CacheMatches ==
    /\ cache # None => cache.etag = ETag(cache.body)
    /\ \A c \in Readers : loaded[c] # None => loaded[c].etag = ETag(loaded[c].body)

\* ls-remote shows the root index that the server it asked had stored at some moment
\* of the call, never one that another process or another server put in the cache;
\* where no root index is stored, every package published before the call is in the
\* answer, at a version no older than was published then (docs/indexer-api.md:34).
FromServer(c, q, body) ==
    /\ q.kind = "elsewhere" => body = Elsewhere
    /\ q.kind = "root" =>
        \/ body \in roots[c]
        \/ /\ None \in roots[c]
           /\ \A s \in then[c].published :
                body[s[1]] # None /\ Rank[body[s[1]].key] >= Rank[s[2]]

RootAnswerIsTheServers ==
    \A c \in Readers : Returned(c) => FromServer(c, answer[c].query, answer[c].body)

\* What an answer names can be fetched: every version it mentions is published.
Names(q, body) ==
    CASE q.kind = "root" -> {<<p, body[p].key>> : p \in {o \in Packages : body[o] # None}}
      [] q.kind = "index" -> {<<q.package, v.key>> : v \in body.versions}
      [] q.kind \in {"alias", "detail"} -> {SlotOf(body)}
      [] q.kind = "elsewhere" -> {}

Readable(q, body) == \A s \in Names(q, body) : s \in Slots /\ Published(s)

NamedIsReadable ==
    \A c \in Readers : Returned(c) => Readable(answer[c].query, answer[c].body)

\* A package or a version that was published when the call began is never reported
\* missing, though its derived documents may be missing or yet to be written
\* (docs/indexer-api.md:55 and :64).
NotDenied(c, q, result) ==
    /\ result = "PACKAGE_NOT_FOUND" => \A s \in then[c].published : s[1] # q.package
    /\ result = "VERSION_NOT_FOUND" => SlotOf(q) \notin then[c].published

MissingIsMissing ==
    \A c \in Readers : answer[c] # None => NotDenied(c, answer[c].query, answer[c].result)

\* What makes the properties above inductive.  An outcome is right if they hold of it;
\* the response under way and the answer of each call are.
RightOutcome(c, result, body) ==
    /\ result = "OK" =>
        /\ query[c].kind \in Asked => body \in RootIndex
        /\ FromServer(c, query[c], body)
        /\ Readable(query[c], body)
    /\ NotDenied(c, query[c], result)

ResponseRight(c) ==
    at[c] = "deliver" =>
        IF response[c].result = "NOT_MODIFIED"
        THEN loaded[c] # None /\ RightOutcome(c, "OK", loaded[c].body)
        ELSE RightOutcome(c, response[c].result, response[c].body)

AnswerRight(c) ==
    at[c] = "done" =>
        /\ answer[c].query = query[c]
        /\ RightOutcome(c, answer[c].result, answer[c].body)

\* A call remembers the root indexes and a part of what was published meanwhile; a
\* version it goes on to look for after it was not there was not there before.
CallRemembers(c) ==
    at[c] # "idle" =>
        /\ rootIndex \in roots[c]
        /\ \A s \in then[c].published : s \in Slots /\ Published(s)
        /\ at[c] \in {"reread", "list"} /\ query[c].kind = "detail" =>
            SlotOf(query[c]) \notin then[c].published

\* A listing keeps to its package and misses nothing that was there before it.
InScope(c, s) == query[c].kind = "root" \/ s[1] = query[c].package

ListingComplete(c) ==
    at[c] = "list" =>
        /\ query[c].kind # "elsewhere"
        /\ query[c].kind = "root" => None \in roots[c]
        /\ \A s \in toRead[c] : InScope(c, s)
        /\ \A d \in found[c] : InScope(c, SlotOf(d)) /\ SlotOf(d) \in Slots /\ Published(SlotOf(d))
        /\ \A s \in then[c].published :
            InScope(c, s) => s \in toRead[c] \/ \E d \in found[c] : SlotOf(d) = s

CallSound(c) == ResponseRight(c) /\ AnswerRight(c) /\ CallRemembers(c) /\ ListingComplete(c)

-----------------------------------------------------------------------------
(* Safety properties of a server that handles one update at a time.        *)

\* A publisher that was answered 200 can rely on it: any call that begins later sees
\* its version, or a newer one of the package, through every route and every cache.
SuccessIsVisible ==
    \A c \in Readers : Returned(c) =>
        \A s \in then[c].announced :
            /\ answer[c].query.kind = "root" =>
                /\ answer[c].body[s[1]] # None
                /\ Rank[answer[c].body[s[1]].key] >= Rank[s[2]]
            /\ answer[c].query.kind = "index" /\ answer[c].query.package = s[1] =>
                \E v \in answer[c].body.versions : v.key = s[2]
            /\ answer[c].query.kind = "alias" /\ answer[c].query.package = s[1] =>
                Rank[answer[c].body.key] >= Rank[s[2]]

\* A process that was shown a stored root index and lists the packages again never
\* sees one vanish or go back to an older version, whether the server, a listing or
\* the cache answers.  (After an answer derived from a listing it may: the listing
\* can see a detail whose update has yet to write the root index.)
ListingsGoForward ==
    \A c \in Readers : Listed(c) /\ shown[c] # None =>
        \A p \in Packages : shown[c][p] # None =>
            /\ answer[c].body[p] # None
            /\ Rank[answer[c].body[p].key] >= Rank[shown[c][p].key]
=============================================================================
