# A verification project for fontpub

fontpub is a package index for font files. Publishers tag a release on GitHub and a workflow posts an
OIDC-authenticated request to the *indexer*; the indexer fetches the manifest and the files of the
tagged commit, stores an immutable *versioned package detail* and derives the documents that readers
browse. The *rebuilder* regenerates derived documents, and the `fontpub` command installs packages
and activates them by symlinks.

This directory holds TLA+ modules translated from that code (`src/go/internal`), TLC configurations
that check them on small instances, and proofs that TLAPS checks for every instance.

## 1. Inventory

### Update API: `indexer/updateapi`
- **State**: none of its own between requests; net/http runs one goroutine per request.
- **Operation**: `POST /v1/update`. Parse, verify the token, match claims; reserve the token's `jti`;
  check or create the binding of package to repository id; fetch and validate manifest and assets;
  look the version up; put its detail if it is new; list the package's details and write its versions
  index, then its latest alias; list all details and write the root index; answer.
- **Talks to**: verifier, private-state store, fetchers, artifact store; every call is a step during
  which other requests run.
- **Hard**: check-then-put of the detail, listings that are old when their documents are written, three
  derived documents written one by one, failures and crashes anywhere in between, retries.
- **Correct when**: a version never changes once published; derived documents never run ahead of the
  details; after a success they are current; a token is admitted once; only the owner publishes.

### Artifact stores: `indexer/artifacts`
- **State**: objects by path (memory map, files, S3 objects).
- **Operations**: get, put (overwrite), list the details of a package or of all packages. Files are
  renamed into place, so one document is read whole; a listing reads names first and objects one by one.
- **Hard**: no conditional put and no transaction; a put that reports an error may have happened; which
  object names a listing takes for details.

### Derived documents: `indexer/derive`, `indexer/deriveddocs`
Pure functions from details to documents, and the order in which the documents are written. Correct
when the documents depend on the set of details only, ties between versions included.

### Rebuilder: `indexer/rebuilder`
A process of its own: one listing of all details, then index and alias of each package in its scope,
then the root index. Correct when it heals whatever handlers have left, and never derives from nothing.

### Private-state store: `indexer/state`
- **State**: used token identifiers and package bindings; in memory, or in one JSON file guarded by a
  mutex within a process and a lock file between processes.
- **Hard**: crashes between the steps, a lock file that outlives its process, two processes.
- **Correct when**: each call is atomic and nothing is forgotten.

### OIDC verifier and key cache: `indexer/oidc`
- **State**: a key set with the time of the lookup that led to its fetch, behind a mutex that is released
  during the fetch.
- **Operation**: parse the token, check issuer, audience and times, find the key (fetch the set when it is
  older than its lifetime, and once more when the key is not in it), check the signature, then the claims.
- **Hard**: overlapping fetches whose responses are stored in any order, stale keys when a fetch fails, a key
  that is newer than the cached set, a key that the issuer has withdrawn.
- **Correct when**: retired keys stop working in bounded time, current keys are found whatever the cache holds,
  and no claim counts without its signature.

### Read API: `indexer/updateapi/read.go`
- **Operations**: `GET` of the root index, of a package's index, alias and versioned detail. Each answers with the
  stored document, or derives it from a listing if none is stored; a tag the client holds is answered 304.
- **Hard**: a listing is read object by object while versions are published; stored and derived answers alternate.
- **Correct when**: what an answer names exists, and nothing published is denied.

### CLI: `cli`
- **State**: the lockfile, installed files, activation symlinks, a metadata cache.
- **Operations**: install, activate, deactivate, update, uninstall, repair (all change state); ls, verify,
  show, ls-remote (read only, but for the cache of the root index that ls-remote keeps).
- **Hard**: files, symlinks and lockfile change in separate steps; two commands at the same time; a
  failure half way; a root index older than what is installed; one cache file for all processes and servers.
- **Correct when**: the lockfile can always be loaded; after a command it describes files and symlinks, and what an interrupted
  command left can be repaired; ls-remote never shows another server's index.

The parts that are left aside are listed in section 6.

## 2. Modules

| Module | Models | Uses |
| --- | --- | --- |
| `Derivation` | `derive.BuildPackageVersionsIndex`, `derive.BuildRootIndex` as functions of a set of details | |
| `Registry` | abstract: what the artifact store promises its readers | `Derivation` |
| `Publication` | update handlers, rebuilders, artifact store, private state, crashes, failing calls | `Derivation`, instance of `Registry` |
| `MCPublication` | instances of `Publication` for TLC | |
| `PublicationProofs` | theorems about `Publication`: for any writers; with one handler, that it implements `Registry`; what a rebuild restores | |
| `PrivateState` | the private-state interface as functions of the state | |
| `StateStore` | abstract: an atomic private-state store | `PrivateState` |
| `FileState` | `state.FileStore`: mutex, lock file, load, rename, several processes | `PrivateState`, instance of `StateStore` |
| `MCFileState`, `FileStateProofs` | instance for TLC, theorems | |
| `Authorization` | what precedes an update: the key cache, and the order in which a request is judged | |
| `MCAuthorization`, `AuthorizationProofs` | instance for TLC, theorems | |
| `ReadApi` | `Publication` with readers: the GET routes, and the CLI's ls-remote and show behind them | `Publication` |
| `MCReadApi`, `ReadApiProofs` | instance for TLC, theorems | `Versions` |
| `ArtifactPaths` | paths of the documents in the file and S3 stores, and what a listing takes for a detail | |
| `MCArtifactPaths`, `ArtifactPathsProofs` | instance for TLC, theorem | |
| `Versions`, `VersionsProofs` | version literals, keys and their order; theorems about the order | |
| `CliState` | the six commands that change the local state (lockfile, installed files, symlinks), and what `verify` and `ls` say of it | |
| `MCCliState`, `CliStateProofs` | instances for TLC, theorems | |
| `CliAgreementProofs` | theorems about `CliState` for one process: lockfile and disk agree | `CliStateProofs` |

### Publication and the code
A request is a record: token identifier, package, repository id, version key and *content*. The content
stands for the commit, which fixes manifest, asset bytes and so every immutable field of the detail; two
requests for one version with different contents are a tag that was moved. `pc[h]` is the place of a handler
in `PublishingProcessor.Process`:

| `pc` | Code | Actions |
| --- | --- | --- |
| `reserve` | `CheckAndReserveJTI` | `ReserveJTI`, `DetectReplay` |
| `bind` | `CheckOrBindPackage` | `BindPackage`, `DetectMismatch` |
| `validate` | fetch and check manifest and assets | `Validate` |
| `lookup` | `GetVersionedPackageDetail`, `ImmutableEqual` | `FindFree`, `FindSame`, `FindDifferent` |
| `put` | `PutVersionedPackageDetail` | `PutDetail` |
| `index` | list the package, build and put its index | `ReadDetail`, `PutPackageVersionsIndex` |
| `alias` | put the alias | `PutLatestAlias` |
| `root` | list everything, put the root index, answer | `ReadDetail`, `PutRootIndex` |

A rebuilder starts (`StartRebuild`, with one package or all), lists (`plan`), groups (`Plan`) and then runs
through the same `index`, `alias` and `root` steps with the listing it has. `todo` and `seen` are a listing in
progress. Every store call can fail (`StoreError` without effect, `Fail` within a put after its effect), which
ends the handler with the code's error; `Crash` drops all handlers and, unless `StateDurable`, the private
state. `admissions` is a history variable: how often a token got past the replay check.

The clock is any value of `Times` at each put, so neither its order nor its precision is relied upon.
`Rank` is the preorder of `CompareVersions` and `KeyOrder` the string order of keys; both are constants, so
the proofs hold for any version order. Where `sort.Slice` leaves the order of tied versions open, so does
`Latests`.

### Authorization and the code
`pc[h]` follows a request through `authorizeUpdateRequest` and `Verifier.Verify`. What is wrong with a request is
its `flaw`, named for the place that finds it, and the step judges flaws in the code's order.

| Step | Code |
| --- | --- |
| `Receive` | `parseUpdateRequest`, the bearer token, `parseJWT`, issuer, audience and times; all before any key |
| `Lookup` | `keySet` up to the unlock: the cached set if it is fresh and no refresh is forced |
| `Respond`, `Store` | the fetch, and the second critical section, which stores whatever comes in, at the time of its lookup |
| `FetchFails` | timeout, other status or no JSON: fall back to the set of the lookup, or refuse |
| `Judge` | `keyByID` and its forced refresh, `verifySignature`, `decodeProtocolClaims`, the policy, the body's claims |
| `Tick`, `Issue`, `Retire` | the world: time, and an issuer that rotates its keys |

Signatures are not computed: a token has the key it names and the key that made it. One thing the module
makes plain: a token without one of the claims is refused inside `Verify`, as `AUTH_INVALID_TOKEN`, although
docs/security-oidc.md:41 has a code of its own for it, `AUTH_CLAIMS_MISSING`.

### ReadApi and the code
`at[c]` is the place of a GET: `get` (`readStoredDocument`), `reread` (a versioned detail is asked for twice), `list`
(one object at a time, `ReadListed`, then `DeriveAnswer`), `deliver` (the response is on its way) and `done`. A query
of kind `elsewhere` goes to another server, which a user selects with `FONTPUB_BASE_URL`, and shares the cache file.
`Ask` loads the cache as `loadRootIndex` does; `Deliver` is the rest of it, with a save that may fail and a removal
that may fail after it. A document is its own ETag, as a hash of canonical JSON stands for the document.
`announced`, `then`, `roots` and `shown` are history: what was answered 200, what a call can rely on, and what the
root index was while it went on. Writers take the steps of `Publication`, unchanged (`WriterStep`).

### ArtifactPaths and Versions and the code
`ArtifactPaths` has the object paths as sequences of names and the writes of one publication in order, since here the
question is where documents lie, not who interleaves. A listing decodes whatever lies under its test
(`InVersions`), and a document without a version field gets an empty key. `Versions` has literals as prefix and segments, a
segment as a value with leading zeros; `Before` and `SamePrecedence` are `CompareVersions`. The instance of `ReadApi`
takes its version keys from it and TLC checks that its ranks are `CompareVersions`.

### FileState and the code
`pc[c]` follows `CheckAndReserveJTI` and `CheckOrBindPackage`: `lock` (the mutex), `acquire` (the loop around
`O_EXCL`), `load`, `save`, `release` (the deferred removal of the lock file), `unlock` (the deferred unlock).
`GiveUp` is the context that is done while the lock file exists. `FileError` leaves the state file alone, as
write and rename of a temporary file do; the removal of the lock file may fail unnoticed. A crash frees the mutex
of its process and leaves the lock file.

### CliState and the code
`lockfile`, `files` and `links` are what is on disk: `fontpub.lock`, the install path of each published asset
(missing, partial, unreadable or with the published bytes) and each symlink name (free, pointing to an asset, or `Foreign`:
somebody else's). `run[c]` is the command that process `c` executes with its own copy of the lockfile, `work`.

| Step | Code |
| --- | --- |
| `Start`, `Load` | parsed arguments; `LockfileStore.Load`, `NOT_INSTALLED` |
| `Install`, `Update`, `Activate`, `Deactivate`, `Uninstall`, `Repair` | one package: checks, refusals, edits of the lockfile copy; the file operations they lead to become `todo` |
| `WriteAsset`, `Unlink`, `DeleteAsset`, `Link` | one file operation each, in the order of the code's loops (`Before`) |
| `Finish` | `finalizeLockMutation`: validate and save, or the refusal of a repair that found damage |
| `Interrupt` | any error return or kill, with a partial file where a write was under way |
| `Damage`, `Obstruct`, `Occupy` | files and symlinks changed by others between commands; `Obstruct` makes a file unreadable, which `verifyLockedAsset` reports as `INTERNAL_ERROR` |

The code edits its lockfile copy along with the file operations; since an interrupted command throws its copy away,
the model edits it when the package's turn begins. The exception is the symlink's name, which depends on
what is on disk at the moment and is recorded by `Link`. In a lockfile the program has saved an asset is active exactly
when it has a symlink path, so one value per asset holds both. An update takes packages in name order, a repair in the
order of a Go map; the model leaves the order open for both. Published versions do not change and a download is
compared with the published hash, so the server is the constant `Catalog`, and the root index may name any published
version at any time, an older one included. `sha` in a symlink name stands for the hash's first eight characters. `SymlinkPath`
looks and decides in one step with the making of the link. A dry run changes nothing and is left out.

`Findings` and `Status` are what `verify` and `ls` compute from lockfile and disk; they change nothing and so are
operators, not actions. Both take the activation directory that the command is given; `dir = None` stands for none given
and no default. `repair` asks for a directory and then makes symlinks at the names the lockfile has (`service_repair.go:58`), and
`inspectRepairPackage` passes over an `INTERNAL_ERROR` (`service_repair.go:47`), so a successful repair does not leave
`verify` silent. `VerifyAfterRepair` says what it does leave, for every directory verify may be given: `Overlooked`, that is
one `INTERNAL_ERROR` for each file that cannot be read and one `ACTIVATION_BROKEN` for each active symlink recorded in
another directory, and nothing else. The second disagrees with `docs/cli.md:314`, which wants `repair` and `verify` to judge by the
directory given: `repair --activation-dir B` of a package that is active in A succeeds, and `verify --activation-dir B` reports it.

`cut[p]` is history: the command that changed package `p` and did not finish, until the same command is given again
and does (then `None`); `Mixed` if something else came on top; `Damaged` until repaired. It lets `CompletedAgrees`
say exactly when lockfile and disk agree. An uninstall that leaves a symlink behind in another directory, as a
test of the repository wants it to, makes its package `Mixed` (`Strays`). So does an activation that gives an asset which
is active already another name, because its plain name has become free: the old symlink stays, and the lockfile forgets it
(`Outdated`; `service_activation.go:60`). A package with a file somebody made unreadable is `Mixed` too: the file's bytes are neither those
that `CompletedAgrees` asks for nor ones that `repair` complains of.

## 3. Runs

| Run | Shows | Bounds |
| --- | --- | --- |
| `publish_one_at_a_time` | one request at a time: `Publication` implements `Registry`, versions are immutable, a success means current documents, both indexes agree on the head of a package, every request is answered | 1 handler, 4 requests over 3 slots (two of equal precedence, `2` and `2.0`; one claimed with two contents; repeated requests included), 3 of them received, 1 failing call, 1 crash, memory private state |
| `publish_concurrently` | what holds in every interleaving: discoverability, own version listed, replay protection, ownership | 2 handlers, 5 requests (a repeated workflow, another owner, another package), 3 received, 1 failing call, 1 crash, durable private state |
| `rebuild_heals` | a rebuilder beside a handler never indexes nothing and in the end restores everything | a strict version order, 1 handler, 1 rebuilder, 3 requests over 2 packages, 2 received, 1 failing call |
| `same_version_twice` | **violated**: two concurrent requests for one version overwrite a published detail | 2 handlers, 2 requests received, no failures |
| `retry_after_503` | **violated**: the retry that a 503 asks for is rejected as a replay | 1 handler, 1 token sent twice, 1 failing call |
| `handlers_overtake` | **violated**: after two successes the alias is not the head of the index | 2 handlers, 2 requests received, no failures |
| `file_state` | the file store is an atomic store across processes; callers block only behind a stale lock file | 3 callers, 2 processes, 3 calls, 1 failing operation, 1 crash |
| `cli_one_user` | a user's commands leave lockfile, files and symlinks in agreement, failures and damage included once repeated and repaired, and `ls` and `verify` say the same of them; activation never shows two versions or a dangling link; after a repair verify reports only what repair overlooks | 1 process, 3 commands out of 17, 2 packages with 5 assets, 2 directories, 1 interruption, 2 outside changes |
| `jwks_cache` | two requests share the key cache: it never claims more than the issuer served, retired keys expire, current keys are found, claims count behind a signature only | 2 handlers, 2 keys (1 at first), 3 tokens, lifetime 2, window 1, clock 0 to 2, 3 requests, 1 failing fetch |
| `reading` | answers belong to the server asked, name published versions only, never deny what was published, show what was answered 200 and do not go back | 1 handler without failures, 3 versions of 2 packages, 2 of them received; 2 readers with 2 calls between them, failing calls and saves at any step |
| `package_named_versions` | **violated**: a package called `versions` stops the root index from being written | 2 packages, 1 version each |
| `update_refused_halfway` | **violated**: an update that is refused at its second package leaves the first one's symlinks switched and unrecorded | 3 commands, nothing interrupted or damaged |

Why the bounds are enough: the races need two handlers and one slot; a listing is torn by a put between two
of its reads, which three slots and three requests give; a third request lets a repeated or conflicting one meet
what a failed one left. One failing call and one crash, each at any step, suffice because what either leaves
behind is a prefix of a handler's writes, and the next request or rebuild starts from it. The safety results
that matter are proved without bounds (section 5). `MaxRequests`, `MaxReads`, `MaxTime`, `MaxFaults`,
`MaxCrashes`, `MaxCalls`, `MaxCommands`, `MaxInterrupts` and `MaxDamage` are the only bounds in guards.

For the CLI, three commands are two versions installed one after the other, either interrupted, and then a repetition, a removal or a repair.
Two outside changes spoil a file and a symlink of one package, or let somebody's file take a plain name and go away again, which is what gives an active asset a second
name (`Outdated`). The catalogue has what the code distinguishes: a version with two assets of one file name, which need a hash in the
name, and keys that tie in the version order.

For the key cache, a clock of three moments and a lifetime of two let a set be fresh, just expired and fetched late; two
handlers and a rotation let an older response be stored over a newer one, which `CacheHonest` says is harmless as long
as it carries the time of its lookup. For the readers, two calls let one process see two answers in a row or two
processes overlap on the cache file; failures of the write path are left to the other runs, and the properties that
do not need a lone writer are proved for all of them.

The passing runs have `CHECK_DEADLOCK FALSE` where their requests, faults and crashes run out;
`rebuild_heals` does check deadlock, since rebuilds never end. Symmetry is used in `publish_concurrently` and
`jwks_cache` only, over handlers, without liveness.

### What the violated runs say
They disagree with a sentence of the documentation, quoted under `findings` in `PROJECT.json`.
- `same_version_twice`: two handlers look up the free slot, both put. With equal contents `published_at`
  changes, with a moved tag the commit does.
- `retry_after_503`: `Validate` reserves the token before publication and nothing releases it. (A new
  workflow run with a new token does repair the documents: `SuccessMeansCurrent`.)
- `handlers_overtake`: handler 1 lists 1.0, handler 2 publishes 2.0 and writes index and alias, handler 1
  writes its older alias last. The state persists until the next publication or rebuild (`RebuildRestores`).
- `package_named_versions`: the file and S3 stores take every object in a directory named `versions` for a detail. The
  versions index of the package `foundry/versions` lies in such a directory; it is read as a detail with an empty
  version, on which `CompareVersions` fails, and no root index is written any more, for any package.
- `update_refused_halfway`: one lockfile save ends an update of all packages, so a refusal at a later package (it is
  active in another directory) or a failed download throws away what was recorded for the earlier ones.

## 4. Fairness
- `Progress`: weak fairness of each handler's and each rebuilder's own steps: the Go scheduler runs every goroutine that
  can run, and a store call returns. Failures, crashes and new requests are never assumed.
- `MaintainedSpec` adds strong fairness of starting a *full* rebuild. This is an assumption about the operator, not about
  the code: the code never starts a rebuild. Only `RebuildRestores` uses it, to say what rebuilding achieves.
- `FileState!LiveSpec`: weak fairness of each caller's steps and strong fairness of taking the mutex, because
  `sync.Mutex` hands over to a waiter that starves. The lock file is polled and gets weak fairness only: with other
  processes calling for ever it could starve a caller, so `ReturnsUnlessStale` is checked with finitely many calls.

## 5. Proofs
All theorems hold for every value of the constants that satisfies the modules' named assumptions, which TLC evaluates
in the runs, and the hypotheses a theorem itself states (`OneAtATime`, `OneProcess`, ...), discussed below.

**Publication.** `TypeCorrect` is inductive by itself with the detail filed under its own slot. `Discoverability` is
not inductive: a writer may be about to write a document from what it has read. The invariant adds
`ListingsPublished` (every detail in a listing is published) and `LatestPublished` (the same for the detail
to be written as alias); it is preserved because no action ever unpublishes a slot. `OwnVersionListed` needs
`OwnVersionPublished` (past the put, the handler's slot is published, and has been read once it has left `todo`);
`AdmittedAtMostOnce` needs that admitted tokens are in use, and `PublishedByOwner` that the binding of a busy
handler's package stays its repository's; both assume durable private state, without which a crash breaks them.
`ImmutableWhenSequential` assumes that there is at most one handler: between its lookup and its put nobody else can
publish the slot, so the race of `same_version_twice` is the only way to change a version.
`NeverIndexesNothing` follows from the invariant that a listing in progress holds, or has still to read, a
published detail of each package it is for.

**Registry.** The second part of `PublicationProofs` assumes one handler and no rebuilder beside it (`OneAtATime`), any requests, failures and crashes.
The invariant says that the slot of a handler at its put is still free, that a listing in progress
holds exactly what is published under the slots it has read (`ListingExact`), and that from the first document a
handler has written on, the documents are those of what is published (`DocumentsFollow`). With it every step is a step of
`Registry` or a stutter, a success leaves current documents, and the two indexes agree on precedence and time of the
head even where `sort.Slice` and the scan order choose different versions. The three violated runs with two handlers
show that the assumption is needed.
`RebuildHeals` needs no such assumption: from any state of well-typed documents, a full rebuild with none of its own store
calls failing, and with nobody else putting a document meanwhile, leaves the root index, and the index and alias of every package
with a published version, as derived from the published details. The invariant (`Rebuilt`) says which packages are done. This is the safety
half of `RebuildRestores`; that a rebuild comes to its end is left to TLC.

**ReadApi.** A step of a writer is a step of `Publication` (lemma `Writes`), so whatever is proved of `Spec` holds beside
readers; published slots stay published. The invariant (`Sound`) says of each call that the outcome under way is
right, that the root index of every moment since its start is remembered, and that a listing has read or
has still to read whatever was published when the call began. Two more need the server to handle one update at a time
(`OneAtATime`). `SuccessIsVisible`: every stored document holds the versions that were announced with a 200, or newer
ones (`AnnouncedHeld`), and no listing is made for a version that is announced already. `ListingsGoForward`: the root index never drops a
package or moves one down the version order (`NoOlder`), and whatever root index a call can answer with is no older than
the last one its process was shown (`CallGoesForward`).

**Authorization.** A response carries the keys served at a moment between its lookup and now (`ResponsesHonest`), so
storing it at the time of its lookup keeps `CacheHonest`, in whatever order responses arrive. What a handler has
judged by was served (`KeysWereServed`), hence the two bounds on retired and current keys.

**ArtifactPaths.** `RootListsPublished` is what `package_named_versions` shows violated. `RootListsPublishedUnlessVersions`
says that the repository name `versions` is all there is to it: without it every object in a directory of that name is a
copy of a published detail (`ObjectsSound`), the alias of an owner called `versions` included, so the root index can always
be built and lists every package. The assumption `KeysRanked` says that keys are not empty and that of any
keys one is highest.

**Versions.** `CompareVersions` is a total preorder on keys of any length: any two keys are comparable, in one way
only, before is transitive, and keys of equal precedence are interchangeable. That is what the
constant `Rank` of `Derivation` presupposes.

**FileState.** `LockProtects` says that holders exclude each other across processes, that the lock file is there
while they hold, and that what a saver loaded is still the file's content. From it follow `StaleLockExplained` (only a crash or a failed
removal leaves a lock file behind), `NothingForgotten` and
`FileStoreAtomic`: the file store implements `StateStore`, with the load (a call that changes nothing) or the rename as
the moment at which a call takes effect.

**CliState.** The lockfile on disk is valid and stays so with any number of processes and any failure: `TypeCorrect` and
`NeverRefused` follow from `IInv`, which says the same of each command's copy, once the symlinks it has still to make are
counted as made (`Sound`). Without that strengthening the copy of an activation that is about to make its first link
would look invalid. The step that needs care is the activation: links of other versions are dropped from
the copy only if they are in the chosen directory, and `ensurePackageActivationDirMatch` is what makes these all of
them; the mutant `AnyDir` shows that without it a command does its work and is then refused its save.
`LsAgreesWithVerify` needs one thing more: an activation is all of a version or nothing of it (`AllActive`), or `ls` would
call broken what `verify` passes. It is kept because the symlinks of a package, those still to be made included, are
in one directory (`AllIn`), so that a deactivation of a directory takes all of them or none.
`VerifyAfterRepair` is proved for one process (`OneProcess`) and for catalogues in which no version has two files with one name
and one hash (`BytesTellApart`). The invariant (`Repairs`) says that two assets never have one symlink name, so that a
link which repair makes does not undo another; that while an activation makes its links those it has made are there, which is what
keeps the next asset from taking their names; and that in every package a repair has had its turn with (`Mended`) each file is whole or cannot be read, and the links of the
whole ones are there but for those it has still to make. The first part of that is what the code's test for two of the three
kinds of finding gives (`FaultOf`). `BytesTellApart` is needed: two files with one name and one hash in a version, whose plain
symlink name is taken by a third file, get one name, and then `repair` succeeds at every call while `verify` reports one of them each time
(`service_activation.go:163`; TLC shows it with a catalogue changed in this way).

**Agreement of lockfile and disk.** `CliAgreementProofs` proves `CompletedAgrees`, `NeverTwoVersions` and `NoDanglingLink` for
one process (`OneProcess`; two commands at a time lose each other's records, since nothing locks the lockfile), with
`BytesTellApart` and with `PathsTellApart`: no version lists a path twice, which `protocol/manifest.go:37` sees to and
which makes the order of a version's assets strict. The invariant has five parts, each using those before it.
- `Names`: every symlink has the package and file name of the asset it points to, and only the first asset of a version
  to need a plain name ever gets it; versions are recorded with all their assets; an asset whose turn comes later finds
  its plain name taken.
- `Books`: what a command has in hand is what it set out to do, and matches the lockfile on disk: it writes files that are not
  recorded, removes those that are, and removes symlinks at the names the lockfile has for them.
- `Noted`: a package with a file that cannot be read is `Mixed` in `cut`, and nothing makes it good again. Without it a
  repair, which passes over such a file, would count a damaged package as mended.
- `Explains`: per package, once the remaining operations are executed, files and symlinks are as the command's copy of the lockfile
  says; and if the command stops now they are as the lockfile on disk says, but in either case for what the command
  noted in `cut` may have left or taken away (`MayBeLeft`, `MayBeGone`), and what it left the same command makes again under
  the same name (`Lasts`). `CompletedAgrees` is the case where nothing is noted.
- `Fresh`: while a command works on a package where nothing is noted, each symlink is recorded in its copy, or is of
  a whole file and about to be removed; the old ones are gone before a new one is made. Hence one version at a time and no
  dangling link.

`Explains` is what the attempt to prove `CompletedAgrees` calls for, and it is where the code's second way to lose a symlink
(`Outdated`) shows: without it the step that makes a link does not preserve the invariant.

**Only model-checked**: liveness (`EveryRequestAnswered`, `RebuildRestores`, `ReturnsUnlessStale`), which is beyond TLAPS. Every
safety and action property of the passing runs is proved.

## 6. Not modelled
- **Upstream fetchers** (`githubraw`, `localgit`): HTTP and git I/O with a size limit. What a fetch yields, or its
  failure, is the outcome of `Validate`.
- **Process wiring** (`app`, `cmd`): flags, environment and start-up; it decides which stores are used, which the
  constants of `Publication` and `FileState` cover.
- **Publisher tooling** (`publisher.go`, `package_*.go`, `fontmeta.go`): one sequential pass over font files that
  proposes a manifest or writes a workflow file. Its content is heuristics over names and bytes; it keeps no state.
- **CLI front end** (argument parsing, prompts, rendering, JSON envelopes): no state beyond one invocation.
- **JSON schemas and canonical JSON**: checks of form and formatting. Where they matter to control, they are a
  request's flaw (`Authorization`), an outcome of `Validate`, or the ETag that stands for a document (`ReadApi`).

Behaviour that the modules show and no property excludes:
- An answer derived from a listing can be ahead of the root index that is stored later, so `ls-remote` may then go
  back once; `ListingsGoForward` starts from an answer that was stored.
- `uninstall` from one directory removes the file and the record of a version that is linked in another, whose symlink
  then dangles (`Strays`); `repair` removes recorded symlinks only, so those of an activation killed before its
  save stay until the command is given again.
- Two commands at the same time can lose one another's records in the lockfile, since nothing locks it. What holds for any number of
  processes is that the file stays loadable (`NeverRefused`); agreement with the disk is checked and proved for one process.
- Two assets of a version with one file name and one hash: see `BytesTellApart` in section 5.
- With files, the alias of a repository `r` is the path `r.json`, which a repository of that name needs as a directory.
  `ArtifactPaths` has structured names and does not show it.
