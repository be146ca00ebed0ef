------------------------------- MODULE CliState -------------------------------
(***************************************************************************)
(* The local state of the fontpub command: the lockfile, the installed     *)
(* asset files and the activation symlinks, and the commands that change   *)
(* them.  A command loads the lockfile, changes files and symlinks one by  *)
(* one while it edits its copy of the lockfile, and saves the copy at its  *)
(* end.  Nothing is undone when it stops before that.                      *)
(*                                                                         *)
(* An asset is a record of the catalogue; a version is its assets.  In a   *)
(* lockfile the command itself has saved, Active and SymlinkPath # nil are *)
(* the same, so a lockfile maps an asset to its symlink, to None           *)
(* (installed, not active) or to Absent.                                   *)
(***************************************************************************)
EXTENDS Naturals

CONSTANTS
    Catalog,        \* published assets [package, key, path, base, sha]
    Rank,           \* version key -> its place in the version order
    Dirs,           \* activation directories
    Procs,          \* processes that may run a command at the same time
    Requests,       \* the commands users give
    None, Absent, All, Foreign, Mixed, Damaged,
    MaxCommands,    \* bound: commands in a behaviour
    MaxInterrupts,  \* bound: commands that fail or are killed half-way
    MaxDamage       \* bound: files and symlinks changed by others

Packages == {a.package : a \in Catalog}
Keys == {a.key : a \in Catalog}

\* {owner}--{repo}--{filename}, with the hash appended when that name is taken.
Links == [dir : Dirs, package : Packages, base : {a.base : a \in Catalog},
          sha : {a.sha : a \in Catalog} \cup {None}]

Lockfiles == [link : [Catalog -> Links \cup {None, Absent}],
              active : [Packages -> Keys \cup {None}]]

\* package = None: every package.  dir = None: no --activation-dir and no default;
\* for install and update: without --activate.
Commands == [kind : {"install", "update", "activate", "deactivate", "uninstall", "repair"},
             package : Packages \cup {None},
             version : Keys \cup {None, All},
             dir : Dirs \cup {None}]

Ops == [do : {"write", "unlink", "link", "delete"}, asset : Catalog,
        at : Links \cup {None}]

\* What a command does to one package, as far as giving the command again repeats it.
Intents == [kind : {"install", "activate", "deactivate", "uninstall", "repair"},
            keys : SUBSET Keys, dir : Dirs \cup {None}]

Runs == [cmd : Commands, loaded : BOOLEAN, work : Lockfiles, left : SUBSET Packages,
         todo : SUBSET Ops, changed : BOOLEAN, broken : SUBSET Packages,
         touched : [Packages -> Intents \cup {None}]]

ASSUME CatalogAssumption == \A a \in Catalog : a.path \in Nat
ASSUME RankAssumption == Rank \in [Keys -> Nat]
ASSUME RequestsAssumption ==
    /\ Requests \subseteq Commands
    /\ \A x \in Requests :
        /\ x.kind = "install" => x.package # None /\ x.version \in Keys
        /\ x.kind = "activate" => x.package # None /\ x.version # All /\ x.dir # None
        /\ x.kind \in {"deactivate", "uninstall"} => x.package # None
ASSUME ValuesAssumption ==
    /\ {None, Absent} \cap Links = {} /\ None # Absent
    /\ {None, All} \cap Keys = {} /\ None # All
    /\ {None, Foreign} \cap Catalog = {} /\ None # Foreign
    /\ None \notin Packages \cup Dirs \cup Runs \cup Intents
    /\ {Mixed, Damaged} \cap Intents = {} /\ None \notin {Mixed, Damaged} /\ Mixed # Damaged
    /\ None \notin {"LOCAL_FILE_MISSING", "LOCAL_FILE_HASH_MISMATCH", "ACTIVATION_BROKEN",
                    "INTERNAL_ERROR"}
ASSUME BoundsAssumption ==
    MaxCommands \in Nat /\ MaxInterrupts \in Nat /\ MaxDamage \in Nat

VARIABLES
    lockfile,       \* content of fontpub.lock
    files,          \* asset -> what its install path holds: nothing, other bytes than the
                    \* recorded ones, something that cannot be opened, or the recorded bytes
    links,          \* symlink name -> the asset whose install path it points to
    run,            \* process -> the command it executes, or None
    cut,            \* history: package -> the unfinished command that changed it last
    started, interrupts, damage

Contents == {"missing", "partial", "unreadable", "good"}

disk == <<lockfile, files, links>>
bounds == <<started, interrupts, damage>>
vars == <<disk, run, cut, bounds>>

EmptyLockfile == [link |-> [a \in Catalog |-> Absent], active |-> [p \in Packages |-> None]]

TypeOK ==
    /\ lockfile \in Lockfiles
    /\ files \in [Catalog -> Contents]
    /\ links \in [Links -> Catalog \cup {None, Foreign}]
    /\ run \in [Procs -> Runs \cup {None}]
    /\ cut \in [Packages -> Intents \cup {None, Mixed, Damaged}]
    /\ started \in Nat /\ interrupts \in Nat /\ damage \in Nat

Init ==
    /\ lockfile = EmptyLockfile
    /\ files = [a \in Catalog |-> "missing"]
    /\ links = [k \in Links |-> None]
    /\ run = [c \in Procs |-> None]
    /\ cut = [p \in Packages |-> None]
    /\ started = 0 /\ interrupts = 0 /\ damage = 0

-----------------------------------------------------------------------------
(* What lockfile.go and filesystem.go ask of a lockfile *)

Assets(p, k) == {a \in Catalog : a.package = p /\ a.key = k}
Recorded(l, p) == {a \in Catalog : a.package = p /\ l.link[a] # Absent}
Version(l, p, k) == {a \in Recorded(l, p) : a.key = k}
InstalledKeys(l, p) == {a.key : a \in Recorded(l, p)}
ActiveAssets(l, p) == {a \in Recorded(l, p) : l.link[a] # None}

\* ValidateLockfile: the active version has an active asset and is the only one that has.
Valid(l) ==
    \A p \in Packages :
        /\ \A a \in ActiveAssets(l, p) : l.active[p] = a.key
        /\ l.active[p] # None => \E a \in ActiveAssets(l, p) : a.key = l.active[p]

\* chooseRepairActiveVersion: the highest version with an active asset.
ChosenActive(l, p) ==
    LET keys == {a.key : a \in ActiveAssets(l, p)} IN
    IF keys = {} THEN None
    ELSE CHOOSE k \in keys : \A j \in keys : Rank[j] <= Rank[k]

\* chooseInstalledVersion: the versions a request can mean; none, or several: refused.
Meant(l, p, version) ==
    LET keys == InstalledKeys(l, p) IN
    IF version \in keys THEN {version}
    ELSE IF version # None THEN {k \in keys : Rank[k] = Rank[version]}
    ELSE {k \in keys : \A j \in keys : Rank[j] <= Rank[k]}

\* assetSymlinkPathMatchesActivationDir
InDir(link, dir) == link \in Links /\ (dir = None \/ link.dir = dir)

\* Mutant of SameDir: the check of the active directory is left out.
AnyDir(l, p, dir) == TRUE

\* ensurePackageActivationDirMatch
SameDir(l, p, dir) == \A a \in ActiveAssets(l, p) : l.link[a].dir = dir

\* Mutant of SymlinkPath: the plain name is used even where another file has it.
PlainPath(dir, a) == [dir |-> dir, package |-> a.package, base |-> a.base, sha |-> None]

\* resolveSymlinkPath: the plain name if it is free or points to this asset already.
SymlinkPath(dir, a) ==
    LET plain == [dir |-> dir, package |-> a.package, base |-> a.base, sha |-> None] IN
    IF links[plain] \in {None, a} THEN plain ELSE [plain EXCEPT !.sha = a.sha]

\* verifyLockedAsset: the first thing wrong with an installed asset.
AssetFault(l, a) ==
    CASE files[a] = "missing" -> "LOCAL_FILE_MISSING"
      [] files[a] = "partial" -> "LOCAL_FILE_HASH_MISMATCH"
      [] files[a] = "unreadable" -> "INTERNAL_ERROR"
      [] files[a] = "good" ->
           IF l.link[a] # None /\ links[l.link[a]] # a THEN "ACTIVATION_BROKEN" ELSE None

Recording(l, assets, link) ==
    [l EXCEPT !.link = [a \in Catalog |-> IF a \in assets THEN link ELSE l.link[a]]]

-----------------------------------------------------------------------------
(* Plans: the edited lockfile and the file operations for one package *)

Op(do, a, link) == [do |-> do, asset |-> a, at |-> link]
Unlinks(l, assets) == {Op("unlink", a, l.link[a]) : a \in assets}

\* Mutant of SomeActive: the key is set even when no version is active, to "".
SomeActiveOrEmpty(l, p) ==
    [l EXCEPT !.active[p] = IF ActiveAssets(l, p) = {} THEN Absent ELSE ChosenActive(l, p)]

\* What uninstall and deactivate record as the active version.
SomeActive(l, p) == [l EXCEPT !.active[p] = ChosenActive(l, p)]

\* installDetail: the files of a version the lockfile does not have.
InstallPlan(l, p, k) ==
    IF k \in InstalledKeys(l, p) THEN [lock |-> l, ops |-> {}]
    ELSE [lock |-> Recording(l, Assets(p, k), None),
          ops |-> {Op("write", a, None) : a \in Assets(p, k)}]

\* activateVersion: the symlinks of other versions go, those of version k come; their
\* names are found when they are made.
ActivatePlan(l, p, k, dir) ==
    LET old == {a \in ActiveAssets(l, p) : a.key # k /\ InDir(l.link[a], dir)} IN
    [lock |-> [Recording(l, old, None) EXCEPT !.active[p] = k],
     ops |-> Unlinks(l, old) \cup {Op("link", a, None) : a \in Version(l, p, k)}]

\* Mutant of DeactivatePlan: active_version_key is left as it is.
DeactivatePlanKeepingKey(l, p, dir) ==
    LET old == {a \in ActiveAssets(l, p) : InDir(l.link[a], dir)} IN
    [lock |-> Recording(l, old, None), ops |-> Unlinks(l, old)]

\* deactivatePackage
DeactivatePlan(l, p, dir) ==
    LET old == {a \in ActiveAssets(l, p) : InDir(l.link[a], dir)} IN
    [lock |-> SomeActive(Recording(l, old, None), p), ops |-> Unlinks(l, old)]

\* runUninstall: symlinks in another directory than dir stay.
UninstallPlan(l, p, keys, dir) ==
    LET gone == {a \in Recorded(l, p) : a.key \in keys} IN
    [lock |-> SomeActive(Recording(l, gone, Absent), p),
     ops |-> Unlinks(l, {a \in gone : InDir(l.link[a], dir)})
             \cup {Op("delete", a, None) : a \in gone}]

\* Mutant of Unrepairable: files are looked for, their hashes are not compared.
UnrepairableIfMissing(l, p, dir) ==
    \/ \E a \in Recorded(l, p) : files[a] = "missing"
    \/ ChosenActive(l, p) # None /\ dir = None

\* inspectRepairPackage: the findings that leave a package unrepaired; a file that cannot
\* be read is not among them ...
Unrepairable(l, p, dir) ==
    \/ \E a \in Recorded(l, p) :
           AssetFault(l, a) \in {"LOCAL_FILE_MISSING", "LOCAL_FILE_HASH_MISMATCH"}
    \/ ChosenActive(l, p) # None /\ dir = None

\* ... and the plan otherwise: symlinks are made at the names the lockfile has, in whatever
\* directory.
RepairPlan(l, p, dir) ==
    LET k == ChosenActive(l, p)
        kept == Version(l, p, k)
        old == ActiveAssets(l, p) \ kept
        Expected(a) == IF l.link[a] # None THEN l.link[a] ELSE SymlinkPath(dir, a)
        wrong == {a \in kept : l.link[a] = None \/ AssetFault(l, a) = "ACTIVATION_BROKEN"} IN
    [lock |-> [link |-> [a \in Catalog |-> IF a \in kept THEN Expected(a)
                                           ELSE IF a \in old THEN None ELSE l.link[a]],
               active |-> [l.active EXCEPT ![p] = k]],
     ops |-> Unlinks(l, old) \cup {Op("link", a, Expected(a)) : a \in wrong}]

-----------------------------------------------------------------------------
(* Commands that only report: verify and ls *)

\* runVerify: what is reported of package p.
Findings(l, p, dir) ==
    {[asset |-> a, code |-> AssetFault(l, a)] : a \in {b \in Recorded(l, p) : AssetFault(l, b) # None}}
    \cup {[asset |-> a, code |-> "ACTIVATION_BROKEN"] :
            a \in {b \in ActiveAssets(l, p) : dir # None /\ ~InDir(l.link[b], dir)}}

\* Mutant of LinkMatches: the directory of the symlink is not compared.
LinkMatchesAnywhere(l, a, dir) == l.link[a] \in Links /\ links[l.link[a]] = a

\* activationLinkMatches
LinkMatches(l, a, dir) ==
    l.link[a] \in Links /\ InDir(l.link[a], dir) /\ links[l.link[a]] = a

\* runLS and humanStatusActivationSummary: the activation status of package p.
Status(l, p, dir) ==
    LET version == Version(l, p, l.active[p]) IN
    CASE l.active[p] = None -> "inactive"
      [] l.active[p] # None /\ dir = None -> "not checked"
      [] l.active[p] # None /\ dir # None ->
           IF version # {} /\ \A a \in version : LinkMatches(l, a, dir) THEN "active" ELSE "broken"

-----------------------------------------------------------------------------
(* Steps of a command *)

Scope(x) == IF x.package = None THEN Packages ELSE {x.package}
Quiet == \A c \in Procs : run[c] = None

\* The command is given again with the same effect, or something else comes on top.
Onto(old, new) == IF old \in {None, new} THEN new ELSE Mixed

Start(c, x) ==
    /\ run[c] = None
    /\ started < MaxCommands
    /\ started' = started + 1
    /\ run' = [run EXCEPT ![c] =
           [cmd |-> x, loaded |-> FALSE, work |-> EmptyLockfile, left |-> {}, todo |-> {},
            changed |-> FALSE, broken |-> {}, touched |-> [p \in Packages |-> None]]]
    /\ UNCHANGED <<disk, cut, interrupts, damage>>

\* The command ends without saving its lockfile; what it did to files and symlinks stays.
\* A repair only makes what the lockfile records.
Abandon(c) ==
    LET touched == run[c].touched IN
    /\ run' = [run EXCEPT ![c] = None]
    /\ cut' = [p \in Packages |->
           IF touched[p] = None \/ touched[p].kind = "repair" THEN cut[p]
           ELSE Onto(cut[p], touched[p])]

\* The lockfile is read.  A package that must be installed and is not: NOT_INSTALLED.
Load(c) ==
    LET r == run[c]
        known == {p \in Scope(r.cmd) : Recorded(lockfile, p) # {}} IN
    /\ r # None /\ ~r.loaded
    /\ IF ~Valid(lockfile) \/ (r.cmd.kind # "install" /\ r.cmd.package # None /\ known = {})
       THEN Abandon(c)
       ELSE /\ run' = [run EXCEPT ![c] =
                   [r EXCEPT !.loaded = TRUE, !.work = lockfile,
                             !.left = IF r.cmd.kind = "install" THEN Scope(r.cmd) ELSE known]]
            /\ UNCHANGED cut
    /\ UNCHANGED <<disk, bounds>>

\* Process c is between two packages and turns to package p: the next by name in an
\* update, any of a map in a repair; any of them here.
Turns(c, p) ==
    /\ run[c] # None /\ run[c].loaded
    /\ run[c].todo = {} /\ p \in run[c].left

Perform(c, p, plan, intent, change) ==
    /\ run' = [run EXCEPT ![c] =
           [run[c] EXCEPT !.work = plan.lock, !.left = @ \ {p}, !.todo = plan.ops,
                          !.changed = @ \/ change, !.touched[p] = intent]]
    /\ UNCHANGED <<disk, bounds>>

Refuse(c) == Abandon(c) /\ UNCHANGED <<disk, bounds>>

\* installDetail, for the version the server answered.
InstallDetail(c, p, k) ==
    LET r == run[c]
        installing == InstallPlan(r.work, p, k)
        activating == ActivatePlan(installing.lock, p, k, r.cmd.dir)
        intent == [kind |-> "install", keys |-> {k}, dir |-> r.cmd.dir] IN
    IF r.cmd.dir = None
    THEN Perform(c, p, installing, intent, installing.ops # {}) /\ UNCHANGED cut
    ELSE IF ~SameDir(r.work, p, r.cmd.dir) THEN Refuse(c)
    ELSE /\ Perform(c, p, [activating EXCEPT !.ops = @ \cup installing.ops], intent, TRUE)
         /\ UNCHANGED cut

Install(c, p) ==
    /\ Turns(c, p) /\ run[c].cmd.kind = "install"
    /\ Assets(p, run[c].cmd.version) # {}
    /\ InstallDetail(c, p, run[c].cmd.version)

\* The root index names no version of p, or the highest installed one: nothing to do.
UpdateNothing(c, p) ==
    /\ Turns(c, p) /\ run[c].cmd.kind = "update"
    /\ run' = [run EXCEPT ![c].left = @ \ {p}]
    /\ UNCHANGED <<disk, cut, bounds>>

\* The root index names another version than the highest installed one, which may be
\* a lower one when the index is behind.
Update(c, p) ==
    /\ Turns(c, p) /\ run[c].cmd.kind = "update"
    /\ \E k \in {a.key : a \in {b \in Catalog : b.package = p}} :
        /\ \E j \in InstalledKeys(run[c].work, p) \ {k} :
               \A i \in InstalledKeys(run[c].work, p) : Rank[i] <= Rank[j]
        /\ InstallDetail(c, p, k)

Activate(c, p) ==
    LET r == run[c]
        meant == Meant(r.work, p, r.cmd.version)
        ambiguous == r.cmd.version = None /\ \E j, k \in meant : j # k IN
    /\ Turns(c, p) /\ r.cmd.kind = "activate"
    /\ IF meant = {} \/ ambiguous \/ ~SameDir(r.work, p, r.cmd.dir) THEN Refuse(c)
       ELSE \E k \in meant :
           /\ Perform(c, p, ActivatePlan(r.work, p, k, r.cmd.dir),
                      [kind |-> "activate", keys |-> {k}, dir |-> r.cmd.dir], TRUE)
           /\ UNCHANGED cut

Deactivate(c, p) ==
    LET r == run[c]
        plan == DeactivatePlan(r.work, p, r.cmd.dir) IN
    /\ Turns(c, p) /\ r.cmd.kind = "deactivate"
    /\ Perform(c, p, plan, [kind |-> "deactivate", keys |-> {}, dir |-> r.cmd.dir],
               plan.ops # {})
    /\ UNCHANGED cut

\* An uninstall leaves the symlinks that are in another directory than it is told of, and
\* forgets them: no command removes them later.
Strays(l, p, keys, dir) ==
    {a \in ActiveAssets(l, p) :
        a.key \in keys /\ ~InDir(l.link[a], dir) /\ links[l.link[a]] = a}

\* Without --version and --all only a single installed version can be meant.
Uninstall(c, p) ==
    LET r == run[c]
        installed == InstalledKeys(r.work, p)
        choices ==
            IF r.cmd.version = All THEN {installed}
            ELSE IF r.cmd.version # None THEN {{k} : k \in Meant(r.work, p, r.cmd.version)}
            ELSE {{k} : k \in {j \in installed : installed = {j}}} IN
    /\ Turns(c, p) /\ r.cmd.kind = "uninstall"
    /\ IF choices = {} THEN Refuse(c)
       ELSE \E keys \in choices :
           /\ Perform(c, p, UninstallPlan(r.work, p, keys, r.cmd.dir),
                      [kind |-> "uninstall", keys |-> keys, dir |-> r.cmd.dir], TRUE)
           /\ IF Strays(r.work, p, keys, r.cmd.dir) = {} THEN UNCHANGED cut
              ELSE cut' = [cut EXCEPT ![p] = Mixed]

Repair(c, p) ==
    LET r == run[c]
        plan == RepairPlan(r.work, p, r.cmd.dir) IN
    /\ Turns(c, p) /\ r.cmd.kind = "repair"
    /\ IF Unrepairable(r.work, p, r.cmd.dir)
       THEN /\ run' = [run EXCEPT ![c].left = @ \ {p}, ![c].broken = @ \cup {p}]
            /\ UNCHANGED <<disk, cut, bounds>>
       ELSE /\ Perform(c, p, plan, [kind |-> "repair", keys |-> {}, dir |-> r.cmd.dir],
                       plan.ops # {})
            /\ UNCHANGED cut

-----------------------------------------------------------------------------
(* File operations, in the order of the code's loops *)

Phase == [write |-> 1, unlink |-> 2, delete |-> 2, link |-> 3]

\* Mutant of Before: new symlinks are made before the old ones are removed.
BeforeLinksFirst(kind, t, u) ==
    t.asset.key = u.asset.key /\ t.asset.path < u.asset.path

\* Mutant of Before: an asset's file is removed before its symlink.
BeforeFileFirst(kind, t, u) ==
    \/ Phase[t.do] < Phase[u.do]
    \/ t.asset = u.asset /\ t.do = "delete" /\ u.do = "unlink"

\* Within a version: file by file in the order of the detail.  Between versions: an
\* uninstall takes the highest first, an activation removes before it makes, and the
\* loops over a map have no order.
Before(kind, t, u) ==
    IF t.asset.key = u.asset.key
    THEN \/ Phase[t.do] < Phase[u.do]
         \/ Phase[t.do] = Phase[u.do] /\ t.asset.path < u.asset.path
         \/ t.asset = u.asset /\ t.do = "unlink" /\ u.do = "delete"
    ELSE \/ kind = "uninstall" /\ Rank[t.asset.key] > Rank[u.asset.key]
         \/ kind \in {"install", "update", "activate"} /\ Phase[t.do] < Phase[u.do]

\* The operations of this kind that process c may execute next.
Ready(c, do) ==
    IF run[c] = None THEN {}
    ELSE {t \in run[c].todo :
            t.do = do /\ \A u \in run[c].todo : ~Before(run[c].cmd.kind, u, t)}

Done(c, t) == run' = [run EXCEPT ![c].todo = @ \ {t}]

\* downloadAndWriteAsset, with the bytes that the detail's hash names.
WriteAsset(c) ==
    /\ \E t \in Ready(c, "write") :
        files' = [files EXCEPT ![t.asset] = "good"] /\ Done(c, t)
    /\ UNCHANGED <<lockfile, links, cut, bounds>>

Unlink(c) ==
    /\ \E t \in Ready(c, "unlink") :
        links' = [links EXCEPT ![t.at] = None] /\ Done(c, t)
    /\ UNCHANGED <<lockfile, files, cut, bounds>>

DeleteAsset(c) ==
    /\ \E t \in Ready(c, "delete") :
        files' = [files EXCEPT ![t.asset] = "missing"] /\ Done(c, t)
    /\ UNCHANGED <<lockfile, links, cut, bounds>>

\* An asset that is active already may get another name than it has: when the plain name
\* has become free.  Its old symlink stays, and the lockfile forgets it.
Outdated(l, a, name) == l.link[a] \in Links \ {name} /\ links[l.link[a]] = a

\* atomicSymlink replaces what has the name, whatever it is.
Link(c) ==
    /\ \E t \in Ready(c, "link") :
        LET name == IF t.at # None THEN t.at ELSE SymlinkPath(run[c].cmd.dir, t.asset) IN
        /\ links' = [links EXCEPT ![name] = t.asset]
        /\ run' = [run EXCEPT ![c].todo = @ \ {t}, ![c].work.link[t.asset] = name]
        /\ IF Outdated(run[c].work, t.asset, name)
           THEN cut' = [cut EXCEPT ![t.asset.package] = Mixed]
           ELSE UNCHANGED cut
    /\ UNCHANGED <<lockfile, files, bounds>>

\* Every package has had its turn.
Finished(c) ==
    run[c] # None /\ run[c].loaded /\ run[c].left = {} /\ run[c].todo = {}

\* What the command set out to do is done: nothing of it is left over.
Completed(c, p) ==
    LET intent == run[c].touched[p] IN
    IF intent = None THEN cut[p]
    ELSE IF cut[p] = intent \/ (cut[p] = Damaged /\ intent.kind = "repair") THEN None
    ELSE cut[p]

\* finalizeLockMutation: a lockfile that is not valid is not saved.  A repair that had
\* to leave a package saves nothing.
Finish(c) ==
    LET r == run[c] IN
    /\ Finished(c)
    /\ IF r.broken # {} \/ (r.changed /\ ~Valid(r.work))
       THEN Abandon(c) /\ UNCHANGED lockfile
       ELSE /\ lockfile' = IF r.changed THEN r.work ELSE lockfile
            /\ run' = [run EXCEPT ![c] = None]
            /\ cut' = [p \in Packages |-> Completed(c, p)]
    /\ UNCHANGED <<files, links, bounds>>

\* A download, a file operation or the save fails, or the process is killed.  A write
\* may have got half-way.
Interrupt(c) ==
    /\ run[c] # None
    /\ interrupts < MaxInterrupts
    /\ interrupts' = interrupts + 1
    /\ Abandon(c)
    /\ \/ UNCHANGED files
       \/ \E t \in Ready(c, "write") :
           files' = [files EXCEPT ![t.asset] = "partial"]
    /\ UNCHANGED <<lockfile, links, started, damage>>

\* Somebody else removes or spoils an installed file or removes a symlink, between commands.
Damage(p) ==
    /\ Quiet /\ damage < MaxDamage
    /\ damage' = damage + 1
    /\ \/ \E a \in Recorded(lockfile, p), found \in {"missing", "partial"} :
           files' = [files EXCEPT ![a] = found] /\ UNCHANGED links
       \/ \E k \in Links : k.package = p /\ links[k] # None
           /\ links' = [links EXCEPT ![k] = None] /\ UNCHANGED files
    /\ cut' = [cut EXCEPT ![p] = Onto(@, Damaged)]
    /\ UNCHANGED <<lockfile, run, started, interrupts>>

\* Somebody else makes an installed file unreadable.  Only verify and an uninstall notice,
\* and a repair takes the package for mended: it counts as left over from then on.
Obstruct(p) ==
    /\ Quiet /\ damage < MaxDamage
    /\ damage' = damage + 1
    /\ \E a \in Recorded(lockfile, p) :
        files[a] # "missing" /\ files' = [files EXCEPT ![a] = "unreadable"]
    /\ cut' = [cut EXCEPT ![p] = Mixed]
    /\ UNCHANGED <<lockfile, links, run, started, interrupts>>

\* Somebody else's file takes the plain name of a symlink.
Occupy(k) ==
    /\ Quiet /\ damage < MaxDamage
    /\ k.sha = None /\ links[k] = None
    /\ damage' = damage + 1
    /\ links' = [links EXCEPT ![k] = Foreign]
    /\ UNCHANGED <<lockfile, files, run, cut, started, interrupts>>

-----------------------------------------------------------------------------

Next ==
    \/ \E c \in Procs :
        \/ \E x \in Requests : Start(c, x)
        \/ Load(c)
        \/ \E p \in Packages :
            Install(c, p) \/ UpdateNothing(c, p) \/ Update(c, p) \/ Activate(c, p)
            \/ Deactivate(c, p) \/ Uninstall(c, p) \/ Repair(c, p)
        \/ WriteAsset(c) \/ Unlink(c) \/ DeleteAsset(c) \/ Link(c)
        \/ Finish(c)
        \/ Interrupt(c)
    \/ \E p \in Packages : Damage(p) \/ Obstruct(p)
    \/ \E k \in Links : Occupy(k)

Spec == Init /\ [][Next]_vars

-----------------------------------------------------------------------------
(* Properties *)

\* Whatever commands run, fail, are killed or overtake each other, the lockfile on disk
\* can be loaded (lockfile.go:31), and no command that has changed files and symlinks as
\* it should is then refused the save (lockfile.go:41).
SaveNeverRefused ==
    /\ Valid(lockfile)
    /\ \A c \in Procs : Finished(c) => Valid(run[c].work)

Agrees(p) ==
    /\ \A a \in Catalog : a.package = p =>
           files[a] = (IF lockfile.link[a] = Absent THEN "missing" ELSE "good")
    /\ \A k \in Links : k.package = p =>
           \A a \in Catalog : links[k] = a <=> lockfile.link[a] = k

\* Between commands, lockfile, installed files and symlinks agree on every package whose
\* interrupted commands have been given again and whose damage has been repaired.
CompletedAgrees == Quiet => \A p \in Packages : cut[p] = None => Agrees(p)

\* At no moment, an activation's own steps included, do symlinks show two versions of a
\* package, if nothing interrupted is left (docs/cli.md:321).
NeverTwoVersions ==
    \A p \in Packages : cut[p] = None =>
        \E key \in Keys : \A k \in Links :
            k.package = p /\ links[k] \notin {None, Foreign} => links[k].key = key

\* Nor does a symlink point to a file that is not there or not whole.
NoDanglingLink ==
    \A k \in Links :
        cut[k.package] = None /\ links[k] \notin {None, Foreign} => files[links[k]] = "good"

\* What a repair that reports success leaves verify to report, whatever directory verify is
\* given: the two things that repair overlooks and nothing else.
Overlooked(l, p, dir) ==
    {[asset |-> a, code |-> "INTERNAL_ERROR"] :
        a \in {b \in Recorded(l, p) : files[b] = "unreadable"}}
    \cup {[asset |-> a, code |-> "ACTIVATION_BROKEN"] :
            a \in {b \in ActiveAssets(l, p) : dir # None /\ l.link[b].dir # dir}}

\* A repair that reports success has mended every package it is for: no file is missing or
\* has other bytes than the recorded ones, and each active asset's symlink points to it
\* (docs/cli.md:164,170).  Verify reports exactly what repair does not look at: a file
\* that cannot be read (service_repair.go:47) and a symlink recorded in another directory
\* than verify's, the one repair was given included (service_repair.go:58, against
\* docs/cli.md:314).
VerifyAfterRepair ==
    \A c \in Procs :
        Finished(c) /\ run[c].cmd.kind = "repair" /\ run[c].broken = {} =>
            LET l == run[c].work IN
            \A p \in Scope(run[c].cmd), dir \in Dirs \cup {None} :
                Findings(l, p, dir) = Overlooked(l, p, dir)

\* The two commands that inspect an activation never contradict each other, whatever was
\* interrupted, spoilt or left half-way: what ls calls active has no activation that verify
\* finds broken, what ls calls broken verify does not pass, and what verify passes is
\* active in all its assets (docs/cli.md:164).
LsAgreesWithVerify ==
    \A p \in Packages, dir \in Dirs :
        LET status == Status(lockfile, p, dir)
            codes == {f.code : f \in Findings(lockfile, p, dir)} IN
        /\ status = "active" => "ACTIVATION_BROKEN" \notin codes
        /\ status = "broken" => codes # {}
        /\ codes = {} /\ lockfile.active[p] # None => status = "active"

\* docs/cli.md:364: an asset is active if and only if its symlink is there.
ActiveIffLinked ==
    Quiet => \A a \in Catalog :
        lockfile.link[a] # Absent =>
            (lockfile.link[a] # None <=> \E k \in Links : links[k] = a)
=============================================================================
