-------------------------- MODULE CliAgreementProofs --------------------------
(***************************************************************************)
(* Lockfile, installed files and symlinks of CliState agree once what was  *)
(* interrupted has been given again, and on the way there no symlink shows *)
(* a second version or a file that is not there.  For one process at a     *)
(* time, any catalogue, any commands, failures and outside damage.         *)
(*                                                                         *)
(* Five invariants carry it, each one using those before it: which names   *)
(* symlinks can have (Names), what a command in execution has in hand      *)
(* (Books), that no package with a file that cannot be read passes for     *)
(* mended (Noted), what an interrupted command left that the lockfile does *)
(* not say (Explains), and that it left nothing where nothing is noted     *)
(* (Fresh).                                                                *)
(***************************************************************************)
EXTENDS CliStateProofs

-----------------------------------------------------------------------------
(* Names of symlinks *)

\* The assets of a version whose symlinks would have one name.
Alike(a, b) == a.package = b.package /\ a.key = b.key /\ a.base = b.base

\* A manifest lists no path twice (ASSET_DUPLICATE_PATH, protocol/manifest.go:37).
PathsTellApart == \A a, b \in Catalog : Alike(a, b) /\ a.path = b.path => a = b

First(a) == \A b \in Catalog : Alike(a, b) => a.path <= b.path

Plain(dir, a) == [dir |-> dir, package |-> a.package, base |-> a.base, sha |-> None]

\* Symlink n may be one of asset a: the first asset of a version to need the plain name is
\* the only one that ever gets it.
Fits(n, a) ==
    /\ n.package = a.package /\ n.base = a.base /\ n.sha \in {None, a.sha}
    /\ n.sha = None => First(a)

Fitting(l) == \A a \in Catalog : l.link[a] \in Links => Fits(l.link[a], a)

\* A version is recorded with all its assets.
Closed(l) ==
    \A a, b \in Catalog :
        a.package = b.package /\ a.key = b.key /\ l.link[a] # Absent => l.link[b] # Absent

\* While an activation makes symlinks: an asset that comes later finds its plain name taken.
Taken(r, where) ==
    \A t \in r.todo : t.do = "link" /\ t.at = None =>
        \A a \in Assets(t.asset.package, t.asset.key) :
            \/ a \in ToName(r.todo)
            \/ where[Plain(r.cmd.dir, a)] # None /\ \A u \in r.todo : u.do # "unlink"

RunNames(r, where) == Fitting(r.work) /\ Closed(r.work) /\ Taken(r, where)

Names ==
    /\ \A n \in Links : links[n] \in Catalog => Fits(n, links[n])
    /\ Fitting(lockfile) /\ Closed(lockfile)
    /\ \A c \in Procs : run[c] # None => RunNames(run[c], links)

-----------------------------------------------------------------------------
(* What a command has in hand, and what it set out to do *)

Pending(todo, do, a) == \E t \in todo : t.do = do /\ t.asset = a
ToGo(todo, n) == \E t \in todo : t.do = "unlink" /\ t.at = n

\* What a command that meant "intent" and was interrupted may have made or taken away.
MayBeLeft(intent, n, a) ==
    /\ intent \in Intents /\ intent.kind \in {"install", "activate"}
    /\ a.key \in intent.keys /\ n.dir = intent.dir

MayBeGone(intent, n, a) ==
    \/ intent = Damaged
    \/ /\ intent \in Intents
       /\ \/ intent.kind = "deactivate" /\ InDir(n, intent.dir)
          \/ intent.kind = "uninstall" /\ a.key \in intent.keys /\ InDir(n, intent.dir)
          \/ /\ intent.kind \in {"install", "activate"}
             /\ a.key \notin intent.keys /\ n.dir = intent.dir

FileMayBeLeft(intent, a) ==
    intent \in Intents /\ intent.kind = "install" /\ a.key \in intent.keys

FileMayBeGone(intent, a) ==
    intent = Damaged \/ (intent \in Intents /\ intent.kind = "uninstall" /\ a.key \in intent.keys)

\* Operation t is one that the intent calls for, given the lockfile l on disk.
Meets(t, intent, l, work, dir) ==
    /\ intent \in Intents /\ intent.dir = dir
    /\ t.do = "write" =>
           /\ FileMayBeLeft(intent, t.asset)
           /\ l.link[t.asset] = Absent /\ work.link[t.asset] # Absent
    /\ t.do = "delete" =>
           /\ FileMayBeGone(intent, t.asset)
           /\ l.link[t.asset] # Absent /\ work.link[t.asset] = Absent
    /\ t.do = "unlink" =>
           /\ t.at \in Links /\ t.at = l.link[t.asset] /\ MayBeGone(intent, t.at, t.asset)
           /\ \A b \in Catalog : work.link[b] # t.at
    /\ t.do = "link" =>
           IF t.at = None
           THEN intent.kind \in {"install", "activate"} /\ intent.keys = {t.asset.key}
           ELSE intent.kind = "repair"

Untouched(r, p) == r.touched[p] = None \/ r.touched[p].kind = "repair"

RunBooks(r, l) ==
    IF r.loaded
    THEN /\ r.changed \/ (r.work = l /\ r.todo = {})
         /\ \A p \in r.left : r.touched[p] = None
         /\ \A p \in Packages : Untouched(r, p) =>
                \A a \in Catalog : a.package = p => r.work.link[a] = l.link[a]
         /\ \A t \in r.todo : Meets(t, r.touched[t.asset.package], l, r.work, r.cmd.dir)
    ELSE \A p \in Packages : r.touched[p] = None

Books == \A c \in Procs : run[c] # None => RunBooks(run[c], lockfile)

\* A package one of whose files cannot be read is not taken for mended by any command.
Noted == \A a \in Catalog : files[a] = "unreadable" => cut[a.package] = Mixed

-----------------------------------------------------------------------------
(* What lockfile and disk have to do with each other *)

\* The plain name of a is somebody else's, and nothing is about to free it.
Blocked(l, todo, dir, a, where) ==
    /\ where[Plain(dir, a)] = Foreign
    /\ \A b \in Catalog : l.link[b] # Plain(dir, a)
    /\ ~ToGo(todo, Plain(dir, a))

\* A symlink that an activation made before it was interrupted, and would make again.
Lasts(l, todo, n, a, where) == n.sha = None \/ ~First(a) \/ Blocked(l, todo, n.dir, a, where)

FileExplained(l, todo, intent, a, content) ==
    IF l.link[a] # Absent
    THEN content[a] = "good" \/ Pending(todo, "write", a) \/ FileMayBeGone(intent, a)
    ELSE content[a] = "missing" \/ Pending(todo, "delete", a) \/ FileMayBeLeft(intent, a)

LinkExplained(l, todo, dir, intent, n, a, where) ==
    IF l.link[a] = n
    THEN where[n] = a \/ Pending(todo, "link", a) \/ MayBeGone(intent, n, a)
    ELSE where[n] = a =>
             \/ ToGo(todo, n)
             \/ /\ (a \in ToName(todo) /\ n.dir = dir) \/ MayBeLeft(intent, n, a)
                /\ Lasts(l, todo, n, a, where)

\* Once the operations in todo are executed, files and symlinks of package p are as lockfile
\* l says, but for what an interrupted command that meant "intent" left or took away.
Explained(p, l, todo, dir, intent, content, where) ==
    intent # Mixed => \A a \in Catalog : a.package = p =>
        /\ FileExplained(l, todo, intent, a, content)
        /\ \A n \in Links : LinkExplained(l, todo, dir, intent, n, a, where)

\* What package p is left with when the command stops now, and when it gets to its end.
IfCut(r, old, p) == IF Untouched(r, p) THEN old ELSE Onto(old, r.touched[p])

IfDone(r, old, p) ==
    LET intent == r.touched[p] IN
    IF intent # None /\ (old = intent \/ (old = Damaged /\ intent.kind = "repair")) THEN None
    ELSE old

\* A file of somebody else's that has the name of a symlink of an old version goes with it.
OldNamesFreed(r, p, l, where) ==
    LET intent == r.touched[p] IN
    intent # None /\ intent.kind \in {"install", "activate"} =>
        \A a \in Catalog : a.package = p /\ l.link[a] \in Links
                           /\ a.key \notin intent.keys /\ l.link[a].dir = intent.dir =>
            where[l.link[a]] # Foreign \/ ToGo(r.todo, l.link[a])

RunExplains(r, p, l, old, content, where) ==
    /\ Explained(p, l, {}, None, IfCut(r, old, p), content, where)
    /\ r.loaded =>
           /\ Explained(p, r.work, r.todo, r.cmd.dir, IfDone(r, old, p), content, where)
           /\ OldNamesFreed(r, p, l, where)

Explains ==
    \A p \in Packages :
        /\ Quiet => Explained(p, lockfile, {}, None, cut[p], files, links)
        /\ \A c \in Procs : run[c] # None =>
               RunExplains(run[c], p, lockfile, cut[p], files, links)

\* A symlink of a package where nothing is left over from an earlier command.
FreshLink(r, l, n, a, content) ==
    /\ \/ r.work.link[a] = n
       \/ content[a] = "good" /\ \E t \in r.todo : t.do = "unlink" /\ t.at = n /\ t.asset = a
    /\ ~Pending(r.todo, "write", a)
    /\ (\E t \in r.todo : t.do = "unlink" /\ t.asset.package = a.package) => l.link[a] = n

RunFresh(r, l, old, content, where) ==
    r.loaded => \A n \in Links, a \in Catalog :
        where[n] = a /\ old[a.package] = None => FreshLink(r, l, n, a, content)

Fresh == \A c \in Procs : run[c] # None => RunFresh(run[c], lockfile, cut, files, links)

-----------------------------------------------------------------------------
(* Symlinks and their names *)

LEMMA LinkFields ==
    ASSUME NEW n \in Links
    PROVE  n = [dir |-> n.dir, package |-> n.package, base |-> n.base, sha |-> n.sha]
           /\ n.dir \in Dirs /\ n.package \in Packages
BY DEF Links

LEMMA SameLink ==
    ASSUME NEW n \in Links, NEW m \in Links,
           n.dir = m.dir, n.package = m.package, n.base = m.base, n.sha = m.sha
    PROVE  n = m
BY LinkFields

LEMMA PlainType ==
    ASSUME NEW dir \in Dirs, NEW a \in Catalog
    PROVE  /\ Plain(dir, a) \in Links
           /\ Plain(dir, a).dir = dir /\ Plain(dir, a).package = a.package
           /\ Plain(dir, a).base = a.base /\ Plain(dir, a).sha = None
BY CatalogFields DEF Plain, Links

LEMMA SymlinkPathNames ==
    ASSUME NEW dir \in Dirs, NEW a \in Catalog, NEW name, name = SymlinkPath(dir, a)
    PROVE  /\ name \in Links /\ name.dir = dir /\ name.package = a.package /\ name.base = a.base
           /\ \/ links[Plain(dir, a)] \in {None, a} /\ name = Plain(dir, a)
              \/ links[Plain(dir, a)] \notin {None, a} /\ name.sha = a.sha
BY SymlinkPathType DEF SymlinkPath, Plain

\* The plain name of a version goes to one asset only ...
LEMMA FirstIsOne ==
    ASSUME PathsTellApart, NEW a \in Catalog, NEW b \in Catalog, First(a), First(b), Alike(a, b)
    PROVE  a = b
<1>1. Alike(b, a) /\ a.path \in Nat /\ b.path \in Nat
  BY CatalogAssumption DEF Alike
<1>2. a.path = b.path
  BY <1>1 DEF First
<1> QED
  BY <1>2 DEF PathsTellApart

\* ... and so does every name.
LEMMA NameIsOne ==
    ASSUME BytesTellApart, PathsTellApart, NEW a \in Catalog, NEW b \in Catalog, NEW n \in Links,
           Fits(n, a), Fits(n, b), a.key = b.key
    PROVE  a = b
<1>1. Alike(a, b)
  BY DEF Alike, Fits
<1>2. CASE n.sha = None
  BY <1>1, <1>2, FirstIsOne DEF Fits
<1>3. CASE n.sha # None
  BY <1>1, <1>3 DEF Fits, Alike, BytesTellApart
<1> QED
  BY <1>2, <1>3

\* A symlink with the plain name.
LEMMA FitsPlain ==
    ASSUME NEW n \in Links, NEW a \in Catalog, Fits(n, a), n.sha = None
    PROVE  n = Plain(n.dir, a)
<1>1. n.dir \in Dirs
  BY LinkFields
<1> QED
  BY <1>1, PlainType, SameLink DEF Fits

LEMMA RunOf ==
    ASSUME IInv, NEW c \in Procs, run[c] # None
    PROVE  /\ run[c] \in Runs /\ RunSound(run[c])
           /\ run[c].work \in Lockfiles /\ run[c].todo \in SUBSET Ops
           /\ run[c].cmd \in Commands /\ run[c].cmd \in Requests
           /\ run[c].cmd.dir \in Dirs \cup {None}
           /\ run[c].touched \in [Packages -> Intents \cup {None}]
           /\ run[c].loaded \in BOOLEAN /\ run[c].changed \in BOOLEAN
<1>1. run[c] \in Runs /\ RunSound(run[c])
  BY DEF IInv, TypeOK
<1> QED
  BY <1>1 DEF Runs, RunSound, Commands

-----------------------------------------------------------------------------
(* Names stays true *)

LEMMA RunNamesStep ==
    ASSUME OneProcess, IInv, Names, NEW c \in Procs, NEW r,
           run' = [run EXCEPT ![c] = r], lockfile' = lockfile,
           r # None => RunNames(r, links'),
           \A n \in Links : links'[n] \in Catalog => Fits(n, links'[n])
    PROVE  Names'
<1>1. \A d \in Procs : run'[d] # None => RunNames(run'[d], links')
  BY DEF OneProcess, IInv, TypeOK
<1> QED
  BY <1>1 DEF Names

\* An abandoned command leaves nothing to name.
LEMMA AbandonNames ==
    ASSUME OneProcess, IInv, Names, NEW c \in Procs, Abandon(c), lockfile' = lockfile,
           links' = links
    PROVE  Names'
<1>1. run' = [run EXCEPT ![c] = None]
  BY DEF Abandon
<1> QED
  BY <1>1, RunNamesStep DEF Names

LEMMA FewerFit ==
    ASSUME NEW l, NEW m, Fitting(l),
           \A a \in Catalog : m.link[a] = l.link[a] \/ m.link[a] \in {None, Absent}
    PROVE  Fitting(m)
BY ValuesAssumption DEF Fitting

\* Nothing is named by operations that make no new symlink.
LEMMA NoneTaken ==
    ASSUME NEW r, NEW where, \A t \in r.todo : t.do # "link" \/ t.at # None
    PROVE  Taken(r, where)
BY DEF Taken

LEMMA PerformNames ==
    ASSUME OneProcess, IInv, Names, NEW c \in Procs, NEW p \in Packages, Turns(c, p), NEW plan,
           \A a \in Catalog :
               plan.lock.link[a] = run[c].work.link[a] \/ plan.lock.link[a] \in {None, Absent},
           Closed(plan.lock),
           \A t \in plan.ops : t.do = "link" /\ t.at = None =>
               \A a \in Assets(t.asset.package, t.asset.key) : a \in ToName(plan.ops),
           NEW intent, NEW change, Perform(c, p, plan, intent, change)
    PROVE  Names'
<1> DEFINE r == run[c]
           s == [r EXCEPT !.work = plan.lock, !.left = @ \ {p}, !.todo = plan.ops,
                          !.changed = @ \/ change, !.touched[p] = intent]
<1>1. r \in Runs /\ r # None
  BY RunOf DEF Turns
<1>2. run' = [run EXCEPT ![c] = s] /\ lockfile' = lockfile /\ links' = links
  BY DEF Perform, disk
<1>3. s.work = plan.lock /\ s.todo = plan.ops
  BY <1>1 DEF Runs
<1>4. Fitting(plan.lock)
  BY <1>1, FewerFit DEF Names, RunNames
<1> HIDE DEF s
<1>5. RunNames(s, links')
  BY <1>3, <1>4 DEF RunNames, Taken
<1> QED
  BY <1>2, <1>5, RunNamesStep DEF Names

LEMMA StartLoadNames ==
    ASSUME OneProcess, IInv, Names, NEW c \in Procs, Load(c) \/ \E x \in Requests : Start(c, x)
    PROVE  Names'
<1>1. ASSUME NEW x \in Requests, Start(c, x) PROVE Names'
  <2> DEFINE r == [cmd |-> x, loaded |-> FALSE, work |-> EmptyLockfile, left |-> {},
                   todo |-> {}, changed |-> FALSE, broken |-> {},
                   touched |-> [q \in Packages |-> None]]
  <2>1. run' = [run EXCEPT ![c] = r] /\ lockfile' = lockfile /\ links' = links
    BY <1>1 DEF Start, disk
  <2>2. Fitting(EmptyLockfile) /\ Closed(EmptyLockfile)
    BY ValuesAssumption DEF EmptyLockfile, Fitting, Closed
  <2>3. RunNames(r, links')
    BY <2>2 DEF RunNames, Taken
  <2> HIDE DEF r
  <2> QED
    BY <2>1, <2>3, RunNamesStep DEF Names
<1>2. CASE Load(c)
  <2> DEFINE r == run[c]
             known == {p \in Scope(r.cmd) : Recorded(lockfile, p) # {}}
             left == IF r.cmd.kind = "install" THEN Scope(r.cmd) ELSE known
             s == [r EXCEPT !.loaded = TRUE, !.work = lockfile, !.left = left]
  <2>1. r # None /\ r \in Runs /\ r.todo = {} /\ lockfile' = lockfile /\ links' = links
    BY <1>2, RunOf DEF Load, RunSound, disk
  <2>2. CASE Abandon(c)
    BY <2>1, <2>2, AbandonNames
  <2>3. CASE run' = [run EXCEPT ![c] = s]
    <3>1. s.work = lockfile /\ s.todo = {}
      BY <2>1 DEF Runs
    <3> HIDE DEF s
    <3>2. RunNames(s, links')
      BY <3>1 DEF Names, RunNames, Taken
    <3> QED
      BY <2>1, <2>3, <3>2, RunNamesStep DEF Names
  <2> QED
    BY <1>2, <2>2, <2>3 DEF Load
<1> QED
  BY <1>1, <1>2

-----------------------------------------------------------------------------
(* Plans *)

\* What the plan for package p, made from lockfile l, does to the lockfile, and which of it
\* the operations do to files and symlinks.  An uninstall may leave a symlink behind.
Edits(plan, p, l, kind) ==
    \A a \in Catalog :
        /\ plan.lock.link[a] = l.link[a] \/ (a.package = p /\ plan.lock.link[a] \in {None, Absent})
        /\ plan.lock.link[a] # Absent /\ l.link[a] = Absent => Pending(plan.ops, "write", a)
        /\ plan.lock.link[a] = Absent /\ l.link[a] # Absent => Pending(plan.ops, "delete", a)
        /\ l.link[a] \in Links /\ plan.lock.link[a] # l.link[a] =>
               \/ \E t \in plan.ops : t.do = "unlink" /\ t.asset = a /\ t.at = l.link[a]
               \/ kind = "uninstall"

\* What an interrupted command left or took away, the plan takes away or makes again.
MakesGood(plan, p, intent) ==
    \A a \in Catalog : a.package = p =>
        /\ FileMayBeGone(intent, a) => plan.lock.link[a] = Absent
        /\ FileMayBeLeft(intent, a) => plan.lock.link[a] # Absent
        /\ \A n \in Links : MayBeGone(intent, n, a) => plan.lock.link[a] # n
        /\ \A n \in Links : MayBeLeft(intent, n, a) => a \in ToName(plan.ops)

Serves(plan, p, intent, change, l, dir) ==
    /\ intent \in Intents /\ change \in BOOLEAN
    /\ plan.lock \in Lockfiles /\ plan.ops \in SUBSET Ops
    /\ change \/ (plan.lock = l /\ plan.ops = {})
    /\ Closed(plan.lock)
    /\ \A t \in plan.ops :
           t.asset \in Catalog /\ t.asset.package = p /\ Meets(t, intent, l, plan.lock, dir)
    /\ \A t \in plan.ops : t.do = "link" /\ t.at = None =>
           \A a \in Assets(t.asset.package, t.asset.key) : a \in ToName(plan.ops)
    /\ Edits(plan, p, l, intent.kind)
    /\ intent.kind = "repair" => plan.lock.link = l.link
    /\ MakesGood(plan, p, intent)

LEMMA SomeActiveRecording ==
    ASSUME NEW l \in Lockfiles, NEW assets, NEW link \in {None, Absent}, NEW p \in Packages,
           NEW m, m = SomeActive(Recording(l, assets, link), p)
    PROVE  \A a \in Catalog : m.link[a] = IF a \in assets THEN link ELSE l.link[a]
<1> DEFINE e == Recording(l, assets, link)
<1>1. e \in Lockfiles /\ \A a \in Catalog : e.link[a] = IF a \in assets THEN link ELSE l.link[a]
  BY RecordingType
<1> HIDE DEF e
<1>2. SomeActive(e, p).link = e.link
  BY <1>1 DEF SomeActive, Lockfiles
<1> QED
  BY <1>1, <1>2 DEF e

\* The symlinks to remove are those of assets that are not active afterwards, and of no other.
LEMMA UnlinksOf ==
    ASSUME NEW l, Distinct(l, {}), NEW old \in SUBSET Catalog,
           \A a \in old : l.link[a] \in Links, NEW m,
           \A a \in Catalog : m.link[a] = l.link[a] \/ m.link[a] \in {None, Absent},
           \A a \in old : m.link[a] \in {None, Absent}
    PROVE  /\ \A t \in Unlinks(l, old) :
                  /\ t.do = "unlink" /\ t.asset \in old /\ t.at = l.link[t.asset]
                  /\ \A b \in Catalog : m.link[b] # t.at
           /\ \A a \in old : \E t \in Unlinks(l, old) :
                  t.do = "unlink" /\ t.asset = a /\ t.at = l.link[a]
<1>1. ASSUME NEW a \in old, NEW b \in Catalog, m.link[b] = l.link[a] PROVE FALSE
  <2>1. l.link[b] = l.link[a]
    BY <1>1, ValuesAssumption
  <2> QED
    BY <1>1, <2>1, ValuesAssumption DEF Distinct
<1>2. \A t \in Unlinks(l, old) : t.do = "unlink" /\ t.asset \in old /\ t.at = l.link[t.asset]
  BY DEF Unlinks, Op
<1>3. \A a \in old : Op("unlink", a, l.link[a]) \in Unlinks(l, old)
  BY DEF Unlinks
<1>4. \A a \in old : \E t \in Unlinks(l, old) : t.do = "unlink" /\ t.asset = a /\ t.at = l.link[a]
  BY <1>3 DEF Op
<1> QED
  BY <1>1, <1>2, <1>4

\* A command that changes no lockfile of its own makes no change.
LEMMA SomeActiveOfNone ==
    ASSUME NEW l \in Lockfiles, Valid(l), NEW p \in Packages, NEW link
    PROVE  SomeActive(Recording(l, {}, link), p) = l
<1>1. Recording(l, {}, link) = l
  BY DEF Recording, Lockfiles
<1>2. ChosenActive(l, p) = l.active[p]
  BY ChosenActiveOfValid
<1> QED
  BY <1>1, <1>2 DEF SomeActive, Lockfiles

LEMMA DeactivateServes ==
    ASSUME NEW l \in Lockfiles, Valid(l), Distinct(l, {}), Closed(l), NEW p \in Packages,
           NEW dir \in Dirs \cup {None}, NEW plan, plan = DeactivatePlan(l, p, dir),
           NEW intent, intent = [kind |-> "deactivate", keys |-> {}, dir |-> dir]
    PROVE  Serves(plan, p, intent, plan.ops # {}, l, dir)
<1> DEFINE old == {a \in ActiveAssets(l, p) : InDir(l.link[a], dir)}
<1>1. \A a \in old : a \in Catalog /\ a.package = p /\ l.link[a] \in Links /\ InDir(l.link[a], dir)
  BY DEF InDir, ActiveAssets, Recorded
<1>2. plan.lock = SomeActive(Recording(l, old, None), p) /\ plan.ops = Unlinks(l, old)
  BY DEF DeactivatePlan
<1>3. \A a \in Catalog : a.package = p /\ InDir(l.link[a], dir) => a \in old
  BY ActiveMeansLinked DEF InDir
<1>4. plan.lock \in Lockfiles /\ plan.ops \in SUBSET Ops
  BY DeactivatePlanSound DEF PlanSound
<1> HIDE DEF old
<1>5. \A a \in Catalog : plan.lock.link[a] = IF a \in old THEN None ELSE l.link[a]
  BY <1>2, SomeActiveRecording
<1>6. /\ \A t \in plan.ops :
             /\ t.do = "unlink" /\ t.asset \in old /\ t.at = l.link[t.asset]
             /\ \A b \in Catalog : plan.lock.link[b] # t.at
      /\ \A a \in old : \E t \in plan.ops : t.do = "unlink" /\ t.asset = a /\ t.at = l.link[a]
  <2>1. old \in SUBSET Catalog /\ \A a \in old : l.link[a] \in Links
    BY <1>1
  <2>2. \A a \in Catalog : plan.lock.link[a] = l.link[a] \/ plan.lock.link[a] \in {None, Absent}
    BY <1>5
  <2>3. \A a \in old : plan.lock.link[a] \in {None, Absent}
    BY <1>5, <2>1
  <2> QED
    BY <1>2, <2>1, <2>2, <2>3, UnlinksOf
<1>7. intent \in Intents /\ intent.kind = "deactivate" /\ intent.dir = dir
  BY DEF Intents
<1>8. plan.ops = {} => plan.lock = l
  <2> SUFFICES ASSUME plan.ops = {} PROVE plan.lock = l
    OBVIOUS
  <2>1. old = {}
    BY <1>6
  <2> QED
    BY <1>2, <2>1, SomeActiveOfNone
<1>9. \A t \in plan.ops :
          t.asset \in Catalog /\ t.asset.package = p /\ Meets(t, intent, l, plan.lock, dir)
  BY <1>1, <1>6, <1>7 DEF Meets, MayBeGone
<1>10. Edits(plan, p, l, intent.kind)
  BY <1>1, <1>5, <1>6, ValuesAssumption, ZenonT(60) DEF Edits
<1>11. Closed(plan.lock)
  BY <1>1, <1>5, ValuesAssumption DEF Closed
<1>12. MakesGood(plan, p, intent)
  <2>1. Damaged \notin Intents
    BY ValuesAssumption
  <2>2. \A n \in Links, a \in Catalog : a.package = p /\ InDir(n, dir) => plan.lock.link[a] # n
    BY <1>3, <1>5, ValuesAssumption
  <2> QED
    BY <1>7, <2>1, <2>2 DEF MakesGood, FileMayBeGone, FileMayBeLeft, MayBeGone, MayBeLeft
<1> QED
  BY <1>4, <1>6, <1>7, <1>8, <1>9, <1>10, <1>11, <1>12 DEF Serves

LEMMA UninstallServes ==
    ASSUME NEW l \in Lockfiles, Valid(l), Distinct(l, {}), Closed(l), NEW p \in Packages,
           NEW dir \in Dirs \cup {None}, NEW keys \in SUBSET Keys,
           NEW plan, plan = UninstallPlan(l, p, keys, dir),
           NEW intent, intent = [kind |-> "uninstall", keys |-> keys, dir |-> dir]
    PROVE  /\ Serves(plan, p, intent, TRUE, l, dir)
           /\ \A a \in Catalog :
                  plan.lock.link[a] # l.link[a] /\ l.link[a] \in Links =>
                      \/ \E t \in plan.ops : t.do = "unlink" /\ t.asset = a /\ t.at = l.link[a]
                      \/ links[l.link[a]] # a
                      \/ Strays(l, p, keys, dir) # {}
<1> DEFINE gone == {a \in Recorded(l, p) : a.key \in keys}
           old == {a \in gone : InDir(l.link[a], dir)}
           deletes == {Op("delete", a, None) : a \in gone}
<1>1. \A a \in gone : a \in Catalog /\ a.package = p /\ a.key \in keys /\ l.link[a] # Absent
  BY DEF Recorded
<1>2. plan.lock = SomeActive(Recording(l, gone, Absent), p)
      /\ plan.ops = Unlinks(l, old) \cup deletes
  BY DEF UninstallPlan
<1>3. \A a \in Catalog : a.package = p /\ a.key \in keys /\ l.link[a] # Absent => a \in gone
  BY DEF Recorded
<1>4. plan.lock \in Lockfiles /\ plan.ops \in SUBSET Ops
  BY UninstallPlanSound DEF PlanSound
<1>5. old \subseteq gone /\ \A a \in old : InDir(l.link[a], dir) /\ l.link[a] \in Links
  BY DEF InDir
<1>6. \A a \in gone : InDir(l.link[a], dir) => a \in old
  OBVIOUS
<1>7. /\ \A t \in deletes : t.do = "delete" /\ t.asset \in gone
      /\ \A a \in gone : Pending(deletes, "delete", a)
  <2>1. \A a \in gone : Op("delete", a, None) \in deletes
    OBVIOUS
  <2>2. \A t \in deletes : t.do = "delete" /\ t.asset \in gone
    BY DEF Op
  <2>3. \A a \in gone : Op("delete", a, None).do = "delete" /\ Op("delete", a, None).asset = a
    BY DEF Op
  <2> HIDE DEF gone, deletes
  <2> QED
    BY <2>1, <2>2, <2>3 DEF Pending
<1> HIDE DEF gone, old, deletes
<1>8. \A a \in Catalog : plan.lock.link[a] = IF a \in gone THEN Absent ELSE l.link[a]
  BY <1>2, SomeActiveRecording
<1>9. /\ \A t \in Unlinks(l, old) :
             /\ t.do = "unlink" /\ t.asset \in old /\ t.at = l.link[t.asset]
             /\ \A b \in Catalog : plan.lock.link[b] # t.at
      /\ \A a \in old : \E t \in Unlinks(l, old) :
             t.do = "unlink" /\ t.asset = a /\ t.at = l.link[a]
  <2>1. old \in SUBSET Catalog /\ \A a \in old : l.link[a] \in Links
    BY <1>1, <1>5
  <2>2. \A a \in Catalog : plan.lock.link[a] = l.link[a] \/ plan.lock.link[a] \in {None, Absent}
    BY <1>8
  <2>3. \A a \in old : plan.lock.link[a] \in {None, Absent}
    BY <1>5, <1>8, <2>1
  <2> QED
    BY <2>1, <2>2, <2>3, UnlinksOf
<1>10. intent \in Intents /\ intent.kind = "uninstall" /\ intent.keys = keys /\ intent.dir = dir
  BY DEF Intents
<1>11. ASSUME NEW t \in plan.ops
       PROVE  t.do \in {"unlink", "delete"} /\ t.asset \in Catalog /\ t.asset.package = p
              /\ Meets(t, intent, l, plan.lock, dir)
  <2>1. CASE t \in Unlinks(l, old)
    BY <1>1, <1>5, <1>9, <1>10, <2>1 DEF Meets, MayBeGone
  <2>2. CASE t \in deletes
    BY <1>1, <1>7, <1>8, <1>10, <2>2 DEF Meets, FileMayBeGone
  <2> QED
    BY <1>2, <2>1, <2>2
<1>12. Edits(plan, p, l, intent.kind)
  <2> SUFFICES ASSUME NEW a \in Catalog
               PROVE  /\ \/ plan.lock.link[a] = l.link[a]
                         \/ a.package = p /\ plan.lock.link[a] \in {None, Absent}
                      /\ plan.lock.link[a] # Absent /\ l.link[a] = Absent =>
                             Pending(plan.ops, "write", a)
                      /\ plan.lock.link[a] = Absent /\ l.link[a] # Absent =>
                             Pending(plan.ops, "delete", a)
    BY <1>10 DEF Edits
  <2>1. a \in gone => Pending(plan.ops, "delete", a)
    BY <1>2, <1>7 DEF Pending
  <2> QED
    BY <1>1, <1>8, <2>1
<1>13. Closed(plan.lock)
  <2> SUFFICES ASSUME NEW a \in Catalog, NEW b \in Catalog, a.package = b.package, a.key = b.key,
                      plan.lock.link[a] # Absent
               PROVE  plan.lock.link[b] # Absent
    BY DEF Closed
  <2>1. a \notin gone /\ l.link[a] # Absent
    BY <1>8
  <2>2. l.link[b] # Absent
    BY <2>1 DEF Closed
  <2>3. b \notin gone
    BY <1>1, <1>3, <2>1
  <2> QED
    BY <1>8, <2>2, <2>3
<1>14. MakesGood(plan, p, intent)
  <2>1. Damaged \notin Intents
    BY ValuesAssumption
  <2>2. \A a \in Catalog : a.package = p /\ a.key \in keys => plan.lock.link[a] = Absent
    BY <1>3, <1>8
  <2> QED
    BY <1>10, <2>1, <2>2, ValuesAssumption
       DEF MakesGood, FileMayBeGone, FileMayBeLeft, MayBeGone, MayBeLeft
<1>15. ASSUME NEW a \in Catalog, plan.lock.link[a] # l.link[a], l.link[a] \in Links
       PROVE  \/ \E t \in plan.ops : t.do = "unlink" /\ t.asset = a /\ t.at = l.link[a]
              \/ links[l.link[a]] # a
              \/ Strays(l, p, keys, dir) # {}
  <2>1. a \in gone
    BY <1>8, <1>15
  <2>2. CASE InDir(l.link[a], dir)
    BY <1>2, <1>6, <1>9, <2>1, <2>2
  <2>3. CASE ~InDir(l.link[a], dir)
    <3>1. a \in ActiveAssets(l, p)
      BY <1>1, <1>15, <2>1, ActiveMeansLinked
    <3> QED
      BY <1>1, <2>1, <2>3, <3>1 DEF Strays
  <2> QED
    BY <2>2, <2>3
<1> QED
  BY <1>4, <1>10, <1>11, <1>12, <1>13, <1>14, <1>15 DEF Serves

\* Version k of package p is in lockfile m, and its files that l does not have are written.
Installing(l, m, writes, p, k) ==
    /\ \A a \in Catalog :
           m.link[a] = IF a \in Assets(p, k) /\ l.link[a] = Absent THEN None ELSE l.link[a]
    /\ \A t \in writes : t.do = "write" /\ t.asset \in Assets(p, k) /\ l.link[t.asset] = Absent
    /\ \A a \in Assets(p, k) : l.link[a] = Absent => Pending(writes, "write", a)

LEMMA InstallPlanInstalls ==
    ASSUME NEW l \in Lockfiles, Valid(l), Closed(l), NEW p \in Packages, NEW k \in Keys,
           NEW plan, plan = InstallPlan(l, p, k)
    PROVE  /\ plan.lock \in Lockfiles /\ plan.ops \in SUBSET Ops
           /\ Installing(l, plan.lock, plan.ops, p, k)
           /\ plan.ops = {} /\ Assets(p, k) # {} => plan.lock = l
<1>1. plan.lock \in Lockfiles /\ plan.ops \in SUBSET Ops
  BY InstallPlanSound DEF PlanSound
<1>2. CASE k \in InstalledKeys(l, p)
  <2>1. plan.lock = l /\ plan.ops = {}
    BY <1>2 DEF InstallPlan
  <2>2. \A a \in Assets(p, k) : l.link[a] # Absent
    BY <1>2 DEF InstalledKeys, Recorded, Assets, Closed
  <2> QED
    BY <1>1, <2>1, <2>2 DEF Installing
<1>3. CASE k \notin InstalledKeys(l, p)
  <2> DEFINE writes == {Op("write", a, None) : a \in Assets(p, k)}
  <2>1. plan.lock = Recording(l, Assets(p, k), None) /\ plan.ops = writes
    BY <1>3 DEF InstallPlan
  <2>2. \A a \in Assets(p, k) : l.link[a] = Absent
    BY <1>3 DEF InstalledKeys, Recorded, Assets
  <2>3. \A a \in Catalog : plan.lock.link[a] = IF a \in Assets(p, k) THEN None ELSE l.link[a]
    BY <2>1, RecordingType
  <2>4. \A a \in Assets(p, k) : Op("write", a, None) \in writes
    OBVIOUS
  <2>5. \A t \in writes : t.do = "write" /\ t.asset \in Assets(p, k)
    BY DEF Op
  <2>6. \A a \in Assets(p, k) :
            Op("write", a, None).do = "write" /\ Op("write", a, None).asset = a
    BY DEF Op
  <2> HIDE DEF writes
  <2>7. Assets(p, k) # {} => plan.ops # {}
    BY <2>1, <2>4
  <2> QED
    BY <1>1, <2>1, <2>2, <2>3, <2>4, <2>5, <2>6, <2>7 DEF Installing, Pending
<1> QED
  BY <1>2, <1>3

LEMMA InstalledLock ==
    ASSUME NEW l \in Lockfiles, Closed(l), NEW m, NEW writes, NEW p, NEW k,
           Installing(l, m, writes, p, k)
    PROVE  /\ Closed(m) /\ \A a \in Assets(p, k) : m.link[a] # Absent
           /\ \A a \in Catalog : m.link[a] \in Links => m.link[a] = l.link[a]
           /\ \A a \in Catalog : m.link[a] # l.link[a] =>
                  a \in Assets(p, k) /\ m.link[a] = None /\ l.link[a] = Absent
<1>1. \A a \in Catalog : m.link[a] # l.link[a] =>
          a \in Assets(p, k) /\ m.link[a] = None /\ l.link[a] = Absent
  BY DEF Installing
<1>2. \A a \in Assets(p, k) : a \in Catalog /\ m.link[a] # Absent
  BY ValuesAssumption DEF Installing, Assets
<1>3. Closed(m)
  <2> SUFFICES ASSUME NEW a \in Catalog, NEW b \in Catalog, a.package = b.package, a.key = b.key,
                      m.link[a] # Absent
               PROVE  m.link[b] # Absent
    BY DEF Closed
  <2>1. CASE a \in Assets(p, k)
    BY <1>2, <2>1 DEF Assets
  <2>2. CASE a \notin Assets(p, k)
    <3>1. l.link[a] # Absent /\ b \notin Assets(p, k)
      BY <1>1, <2>2 DEF Assets
    <3> QED
      BY <1>1, <3>1 DEF Closed
  <2> QED
    BY <2>1, <2>2
<1> QED
  BY <1>1, <1>2, <1>3, ValuesAssumption

LEMMA InstallServes ==
    ASSUME NEW l \in Lockfiles, Valid(l), Closed(l), NEW p \in Packages, NEW k \in Keys,
           Assets(p, k) # {}, NEW plan, plan = InstallPlan(l, p, k),
           NEW intent, intent = [kind |-> "install", keys |-> {k}, dir |-> None]
    PROVE  /\ Serves(plan, p, intent, plan.ops # {}, l, None)
           /\ \A a \in Catalog : plan.lock.link[a] # l.link[a] => l.link[a] \notin Links
<1>1. /\ plan.lock \in Lockfiles /\ plan.ops \in SUBSET Ops
      /\ Installing(l, plan.lock, plan.ops, p, k)
      /\ plan.ops = {} => plan.lock = l
  BY InstallPlanInstalls
<1>2. /\ Closed(plan.lock) /\ \A a \in Assets(p, k) : plan.lock.link[a] # Absent
      /\ \A a \in Catalog : plan.lock.link[a] # l.link[a] =>
             a \in Assets(p, k) /\ plan.lock.link[a] = None /\ l.link[a] = Absent
  BY <1>1, InstalledLock
<1>3. /\ intent \in Intents /\ intent.kind = "install" /\ intent.keys = {k}
      /\ intent.dir = None
  BY DEF Intents
<1>4. \A t \in plan.ops : t.do = "write" /\ t.asset \in Catalog /\ t.asset.package = p
                          /\ Meets(t, intent, l, plan.lock, None)
  BY <1>1, <1>2, <1>3 DEF Installing, Assets, Meets, FileMayBeLeft
<1>5. Edits(plan, p, l, intent.kind)
  BY <1>1, <1>2, ValuesAssumption DEF Edits, Installing, Assets
<1>6. MakesGood(plan, p, intent)
  <2>1. Damaged \notin Intents /\ \A n \in Links : n.dir # None
    BY ValuesAssumption, LinkFields
  <2> QED
    BY <1>2, <1>3, <2>1
       DEF MakesGood, FileMayBeGone, FileMayBeLeft, MayBeGone, MayBeLeft, Assets
<1> QED
  BY <1>1, <1>2, <1>3, <1>4, <1>5, <1>6, ValuesAssumption DEF Serves

\* Plan activates version k of package p in directory dir, after it is installed.
Activates(plan, l, m, writes, p, k, dir) ==
    /\ Installing(l, m, writes, p, k)
    /\ plan.lock = ActivatePlan(m, p, k, dir).lock
    /\ plan.ops = ActivatePlan(m, p, k, dir).ops \cup writes

Clears(plan, l) ==
    \A a \in Catalog : plan.lock.link[a] # l.link[a] /\ l.link[a] \in Links =>
        \E t \in plan.ops : t.do = "unlink" /\ t.asset = a /\ t.at = l.link[a]

LEMMA ActivationServes ==
    ASSUME NEW l \in Lockfiles, Distinct(l, {}), Closed(l), NEW p \in Packages,
           NEW k \in Keys, NEW dir \in Dirs, NEW m \in Lockfiles, NEW writes \in SUBSET Ops,
           NEW plan, Activates(plan, l, m, writes, p, k, dir), NEW intent \in Intents,
           intent.kind = "install" \/ (intent.kind = "activate" /\ writes = {}),
           intent.keys = {k}, intent.dir = dir
    PROVE  Serves(plan, p, intent, TRUE, l, dir) /\ Clears(plan, l)
<1> DEFINE old == {a \in ActiveAssets(m, p) : a.key # k /\ InDir(m.link[a], dir)}
           makes == {Op("link", a, None) : a \in Version(m, p, k)}
           e == Recording(m, old, None)
<1>1. /\ Closed(m) /\ \A a \in Assets(p, k) : m.link[a] # Absent
      /\ \A a \in Catalog : m.link[a] \in Links => m.link[a] = l.link[a]
      /\ \A a \in Catalog : m.link[a] # l.link[a] =>
             a \in Assets(p, k) /\ m.link[a] = None /\ l.link[a] = Absent
  BY InstalledLock DEF Activates
<1>2. \A a \in old : a \in Catalog /\ a.package = p /\ a.key # k /\ m.link[a] \in Links
                     /\ m.link[a].dir = dir
  BY ValuesAssumption DEF InDir, ActiveAssets, Recorded
<1>3. \A a \in Catalog : a.package = p /\ a.key # k /\ InDir(m.link[a], dir) => a \in old
  BY ActiveMeansLinked DEF InDir
<1>4. plan.lock = [e EXCEPT !.active[p] = k] /\ plan.ops = Unlinks(m, old) \cup makes \cup writes
  BY DEF Activates, ActivatePlan
<1>5. /\ \A t \in makes : t.do = "link" /\ t.at = None /\ t.asset \in Version(m, p, k)
      /\ \A a \in Version(m, p, k) : \E t \in makes : t.do = "link" /\ t.at = None /\ t.asset = a
  <2>1. \A a \in Version(m, p, k) : Op("link", a, None) \in makes
    OBVIOUS
  <2>2. \A t \in makes : t.do = "link" /\ t.at = None /\ t.asset \in Version(m, p, k)
    BY DEF Op
  <2>3. \A a \in Version(m, p, k) : LET t == Op("link", a, None) IN
            t.do = "link" /\ t.at = None /\ t.asset = a
    BY DEF Op
  <2> HIDE DEF makes
  <2> QED
    BY <2>1, <2>2, <2>3
<1>6. Version(m, p, k) = Assets(p, k)
  BY <1>1 DEF Version, Recorded, Assets
<1> HIDE DEF old, makes
<1>7. /\ plan.lock \in Lockfiles
      /\ \A a \in Catalog : plan.lock.link[a] = IF a \in old THEN None ELSE m.link[a]
  <2>1. e \in Lockfiles /\ \A a \in Catalog : e.link[a] = IF a \in old THEN None ELSE m.link[a]
    BY RecordingType
  <2> HIDE DEF e
  <2> QED
    BY <1>4, <2>1 DEF Lockfiles
<1> HIDE DEF e
<1>8. /\ \A t \in Unlinks(m, old) :
             /\ t.do = "unlink" /\ t.asset \in old /\ t.at = m.link[t.asset]
             /\ \A b \in Catalog : plan.lock.link[b] # t.at
      /\ \A a \in old : \E t \in Unlinks(m, old) :
             t.do = "unlink" /\ t.asset = a /\ t.at = m.link[a]
  <2>1. Distinct(m, {})
    BY <1>1 DEF Distinct
  <2>2. old \in SUBSET Catalog /\ \A a \in old : m.link[a] \in Links
    BY <1>2
  <2>3. /\ \A a \in Catalog :
               plan.lock.link[a] = m.link[a] \/ plan.lock.link[a] \in {None, Absent}
        /\ \A a \in old : plan.lock.link[a] \in {None, Absent}
    BY <1>2, <1>7
  <2> QED
    BY <2>1, <2>2, <2>3, UnlinksOf
<1>9. intent \in Intents /\ intent.keys = {k} /\ intent.dir = dir /\ intent # Damaged
  BY ValuesAssumption
<1>10. \A a \in Assets(p, k) : a \in ToName(plan.ops) /\ plan.lock.link[a] # Absent
  <2>1. \A a \in Assets(p, k) : a \in ToName(plan.ops)
    BY <1>4, <1>5, <1>6, ToNameOf
  <2>2. \A a \in Assets(p, k) : a \in Catalog /\ a \notin old
    BY <1>2 DEF Assets
  <2> QED
    BY <1>1, <1>7, <2>1, <2>2
<1>11. ASSUME NEW t \in plan.ops
       PROVE  /\ t.asset \in Catalog /\ t.asset.package = p
              /\ Meets(t, intent, l, plan.lock, dir)
              /\ t.do = "link" => t.asset \in Assets(p, k)
  <2>1. CASE t \in Unlinks(m, old)
    <3>1. t.do = "unlink" /\ t.asset \in old /\ t.at = m.link[t.asset]
      BY <1>8, <2>1
    <3>2. t.at \in Links /\ t.at = l.link[t.asset] /\ t.at.dir = dir /\ t.asset.key # k
      BY <1>1, <1>2, <3>1
    <3> QED
      BY <1>2, <1>8, <1>9, <2>1, <3>1, <3>2 DEF Meets, MayBeGone
  <2>2. CASE t \in makes
    BY <1>5, <1>6, <1>9, <2>2 DEF Meets, Assets
  <2>3. CASE t \in writes
    BY <1>9, <1>10, <2>3 DEF Activates, Installing, Assets, Meets, FileMayBeLeft
  <2> QED
    BY <1>4, <2>1, <2>2, <2>3
<1>12. \A a \in Catalog : plan.lock.link[a] # l.link[a] /\ l.link[a] \in Links =>
           \E t \in plan.ops : t.do = "unlink" /\ t.asset = a /\ t.at = l.link[a]
  <2> SUFFICES ASSUME NEW a \in Catalog, plan.lock.link[a] # l.link[a], l.link[a] \in Links
               PROVE  \E t \in plan.ops : t.do = "unlink" /\ t.asset = a /\ t.at = l.link[a]
    OBVIOUS
  <2>1. m.link[a] = l.link[a]
    BY <1>1, ValuesAssumption
  <2>2. a \in old
    BY <1>7, <2>1
  <2> QED
    BY <1>4, <1>8, <2>1, <2>2
<1>13. Edits(plan, p, l, intent.kind)
  <2> SUFFICES ASSUME NEW a \in Catalog
               PROVE  /\ \/ plan.lock.link[a] = l.link[a]
                         \/ a.package = p /\ plan.lock.link[a] \in {None, Absent}
                      /\ plan.lock.link[a] # Absent /\ l.link[a] = Absent =>
                             Pending(plan.ops, "write", a)
                      /\ ~(plan.lock.link[a] = Absent /\ l.link[a] # Absent)
    BY <1>12 DEF Edits
  <2>1. CASE a \in old
    BY <1>1, <1>2, <1>7, <2>1, ValuesAssumption
  <2>2. CASE a \notin old
    <3>1. plan.lock.link[a] = m.link[a]
      BY <1>7, <2>2
    <3>2. m.link[a] # l.link[a] => a.package = p /\ Pending(plan.ops, "write", a)
      BY <1>1, <1>4 DEF Activates, Installing, Pending, Assets
    <3> QED
      BY <1>1, <3>1, <3>2, ValuesAssumption
  <2> QED
    BY <2>1, <2>2
<1>14. Closed(plan.lock)
  <2>1. \A a \in Catalog : plan.lock.link[a] = Absent <=> m.link[a] = Absent
    BY <1>2, <1>7, ValuesAssumption
  <2> QED
    BY <1>1, <2>1 DEF Closed
<1>15. MakesGood(plan, p, intent)
  <2>1. \A a \in Catalog : a.package = p /\ a.key = k => a \in Assets(p, k)
    BY DEF Assets
  <2>2. \A a \in Catalog, n \in Links : a.package = p /\ a.key # k /\ n.dir = dir =>
            plan.lock.link[a] # n
    BY <1>3, <1>7, ValuesAssumption DEF InDir
  <2> QED
    BY <1>9, <1>10, <2>1, <2>2
       DEF MakesGood, FileMayBeGone, FileMayBeLeft, MayBeGone, MayBeLeft
<1>16. \A t \in plan.ops : t.do = "link" /\ t.at = None =>
           \A a \in Assets(t.asset.package, t.asset.key) : a \in ToName(plan.ops)
  BY <1>10, <1>11 DEF Assets
<1>17. plan.ops \in SUBSET Ops
  <2>1. Unlinks(m, old) \in SUBSET Ops
    BY <1>2, UnlinksType
  <2>2. makes \in SUBSET Ops
    BY <1>6 DEF makes, Assets, Op, Ops
  <2> QED
    BY <1>4, <2>1, <2>2
<1> QED
  BY <1>7, <1>9, <1>11, <1>12, <1>13, <1>14, <1>15, <1>16, <1>17 DEF Serves, Clears

LEMMA RepairServes ==
    ASSUME NEW l \in Lockfiles, Valid(l), Closed(l), NEW p \in Packages,
           NEW dir \in Dirs \cup {None}, Whole(l, {}, dir), ~Unrepairable(l, p, dir),
           TypeOK, NEW plan, plan = RepairPlan(l, p, dir),
           NEW intent, intent = [kind |-> "repair", keys |-> {}, dir |-> dir]
    PROVE  /\ Serves(plan, p, intent, plan.ops # {}, l, dir)
           /\ Mended(plan.lock, plan.ops, p, files, links)
           /\ plan.lock.link = l.link
<1>1. /\ plan.lock.link = l.link
      /\ \A t \in plan.ops : t.do = "link" /\ t.at \in Links /\ t.at = l.link[t.asset]
      /\ Mended(plan.lock, plan.ops, p, files, links)
  BY RepairPlanMends
<1>2. plan.lock \in Lockfiles /\ plan.ops \in SUBSET Ops
  BY RepairPlanSound DEF PlanSound
<1>3. /\ intent \in Intents /\ intent.kind = "repair" /\ intent.dir = dir
      /\ intent # Damaged
  BY ValuesAssumption DEF Intents
<1>4. plan.lock = l
  <2>1. plan.lock.active = [l.active EXCEPT ![p] = ChosenActive(l, p)]
    BY DEF RepairPlan
  <2>2. plan.lock.active = l.active
    BY <2>1, ChosenActiveOfValid DEF Lockfiles
  <2> QED
    BY <1>1, <1>2, <2>2 DEF Lockfiles
<1>5. \A t \in plan.ops : t.asset \in Catalog /\ t.asset.package = p
  <2> DEFINE kept == Version(l, p, ChosenActive(l, p))
             old == ActiveAssets(l, p) \ kept
             Expected(a) == IF l.link[a] # None THEN l.link[a] ELSE SymlinkPath(dir, a)
             wrong == {a \in kept : l.link[a] = None \/ AssetFault(l, a) = "ACTIVATION_BROKEN"}
  <2>1. plan.ops = Unlinks(l, old) \cup {Op("link", a, Expected(a)) : a \in wrong}
    BY DEF RepairPlan
  <2>2. \A a \in old \cup wrong : a \in Catalog /\ a.package = p
    BY DEF ActiveAssets, Version, Recorded
  <2> HIDE DEF old, wrong, Expected
  <2> QED
    BY <2>1, <2>2 DEF Unlinks, Op
<1>6. \A t \in plan.ops : Meets(t, intent, l, plan.lock, dir) /\ t.at # None
  BY <1>1, <1>3, ValuesAssumption DEF Meets
<1>7. Edits(plan, p, l, intent.kind)
  BY <1>1 DEF Edits
<1>8. MakesGood(plan, p, intent)
  BY <1>3 DEF MakesGood, FileMayBeGone, FileMayBeLeft, MayBeGone, MayBeLeft
<1> QED
  BY <1>1, <1>2, <1>3, <1>4, <1>5, <1>6, <1>7, <1>8 DEF Serves

\* What a package's turn comes to: the command gives up, passes over the package ...
Passes(c) ==
    /\ UNCHANGED <<disk, cut>>
    /\ \E s : /\ run' = [run EXCEPT ![c] = s] /\ s # None
              /\ s.cmd = run[c].cmd /\ s.loaded /\ s.work = run[c].work /\ s.todo = run[c].todo
              /\ s.changed = run[c].changed /\ s.touched = run[c].touched
              /\ s.left \subseteq run[c].left

\* ... or has a plan for it.
Sweeps(plan, l) ==
    \A a \in Catalog : plan.lock.link[a] # l.link[a] /\ l.link[a] \in Links =>
        \/ \E t \in plan.ops : t.do = "unlink" /\ t.asset = a /\ t.at = l.link[a]
        \/ links[l.link[a]] # a

Takes(c, p, plan, intent, change) ==
    /\ Turns(c, p) /\ Perform(c, p, plan, intent, change)
    /\ Serves(plan, p, intent, change, run[c].work, run[c].cmd.dir)
    /\ intent.kind = "repair" => Mended(plan.lock, plan.ops, p, files, links)
    /\ \/ UNCHANGED cut /\ Sweeps(plan, run[c].work)
       \/ cut' = [cut EXCEPT ![p] = Mixed]

Turn(c, p) == Refuse(c) \/ Passes(c) \/ \E plan, intent, change : Takes(c, p, plan, intent, change)

LEMMA InstallDetailTurn ==
    ASSUME IInv, Repairs, Names, NEW c \in Procs, NEW p \in Packages, NEW k \in Keys,
           Turns(c, p), InstallDetail(c, p, k), Assets(p, k) # {}
    PROVE  Turn(c, p)
<1> DEFINE r == run[c]
           installing == InstallPlan(r.work, p, k)
           activating == ActivatePlan(installing.lock, p, k, r.cmd.dir)
           both == [activating EXCEPT !.ops = @ \cup installing.ops]
           intent == [kind |-> "install", keys |-> {k}, dir |-> r.cmd.dir]
<1>1. r.work \in Lockfiles /\ Valid(r.work) /\ r.cmd.dir \in Dirs \cup {None} /\ r # None
  BY TurnsValid DEF Turns
<1>2. Distinct(r.work, {}) /\ Closed(r.work)
  BY <1>1, TurnsNamed DEF Turns, Names, RunNames
<1>3. CASE Refuse(c)
  BY <1>3 DEF Turn
<1>4. CASE r.cmd.dir = None /\ Perform(c, p, installing, intent, installing.ops # {})
           /\ UNCHANGED cut
  <2>1. /\ Serves(installing, p, intent, installing.ops # {}, r.work, None)
        /\ \A a \in Catalog :
               installing.lock.link[a] # r.work.link[a] => r.work.link[a] \notin Links
    BY <1>1, <1>2, <1>4, InstallServes
  <2>2. intent.kind # "repair"
    OBVIOUS
  <2> HIDE DEF installing, intent
  <2>3. Takes(c, p, installing, intent, installing.ops # {})
    BY <1>4, <2>1, <2>2 DEF Takes, Sweeps
  <2> QED
    BY <2>3 DEF Turn
<1>5. CASE r.cmd.dir # None /\ Perform(c, p, both, intent, TRUE) /\ UNCHANGED cut
  <2>1. /\ installing.lock \in Lockfiles /\ installing.ops \in SUBSET Ops
        /\ Installing(r.work, installing.lock, installing.ops, p, k)
    BY <1>1, <1>2, InstallPlanInstalls
  <2>2. Activates(both, r.work, installing.lock, installing.ops, p, k, r.cmd.dir)
    BY <2>1 DEF Activates, ActivatePlan
  <2>3. /\ intent.kind = "install" /\ r.cmd.dir \in Dirs /\ intent \in Intents
        /\ intent.keys = {k} /\ intent.dir = r.cmd.dir
    BY <1>1, <1>5 DEF Intents
  <2> HIDE DEF both, activating, installing, intent
  <2>4. Serves(both, p, intent, TRUE, r.work, r.cmd.dir) /\ Clears(both, r.work)
    BY <1>1, <1>2, <2>1, <2>2, <2>3, ActivationServes
  <2>5. Takes(c, p, both, intent, TRUE)
    BY <1>5, <2>3, <2>4 DEF Takes, Sweeps, Clears
  <2> QED
    BY <2>5 DEF Turn
<1> QED
  BY <1>3, <1>4, <1>5 DEF InstallDetail

LEMMA ActivateTurn ==
    ASSUME IInv, Repairs, Names, NEW c \in Procs, NEW p \in Packages, Activate(c, p)
    PROVE  Turn(c, p)
<1> DEFINE r == run[c]
           intent(k) == [kind |-> "activate", keys |-> {k}, dir |-> r.cmd.dir]
<1>1. Turns(c, p) /\ r.work \in Lockfiles /\ r.cmd.dir \in Dirs /\ r # None
  BY TurnsValid, RequestsAssumption DEF Activate, Turns
<1>2. Distinct(r.work, {}) /\ Closed(r.work)
  BY <1>1, TurnsNamed DEF Turns, Names, RunNames
<1>3. CASE Refuse(c)
  BY <1>3 DEF Turn
<1>4. CASE ~Refuse(c)
  <2>1. PICK k \in Meant(r.work, p, r.cmd.version) :
            Perform(c, p, ActivatePlan(r.work, p, k, r.cmd.dir), intent(k), TRUE) /\ UNCHANGED cut
    BY <1>4 DEF Activate
  <2>2. k \in InstalledKeys(r.work, p)
    BY DEF Meant
  <2>3. k \in Keys /\ \A a \in Assets(p, k) : r.work.link[a] # Absent
    BY <1>2, <2>2, CatalogFields DEF InstalledKeys, Recorded, Assets, Closed
  <2>4. Installing(r.work, r.work, {}, p, k)
    BY <2>3 DEF Installing
  <2> DEFINE plan == ActivatePlan(r.work, p, k, r.cmd.dir)
  <2>5. /\ intent(k) \in Intents /\ intent(k).kind = "activate" /\ intent(k).keys = {k}
        /\ intent(k).dir = r.cmd.dir
    BY <1>1, <2>3 DEF Intents
  <2> HIDE DEF intent
  <2>6. Activates(plan, r.work, r.work, {}, p, k, r.cmd.dir)
    BY <2>4 DEF Activates
  <2> HIDE DEF plan
  <2>7. Serves(plan, p, intent(k), TRUE, r.work, r.cmd.dir) /\ Clears(plan, r.work)
    BY <1>1, <1>2, <2>3, <2>5, <2>6, ActivationServes
  <2>8. Takes(c, p, plan, intent(k), TRUE)
    BY <1>1, <2>1, <2>5, <2>7 DEF Takes, Sweeps, Clears, plan
  <2> QED
    BY <2>8 DEF Turn
<1> QED
  BY <1>3, <1>4

LEMMA RemovalTurn ==
    ASSUME IInv, Repairs, Names, NEW c \in Procs, NEW p \in Packages,
           Deactivate(c, p) \/ Uninstall(c, p)
    PROVE  Turn(c, p)
<1> DEFINE r == run[c]
<1>1. /\ Turns(c, p) /\ r.work \in Lockfiles /\ Valid(r.work) /\ r # None
      /\ r.cmd.dir \in Dirs \cup {None}
  BY TurnsValid DEF Deactivate, Uninstall, Turns
<1>2. Distinct(r.work, {}) /\ Closed(r.work)
  BY <1>1, TurnsNamed DEF Turns, Names, RunNames
<1>3. CASE Refuse(c)
  BY <1>3 DEF Turn
<1>4. CASE Deactivate(c, p)
  <2> DEFINE plan == DeactivatePlan(r.work, p, r.cmd.dir)
             intent == [kind |-> "deactivate", keys |-> {}, dir |-> r.cmd.dir]
  <2>1. Perform(c, p, plan, intent, plan.ops # {}) /\ UNCHANGED cut
    BY <1>4 DEF Deactivate
  <2>2. intent.kind = "deactivate"
    OBVIOUS
  <2> HIDE DEF plan, intent
  <2>3. Serves(plan, p, intent, plan.ops # {}, r.work, r.cmd.dir)
    BY <1>1, <1>2, DeactivateServes DEF plan, intent
  <2>4. Sweeps(plan, r.work)
    BY <2>2, <2>3 DEF Sweeps, Serves, Edits
  <2>5. Takes(c, p, plan, intent, plan.ops # {})
    BY <1>1, <2>1, <2>2, <2>3, <2>4 DEF Takes
  <2> QED
    BY <2>5 DEF Turn
<1>5. CASE Uninstall(c, p) /\ ~Refuse(c)
  <2> DEFINE plan(keys) == UninstallPlan(r.work, p, keys, r.cmd.dir)
             intent(keys) == [kind |-> "uninstall", keys |-> keys, dir |-> r.cmd.dir]
  <2>1. InstalledKeys(r.work, p) \subseteq Keys
    BY CatalogFields DEF InstalledKeys, Recorded
  <2>2. \A keys : \/ keys = InstalledKeys(r.work, p)
                  \/ \E k \in Meant(r.work, p, r.cmd.version) : keys = {k}
                  \/ \E k \in InstalledKeys(r.work, p) : keys = {k}
                  => keys \in SUBSET Keys
    BY <2>1 DEF Meant
  <2>3. PICK keys \in SUBSET Keys :
            /\ Perform(c, p, plan(keys), intent(keys), TRUE)
            /\ IF Strays(r.work, p, keys, r.cmd.dir) = {} THEN UNCHANGED cut
               ELSE cut' = [cut EXCEPT ![p] = Mixed]
    BY <1>5, <2>2 DEF Uninstall
  <2>4. intent(keys).kind # "repair"
    OBVIOUS
  <2>5. /\ Serves(plan(keys), p, intent(keys), TRUE, r.work, r.cmd.dir)
        /\ \A a \in Catalog :
               plan(keys).lock.link[a] # r.work.link[a] /\ r.work.link[a] \in Links =>
                   \/ \E t \in plan(keys).ops :
                          t.do = "unlink" /\ t.asset = a /\ t.at = r.work.link[a]
                   \/ links[r.work.link[a]] # a
                   \/ Strays(r.work, p, keys, r.cmd.dir) # {}
    BY <1>1, <1>2, UninstallServes, ZenonT(60)
  <2> HIDE DEF plan, intent
  <2>6. Takes(c, p, plan(keys), intent(keys), TRUE)
    BY <1>1, <2>3, <2>4, <2>5 DEF Takes, Sweeps
  <2> QED
    BY <2>6 DEF Turn
<1> QED
  BY <1>3, <1>4, <1>5

LEMMA RepairTurn ==
    ASSUME IInv, Wholes, Names, NEW c \in Procs, NEW p \in Packages, Repair(c, p)
    PROVE  Turn(c, p)
<1> DEFINE r == run[c]
           plan == RepairPlan(r.work, p, r.cmd.dir)
           intent == [kind |-> "repair", keys |-> {}, dir |-> r.cmd.dir]
           s == [r EXCEPT !.left = @ \ {p}, !.broken = @ \cup {p}]
<1>1. /\ Turns(c, p) /\ r # None /\ r \in Runs /\ r.loaded /\ r.work \in Lockfiles
      /\ Valid(r.work) /\ Whole(r.work, {}, r.cmd.dir) /\ r.cmd.dir \in Dirs \cup {None}
  BY TurnsValid, TurnsWhole DEF Repair, Turns
<1>2. Closed(r.work)
  BY <1>1 DEF Names, RunNames
<1>3. CASE Unrepairable(r.work, p, r.cmd.dir)
  <2>1. run' = [run EXCEPT ![c] = s] /\ UNCHANGED <<disk, cut>>
    BY <1>1, <1>3 DEF Repair, IInv, TypeOK
  <2>2. /\ s.cmd = r.cmd /\ s.loaded /\ s.work = r.work /\ s.todo = r.todo
        /\ s.changed = r.changed /\ s.touched = r.touched /\ s.left \subseteq r.left
        /\ s \in Runs
    BY <1>1 DEF Runs
  <2>3. s # None
    BY <2>2, ValuesAssumption
  <2> HIDE DEF s
  <2> QED
    BY <2>1, <2>2, <2>3 DEF Turn, Passes
<1>4. CASE ~Unrepairable(r.work, p, r.cmd.dir)
  <2>1. Perform(c, p, plan, intent, plan.ops # {}) /\ UNCHANGED cut
    BY <1>4 DEF Repair
  <2> HIDE DEF plan, intent
  <2>2. /\ Serves(plan, p, intent, plan.ops # {}, r.work, r.cmd.dir)
        /\ Mended(plan.lock, plan.ops, p, files, links) /\ plan.lock.link = r.work.link
    BY <1>1, <1>2, <1>4, RepairServes DEF plan, intent, IInv
  <2>3. Takes(c, p, plan, intent, plan.ops # {})
    BY <1>1, <2>1, <2>2 DEF Takes, Sweeps
  <2> QED
    BY <2>3 DEF Turn
<1> QED
  BY <1>3, <1>4

LEMMA PackageTurn ==
    ASSUME IInv, Wholes, Repairs, Names, NEW c \in Procs, NEW p \in Packages,
           \/ Install(c, p) \/ UpdateNothing(c, p) \/ Update(c, p) \/ Activate(c, p)
           \/ Deactivate(c, p) \/ Uninstall(c, p) \/ Repair(c, p)
    PROVE  Turn(c, p) /\ run[c] # None /\ run[c].loaded /\ run[c].todo = {}
<1> DEFINE r == run[c]
<1>1. r # None /\ r \in Runs /\ r.todo = {} /\ r.loaded
  BY RunOf
     DEF Turns, Install, UpdateNothing, Update, Activate, Deactivate, Uninstall, Repair
<1>2. CASE Install(c, p)
  <2>1. r.cmd.version \in Keys
    BY <1>2, CatalogFields DEF Install, Assets
  <2> QED
    BY <1>1, <1>2, <2>1, InstallDetailTurn DEF Install
<1>3. CASE Update(c, p)
  <2>1. PICK k \in {a.key : a \in {b \in Catalog : b.package = p}} : InstallDetail(c, p, k)
    BY <1>3 DEF Update
  <2>2. k \in Keys /\ Assets(p, k) # {}
    BY DEF Keys, Assets
  <2> QED
    BY <1>1, <1>3, <2>1, <2>2, InstallDetailTurn DEF Update
<1>4. CASE UpdateNothing(c, p)
  <2> DEFINE s == [r EXCEPT !.left = @ \ {p}]
  <2>1. run' = [run EXCEPT ![c] = s] /\ UNCHANGED <<disk, cut>>
    BY <1>4 DEF UpdateNothing
  <2>2. /\ s.cmd = r.cmd /\ s.loaded /\ s.work = r.work /\ s.todo = r.todo
        /\ s.changed = r.changed /\ s.touched = r.touched /\ s.left \subseteq r.left
        /\ s \in Runs
    BY <1>1 DEF Runs
  <2>3. s # None
    BY <2>2, ValuesAssumption
  <2> HIDE DEF s
  <2> QED
    BY <1>1, <2>1, <2>2, <2>3 DEF Turn, Passes
<1> QED
  BY <1>1, <1>2, <1>3, <1>4, ActivateTurn, RemovalTurn, RepairTurn

-----------------------------------------------------------------------------
(* Names stays true, continued *)

LEMMA PackageNames ==
    ASSUME OneProcess, IInv, Wholes, Repairs, Names, NEW c \in Procs, NEW p \in Packages,
           \/ Install(c, p) \/ UpdateNothing(c, p) \/ Update(c, p) \/ Activate(c, p)
           \/ Deactivate(c, p) \/ Uninstall(c, p) \/ Repair(c, p)
    PROVE  Names'
<1>1. Turn(c, p) /\ run[c] # None /\ run[c].todo = {}
  BY PackageTurn
<1>2. CASE Refuse(c)
  BY <1>2, AbandonNames DEF Refuse, disk
<1>3. CASE Passes(c)
  <2>1. PICK s : run' = [run EXCEPT ![c] = s] /\ s.work = run[c].work /\ s.todo = {}
    BY <1>1, <1>3 DEF Passes
  <2>2. RunNames(s, links')
    BY <1>1, <2>1 DEF Names, RunNames, Taken
  <2> QED
    BY <1>3, <2>1, <2>2, RunNamesStep DEF Passes, disk, Names
<1>4. ASSUME NEW plan, NEW intent, NEW change, Takes(c, p, plan, intent, change)
      PROVE  Names'
  <2>1. /\ \A a \in Catalog :
               plan.lock.link[a] = run[c].work.link[a] \/ plan.lock.link[a] \in {None, Absent}
        /\ Closed(plan.lock)
        /\ \A t \in plan.ops : t.do = "link" /\ t.at = None =>
               \A a \in Assets(t.asset.package, t.asset.key) : a \in ToName(plan.ops)
    BY <1>4 DEF Takes, Serves, Edits
  <2>2. Turns(c, p) /\ Perform(c, p, plan, intent, change)
    BY <1>4 DEF Takes
  <2> QED
    BY <2>1, <2>2, PerformNames
<1> QED
  BY <1>1, <1>2, <1>3, <1>4 DEF Turn

\* What making a symlink comes to.
Makes(c, t, name, s) ==
    /\ run[c] # None /\ t \in run[c].todo /\ t.do = "link" /\ t.asset \in Catalog
    /\ t \in Ready(c, "link")
    /\ t.at = None => run[c].cmd.dir \in Dirs
    /\ name \in Links
    /\ name = IF t.at # None THEN t.at ELSE SymlinkPath(run[c].cmd.dir, t.asset)
    /\ links' = [links EXCEPT ![name] = t.asset]
    /\ run' = [run EXCEPT ![c] = s] /\ s # None
    /\ s.cmd = run[c].cmd /\ s.loaded = run[c].loaded /\ s.left = run[c].left
    /\ s.changed = run[c].changed /\ s.touched = run[c].touched
    /\ s.todo = run[c].todo \ {t} /\ s.work \in Lockfiles
    /\ \A a \in Catalog :
           s.work.link[a] = IF a = t.asset THEN name ELSE run[c].work.link[a]
    /\ cut' = IF Outdated(run[c].work, t.asset, name)
              THEN [cut EXCEPT ![t.asset.package] = Mixed] ELSE cut

LEMMA LinkFacts ==
    ASSUME IInv, NEW c \in Procs, Link(c)
    PROVE  \E t, name, s : Makes(c, t, name, s)
<1>1. PICK t \in Ready(c, "link") :
        LET name == IF t.at # None THEN t.at ELSE SymlinkPath(run[c].cmd.dir, t.asset) IN
        /\ links' = [links EXCEPT ![name] = t.asset]
        /\ run' = [run EXCEPT ![c].todo = @ \ {t}, ![c].work.link[t.asset] = name]
        /\ IF Outdated(run[c].work, t.asset, name)
           THEN cut' = [cut EXCEPT ![t.asset.package] = Mixed]
           ELSE UNCHANGED cut
  BY DEF Link
<1> DEFINE r == run[c]
           dir == r.cmd.dir
           l == r.work
           name == IF t.at # None THEN t.at ELSE SymlinkPath(dir, t.asset)
           m == [l EXCEPT !.link = [l.link EXCEPT ![t.asset] = name]]
           s == [r EXCEPT !.todo = @ \ {t}, !.work = m]
<1>2. r # None /\ t \in r.todo /\ t.do = "link"
  BY DEF Ready
<1>3. r \in Runs /\ RunSound(r) /\ l \in Lockfiles /\ t \in Ops
  BY <1>2 DEF IInv, TypeOK, Runs
<1>4. t.asset \in Catalog /\ name \in Links /\ (t.at = None => dir \in Dirs)
  <2>1. t.asset \in Catalog /\ t.at \in Links \cup {None}
    BY <1>3 DEF Ops
  <2>2. t.at = None => dir \in Dirs
    BY <1>2, <1>3 DEF RunSound, Sound
  <2> QED
    BY <2>1, <2>2, SymlinkPathType
<1>5. /\ run' = [run EXCEPT ![c] = s] /\ links' = [links EXCEPT ![name] = t.asset]
      /\ cut' = IF Outdated(r.work, t.asset, name)
                THEN [cut EXCEPT ![t.asset.package] = Mixed] ELSE cut
  BY <1>1, <1>3 DEF IInv, TypeOK, Runs, Lockfiles
<1>6. name = IF t.at # None THEN t.at ELSE SymlinkPath(dir, t.asset)
  OBVIOUS
<1> HIDE DEF name
<1>7. m \in Lockfiles /\ m.link = [l.link EXCEPT ![t.asset] = name]
  BY <1>3, <1>4 DEF Lockfiles
<1>8. \A a \in Catalog : m.link[a] = IF a = t.asset THEN name ELSE l.link[a]
  BY <1>3, <1>7 DEF Lockfiles
<1> HIDE DEF m
<1>9. /\ s \in Runs /\ s.cmd = r.cmd /\ s.loaded = r.loaded /\ s.work = m
      /\ s.todo = r.todo \ {t} /\ s.left = r.left /\ s.changed = r.changed
      /\ s.touched = r.touched
  BY <1>3, <1>7 DEF Runs
<1>10. s # None
  BY <1>9, ValuesAssumption
<1> HIDE DEF s
<1>11. Makes(c, t, name, s)
  BY <1>1, <1>2, <1>4, <1>5, <1>6, <1>7, <1>8, <1>9, <1>10 DEF Makes
<1> QED
  BY <1>11

\* When an activation makes a symlink, all that comes before it is done.
LEMMA ReadyLink ==
    ASSUME IInv, NEW c \in Procs, run[c] # None, Named(run[c], links),
           NEW t \in Ready(c, "link"), t.at = None
    PROVE  /\ \A u \in run[c].todo : u.do # "unlink"
           /\ \A u \in run[c].todo : u.do = "write" => u.asset.key # t.asset.key
           /\ \A u \in run[c].todo : u.do = "link" /\ u.asset.key = t.asset.key =>
                  ~(u.asset.path < t.asset.path)
<1>1. /\ t \in run[c].todo /\ t.do = "link" /\ \A u \in run[c].todo : ~Before(run[c].cmd.kind, u, t)
      /\ run[c].cmd.kind \in {"install", "update", "activate"}
  BY DEF Ready, Named
<1>2. ASSUME NEW u \in run[c].todo, u.do = "unlink" PROVE FALSE
  <2>1. Phase[u.do] < Phase[t.do]
    BY <1>1, <1>2 DEF Phase
  <2> QED
    BY <1>1, <2>1 DEF Before
<1>3. ASSUME NEW u \in run[c].todo, u.do = "write", u.asset.key = t.asset.key PROVE FALSE
  <2>1. Phase[u.do] < Phase[t.do]
    BY <1>1, <1>3 DEF Phase
  <2> QED
    BY <1>1, <1>3, <2>1 DEF Before
<1>4. ASSUME NEW u \in run[c].todo, u.do = "link", u.asset.key = t.asset.key,
             u.asset.path < t.asset.path
      PROVE  FALSE
  BY <1>1, <1>4 DEF Before
<1> QED
  BY <1>2, <1>3, <1>4

\* The name that an activation finds for a symlink fits: the assets before this one, whose
\* plain name is the same, have made it theirs.
LEMMA NewNameFits ==
    ASSUME BytesTellApart, IInv, Names, NEW c \in Procs, run[c] # None, Named(run[c], links),
           NEW t \in Ready(c, "link"), t.at = None, t.asset \in Catalog, NEW dir \in Dirs,
           dir = run[c].cmd.dir, NEW name, name = SymlinkPath(dir, t.asset)
    PROVE  Fits(name, t.asset)
<1> DEFINE x == t.asset
<1>1. t \in run[c].todo /\ t.do = "link" /\ Taken(run[c], links)
  BY DEF Ready, Names, RunNames
<1>2. /\ name \in Links /\ name.dir = dir /\ name.package = x.package /\ name.base = x.base
      /\ \/ links[Plain(dir, x)] \in {None, x} /\ name = Plain(dir, x)
         \/ links[Plain(dir, x)] \notin {None, x} /\ name.sha = x.sha
  BY SymlinkPathNames
<1>3. ASSUME links[Plain(dir, x)] \in {None, x}
      PROVE  First(x)
  <2> SUFFICES ASSUME NEW b \in Catalog, Alike(x, b), ~(x.path <= b.path), ~First(x)
               PROVE  FALSE
    BY DEF First
  <2>1. b.path < x.path
    BY CatalogAssumption
  <2>2. b \notin ToName(run[c].todo)
    <3>1. \A u \in run[c].todo : u.do = "link" /\ u.asset.key = x.key => ~(u.asset.path < x.path)
      BY ReadyLink
    <3> QED
      BY <2>1, <3>1, ToNameOf DEF Alike
  <2>3. b \in Assets(x.package, x.key) /\ Plain(dir, b) = Plain(dir, x)
    BY DEF Alike, Assets, Plain
  <2>4. links[Plain(dir, x)] # None
    BY <1>1, <2>2, <2>3 DEF Taken
  <2>5. Fits(Plain(dir, x), x)
    BY <1>3, <2>4, PlainType DEF Names
  <2> QED
    BY <2>5, PlainType DEF Fits
<1>4. name.sha \in {None, x.sha} /\ x.sha # None
  BY <1>2, PlainType DEF BytesTellApart
<1>5. CASE links[Plain(dir, x)] \in {None, x}
  BY <1>2, <1>3, <1>4, <1>5 DEF Fits
<1>6. CASE links[Plain(dir, x)] \notin {None, x}
  BY <1>2, <1>4, <1>6 DEF Fits
<1> QED
  BY <1>5, <1>6

LEMMA LinkNames ==
    ASSUME OneProcess, BytesTellApart, IInv, Repairs, Names, NEW c \in Procs, Link(c)
    PROVE  Names'
<1>1. PICK t, name, s : Makes(c, t, name, s)
  BY LinkFacts
<1> DEFINE r == run[c]
           x == t.asset
           rest == r.todo \ {t}
<1>2. /\ r # None /\ t \in r.todo /\ t.do = "link" /\ x \in Catalog /\ name \in Links
      /\ t \in Ready(c, "link") /\ (t.at = None => r.cmd.dir \in Dirs)
      /\ name = IF t.at # None THEN t.at ELSE SymlinkPath(r.cmd.dir, x)
      /\ run' = [run EXCEPT ![c] = s] /\ s.cmd = r.cmd /\ s.todo = rest
      /\ \A a \in Catalog : s.work.link[a] = IF a = x THEN name ELSE r.work.link[a]
  BY <1>1 DEF Makes
<1>3. links'[name] = x /\ \A n \in Links : n # name => links'[n] = links[n]
  BY <1>1, <1>2 DEF Makes, IInv, TypeOK
<1>4. /\ Named(r, links) /\ Mending(r, files, links) /\ RunNames(r, links)
      /\ RunSound(r) /\ r.loaded
  BY <1>2, RunOf DEF Repairs, Names, RunSound
<1>5. Fits(name, x)
  <2>1. CASE t.at = None
    BY <1>2, <1>4, <2>1, NewNameFits
  <2>2. CASE t.at # None
    <3>1. name = r.work.link[x]
      BY <1>2, <1>4, <2>2 DEF Named, Mending
    <3> QED
      BY <1>2, <1>4, <3>1 DEF RunNames, Fitting
  <2> QED
    BY <2>1, <2>2
<1>6. \A n \in Links : links'[n] \in Catalog => Fits(n, links'[n])
  BY <1>3, <1>5 DEF Names
<1>7. Fitting(s.work)
  BY <1>2, <1>4, <1>5 DEF RunNames, Fitting
<1>8. Closed(s.work)
  <2>1. r.work.link[x] # Absent /\ name # Absent
    BY <1>2, <1>4, ValuesAssumption DEF RunSound, Sound
  <2>2. \A a \in Catalog : s.work.link[a] = Absent <=> r.work.link[a] = Absent
    BY <1>2, <2>1
  <2> QED
    BY <1>4, <2>2 DEF RunNames, Closed
<1>9. CASE t.at = None
  <2>1. \A u \in r.todo : u.do # "unlink"
    BY <1>2, <1>4, <1>9, ReadyLink
  <2>2. links'[Plain(r.cmd.dir, x)] # None
    <3>1. \/ links[Plain(r.cmd.dir, x)] \in {None, x} /\ name = Plain(r.cmd.dir, x)
          \/ links[Plain(r.cmd.dir, x)] \notin {None, x}
      BY <1>2, <1>9, SymlinkPathNames
    <3>2. x # None /\ Plain(r.cmd.dir, x) \in Links
      BY <1>2, <1>9, ValuesAssumption, PlainType
    <3> QED
      BY <1>3, <3>1, <3>2
  <2>3. \A a : a \in ToName(r.todo) => a = x \/ a \in ToName(rest)
    BY DEF ToName
  <2>4. \A a \in Catalog : links[Plain(r.cmd.dir, a)] # None => links'[Plain(r.cmd.dir, a)] # None
    BY <1>2, <1>3, <1>9, ValuesAssumption, PlainType
  <2> HIDE DEF rest
  <2>5. ASSUME NEW u \in s.todo, u.do = "link", u.at = None,
               NEW a \in Assets(u.asset.package, u.asset.key)
        PROVE  a \in ToName(s.todo) \/ links'[Plain(s.cmd.dir, a)] # None
    <3>1. u \in r.todo /\ a \in Catalog
      BY <1>2 DEF rest, Assets
    <3>2. a \in ToName(r.todo) \/ links[Plain(r.cmd.dir, a)] # None
      BY <1>4, <2>5, <3>1 DEF RunNames, Taken
    <3> QED
      BY <1>2, <2>2, <2>3, <2>4, <3>1, <3>2
  <2>6. \A u \in s.todo : u.do # "unlink"
    BY <1>2, <2>1 DEF rest
  <2>7. Taken(s, links')
    BY <2>5, <2>6 DEF Taken
  <2>8. RunNames(s, links')
    BY <1>7, <1>8, <2>7 DEF RunNames
  <2> QED
    BY <1>2, <1>6, <2>8, RunNamesStep DEF Link
<1>10. CASE t.at # None
  <2>1. \A u \in r.todo : u.do # "link" \/ u.at # None
    BY <1>2, <1>4, <1>10 DEF Named
  <2>2. Taken(s, links')
    BY <1>2, <2>1, NoneTaken
  <2>3. RunNames(s, links')
    BY <1>7, <1>8, <2>2 DEF RunNames
  <2> QED
    BY <1>2, <1>6, <2>3, RunNamesStep DEF Link
<1> QED
  BY <1>9, <1>10

\* What another operation comes to.
Does(c, t, s) ==
    /\ run[c] # None /\ t \in run[c].todo /\ t.do # "link" /\ t.asset \in Catalog
    /\ t \in Ready(c, t.do)
    /\ run' = [run EXCEPT ![c] = s] /\ s # None
    /\ s.cmd = run[c].cmd /\ s.loaded = run[c].loaded /\ s.left = run[c].left
    /\ s.changed = run[c].changed /\ s.touched = run[c].touched /\ s.work = run[c].work
    /\ s.todo = run[c].todo \ {t}
    /\ lockfile' = lockfile /\ cut' = cut
    /\ \/ t.do = "write" /\ files' = [files EXCEPT ![t.asset] = "good"] /\ links' = links
       \/ t.do = "delete" /\ files' = [files EXCEPT ![t.asset] = "missing"] /\ links' = links
       \/ t.do = "unlink" /\ files' = files /\ links' = [links EXCEPT ![t.at] = None]

LEMMA OperationFacts ==
    ASSUME IInv, NEW c \in Procs, WriteAsset(c) \/ Unlink(c) \/ DeleteAsset(c)
    PROVE  \E t, s : Does(c, t, s)
<1>1. PICK t \in run[c].todo :
          /\ Done(c, t) /\ t \in Ready(c, t.do) /\ run[c] # None
          /\ \/ t.do = "write" /\ files' = [files EXCEPT ![t.asset] = "good"] /\ links' = links
             \/ t.do = "delete" /\ files' = [files EXCEPT ![t.asset] = "missing"] /\ links' = links
             \/ t.do = "unlink" /\ files' = files /\ links' = [links EXCEPT ![t.at] = None]
  BY DEF WriteAsset, Unlink, DeleteAsset, Ready
<1> DEFINE s == [run[c] EXCEPT !.todo = @ \ {t}]
<1>2. run[c] \in Runs /\ run[c].todo \in SUBSET Ops
  BY <1>1, RunOf
<1>3. /\ run' = [run EXCEPT ![c] = s] /\ t.asset \in Catalog
      /\ lockfile' = lockfile /\ cut' = cut
  BY <1>1, <1>2 DEF Done, IInv, TypeOK, Ops, WriteAsset, Unlink, DeleteAsset
<1>4. /\ s \in Runs
      /\ s.cmd = run[c].cmd /\ s.loaded = run[c].loaded /\ s.left = run[c].left
      /\ s.changed = run[c].changed /\ s.touched = run[c].touched /\ s.work = run[c].work
      /\ s.todo = run[c].todo \ {t}
  BY <1>2 DEF Runs
<1>5. s # None
  BY <1>4, ValuesAssumption
<1> HIDE DEF s
<1>6. Does(c, t, s)
  BY <1>1, <1>3, <1>4, <1>5 DEF Does
<1> QED
  BY <1>6

LEMMA OperationNames ==
    ASSUME OneProcess, IInv, Names, NEW c \in Procs, WriteAsset(c) \/ Unlink(c) \/ DeleteAsset(c)
    PROVE  Names'
<1>1. PICK t, s : Does(c, t, s)
  BY OperationFacts
<1>2. RunNames(run[c], links) /\ s.todo = run[c].todo \ {t} /\ s.work = run[c].work
      /\ s.cmd = run[c].cmd /\ t \in run[c].todo /\ t.do # "link"
  BY <1>1 DEF Does, Names
<1>3. ToName(s.todo) = ToName(run[c].todo)
  BY <1>2 DEF ToName
<1>4. links' = links \/ t.do = "unlink"
  BY <1>1 DEF Does
<1>5. Taken(s, links')
  BY <1>2, <1>3, <1>4 DEF RunNames, Taken
<1>6. \A n \in Links : links'[n] = links[n] \/ links'[n] = None
  BY <1>1 DEF Does, IInv, TypeOK
<1> QED
  BY <1>1, <1>2, <1>5, <1>6, RunNamesStep, ValuesAssumption DEF Does, RunNames, Names

LEMMA NextNames ==
    ASSUME OneProcess, BytesTellApart, IInv, Wholes, Repairs, Names, [Next]_vars
    PROVE  Names'
<1>1. ASSUME NEW c \in Procs, NEW x \in Requests, Start(c, x) PROVE Names'
  BY <1>1, StartLoadNames
<1>2. ASSUME NEW c \in Procs, Load(c) PROVE Names'
  BY <1>2, StartLoadNames
<1>3. ASSUME NEW c \in Procs, NEW p \in Packages,
             \/ Install(c, p) \/ UpdateNothing(c, p) \/ Update(c, p) \/ Activate(c, p)
             \/ Deactivate(c, p) \/ Uninstall(c, p) \/ Repair(c, p)
      PROVE  Names'
  BY <1>3, PackageNames
<1>4. ASSUME NEW c \in Procs, WriteAsset(c) \/ Unlink(c) \/ DeleteAsset(c) PROVE Names'
  BY <1>4, OperationNames
<1>5. ASSUME NEW c \in Procs, Link(c) PROVE Names'
  BY <1>5, LinkNames
<1>6. ASSUME NEW c \in Procs, Finish(c) PROVE Names'
  <2>1. CASE Abandon(c) /\ UNCHANGED lockfile
    BY <1>6, <2>1, AbandonNames DEF Finish
  <2>2. CASE /\ lockfile' = IF run[c].changed THEN run[c].work ELSE lockfile
             /\ run' = [run EXCEPT ![c] = None]
    <3>1. Fitting(lockfile') /\ Closed(lockfile')
      BY <1>6, <2>2 DEF Finish, Finished, Names, RunNames
    <3>2. \A d \in Procs : run'[d] = None
      BY <2>2 DEF OneProcess, IInv, TypeOK
    <3> QED
      BY <1>6, <3>1, <3>2 DEF Finish, Names
  <2> QED
    BY <1>6, <2>1, <2>2 DEF Finish
<1>7. ASSUME NEW c \in Procs, Interrupt(c) PROVE Names'
  BY <1>7, AbandonNames DEF Interrupt
<1>8. ASSUME \/ \E p \in Packages : Damage(p) \/ Obstruct(p)
             \/ \E k \in Links : Occupy(k)
      PROVE  Names'
  <2>1. /\ Quiet /\ run' = run /\ lockfile' = lockfile
        /\ \A n \in Links : links'[n] = links[n] \/ links'[n] \in {None, Foreign}
    BY <1>8 DEF Damage, Obstruct, Occupy, IInv, TypeOK
  <2> QED
    BY <2>1, ValuesAssumption DEF Quiet, Names
<1>9. CASE UNCHANGED vars
  BY <1>9 DEF vars, disk, Names
<1> QED
  BY <1>1, <1>2, <1>3, <1>4, <1>5, <1>6, <1>7, <1>8, <1>9 DEF Next

-----------------------------------------------------------------------------
(* Books stays true *)

LEMMA RunBooksStep ==
    ASSUME OneProcess, IInv, Books, NEW c \in Procs, NEW r,
           run' = [run EXCEPT ![c] = r], lockfile' = lockfile,
           r # None => RunBooks(r, lockfile)
    PROVE  Books'
<1>1. \A d \in Procs : run'[d] # None => RunBooks(run'[d], lockfile')
  BY DEF OneProcess, IInv, TypeOK
<1> QED
  BY <1>1 DEF Books

LEMMA AbandonBooks ==
    ASSUME OneProcess, IInv, Books, NEW c \in Procs, Abandon(c), lockfile' = lockfile
    PROVE  Books'
<1>1. run' = [run EXCEPT ![c] = None]
  BY DEF Abandon
<1> QED
  BY <1>1, RunBooksStep

\* What a command has in hand when it has begun with a package.
Begins(c, p, plan, intent, change, s) ==
    /\ run' = [run EXCEPT ![c] = s] /\ s # None /\ UNCHANGED disk
    /\ s.cmd = run[c].cmd /\ s.loaded /\ s.work = plan.lock /\ s.todo = plan.ops
    /\ s.left = run[c].left \ {p} /\ (s.changed <=> run[c].changed \/ change)
    /\ s.touched = [run[c].touched EXCEPT ![p] = intent]

LEMMA TakesBegins ==
    ASSUME IInv, Books, NEW c \in Procs, NEW p \in Packages, NEW plan, NEW intent, NEW change,
           Takes(c, p, plan, intent, change)
    PROVE  /\ \E s : Begins(c, p, plan, intent, change, s)
           /\ run[c] # None /\ run[c].loaded /\ run[c].todo = {} /\ p \in run[c].left
           /\ run[c].touched[p] = None /\ intent # None /\ intent \in Intents
           /\ \A a \in Catalog : a.package = p => run[c].work.link[a] = lockfile.link[a]
<1> DEFINE r == run[c]
           s == [r EXCEPT !.work = plan.lock, !.left = @ \ {p}, !.todo = plan.ops,
                          !.changed = @ \/ change, !.touched[p] = intent]
<1>1. /\ Turns(c, p) /\ Perform(c, p, plan, intent, change)
      /\ intent \in Intents /\ intent # None /\ change \in BOOLEAN
  BY ValuesAssumption DEF Takes, Serves
<1>2. r # None /\ r \in Runs /\ r.loaded /\ r.todo = {} /\ p \in r.left /\ RunBooks(r, lockfile)
  BY <1>1, RunOf DEF Turns, Books
<1>3. run' = [run EXCEPT ![c] = s] /\ UNCHANGED disk
  BY <1>1 DEF Perform
<1>4. /\ s.cmd = r.cmd /\ s.loaded = r.loaded /\ s.work = plan.lock /\ s.todo = plan.ops
      /\ s.left = r.left \ {p} /\ s.changed = (r.changed \/ change)
      /\ s.touched = [r.touched EXCEPT ![p] = intent]
  BY <1>2 DEF Runs
<1>5. s # None
  <2>1. s \in Runs
    BY <1>1, <1>2, RunOf, ZenonT(60) DEF Runs, Takes, Serves
  <2> QED
    BY <2>1, ValuesAssumption
<1> HIDE DEF s
<1>6. Begins(c, p, plan, intent, change, s)
  BY <1>2, <1>3, <1>4, <1>5 DEF Begins
<1> QED
  BY <1>1, <1>2, <1>6 DEF RunBooks, Untouched

LEMMA StartLoadBooks ==
    ASSUME OneProcess, IInv, Books, NEW c \in Procs, Load(c) \/ \E x \in Requests : Start(c, x)
    PROVE  Books'
<1>1. ASSUME NEW x \in Requests, Start(c, x) PROVE Books'
  <2> DEFINE r == [cmd |-> x, loaded |-> FALSE, work |-> EmptyLockfile, left |-> {},
                   todo |-> {}, changed |-> FALSE, broken |-> {},
                   touched |-> [q \in Packages |-> None]]
  <2>1. run' = [run EXCEPT ![c] = r] /\ lockfile' = lockfile
    BY <1>1 DEF Start, disk
  <2>2. RunBooks(r, lockfile)
    BY DEF RunBooks
  <2> HIDE DEF r
  <2> QED
    BY <2>1, <2>2, RunBooksStep
<1>2. CASE Load(c)
  <2> DEFINE r == run[c]
             known == {p \in Scope(r.cmd) : Recorded(lockfile, p) # {}}
             left == IF r.cmd.kind = "install" THEN Scope(r.cmd) ELSE known
             s == [r EXCEPT !.loaded = TRUE, !.work = lockfile, !.left = left]
  <2>1. r # None /\ r \in Runs /\ ~r.loaded /\ r.todo = {} /\ lockfile' = lockfile
    BY <1>2, RunOf DEF Load, RunSound, disk
  <2>2. CASE Abandon(c)
    BY <2>1, <2>2, AbandonBooks
  <2>3. CASE run' = [run EXCEPT ![c] = s]
    <3>1. s.loaded /\ s.work = lockfile /\ s.todo = {} /\ s.touched = r.touched /\ s.left = left
      BY <2>1 DEF Runs
    <3>2. left \subseteq Packages
      BY <2>1, CatalogFields DEF Runs, Commands, Scope
    <3>3. \A p \in Packages : r.touched[p] = None
      BY <2>1 DEF Books, RunBooks
    <3> HIDE DEF s, left
    <3>4. RunBooks(s, lockfile)
      BY <3>1, <3>2, <3>3 DEF RunBooks
    <3> QED
      BY <2>1, <2>3, <3>4, RunBooksStep
  <2> QED
    BY <1>2, <2>2, <2>3 DEF Load
<1> QED
  BY <1>1, <1>2

LEMMA TakesBooks ==
    ASSUME OneProcess, IInv, Books, NEW c \in Procs, NEW p \in Packages, NEW plan, NEW intent,
           NEW change, Takes(c, p, plan, intent, change)
    PROVE  Books'
<1>1. PICK s : Begins(c, p, plan, intent, change, s)
  BY TakesBegins
<1> DEFINE r == run[c]
<1>2. /\ r # None /\ r.loaded /\ r.todo = {} /\ p \in r.left /\ intent # None
      /\ r.touched \in [Packages -> Intents \cup {None}]
      /\ \A a \in Catalog : a.package = p => r.work.link[a] = lockfile.link[a]
      /\ RunBooks(r, lockfile)
  BY TakesBegins, RunOf DEF Books
<1>3. /\ run' = [run EXCEPT ![c] = s] /\ lockfile' = lockfile
      /\ s.cmd = r.cmd /\ s.loaded /\ s.work = plan.lock /\ s.todo = plan.ops
      /\ s.left = r.left \ {p} /\ (s.changed <=> r.changed \/ change)
      /\ s.touched = [r.touched EXCEPT ![p] = intent]
  BY <1>1 DEF Begins, disk
<1>4. Serves(plan, p, intent, change, r.work, r.cmd.dir)
  BY DEF Takes
<1>5. s.changed \/ (s.work = lockfile /\ s.todo = {})
  BY <1>2, <1>3, <1>4 DEF RunBooks, Serves
<1>6. s.touched[p] = intent /\ \A q \in Packages : q # p => s.touched[q] = r.touched[q]
  BY <1>2, <1>3
<1>7. \A q \in s.left : s.touched[q] = None
  BY <1>2, <1>3 DEF RunBooks
<1>8. ASSUME NEW q \in Packages, Untouched(s, q), NEW a \in Catalog, a.package = q
      PROVE  s.work.link[a] = lockfile.link[a]
  <2>1. CASE q = p
    BY <1>2, <1>3, <1>4, <1>6, <1>8, <2>1 DEF Untouched, Serves
  <2>2. CASE q # p
    <3>1. r.work.link[a] = lockfile.link[a]
      BY <1>2, <1>6, <1>8, <2>2 DEF Untouched, RunBooks
    <3> QED
      BY <1>3, <1>4, <1>8, <2>2, <3>1 DEF Serves, Edits
  <2> QED
    BY <2>1, <2>2
<1>9. ASSUME NEW t \in s.todo
      PROVE  Meets(t, s.touched[t.asset.package], lockfile, s.work, s.cmd.dir)
  <2>1. /\ t.asset \in Catalog /\ t.asset.package = p
        /\ Meets(t, intent, r.work, plan.lock, r.cmd.dir)
    BY <1>3, <1>4, <1>9 DEF Serves
  <2>2. r.work.link[t.asset] = lockfile.link[t.asset]
    BY <1>2, <2>1
  <2>3. Meets(t, intent, lockfile, plan.lock, r.cmd.dir)
    BY <2>1, <2>2 DEF Meets
  <2> QED
    BY <1>3, <1>6, <2>1, <2>3
<1>10. RunBooks(s, lockfile)
  BY <1>3, <1>5, <1>7, <1>8, <1>9 DEF RunBooks
<1> QED
  BY <1>3, <1>10, RunBooksStep

LEMMA PackageBooks ==
    ASSUME OneProcess, IInv, Wholes, Repairs, Names, Books, NEW c \in Procs, NEW p \in Packages,
           \/ Install(c, p) \/ UpdateNothing(c, p) \/ Update(c, p) \/ Activate(c, p)
           \/ Deactivate(c, p) \/ Uninstall(c, p) \/ Repair(c, p)
    PROVE  Books'
<1>1. Turn(c, p) /\ run[c] # None /\ run[c].loaded /\ run[c].todo = {}
  BY PackageTurn
<1>2. CASE Refuse(c)
  BY <1>2, AbandonBooks DEF Refuse, disk
<1>3. CASE Passes(c)
  <2>1. PICK s : /\ run' = [run EXCEPT ![c] = s]
                 /\ s.cmd = run[c].cmd /\ s.loaded /\ s.work = run[c].work
                 /\ s.todo = run[c].todo /\ s.changed = run[c].changed
                 /\ s.touched = run[c].touched /\ s.left \subseteq run[c].left
    BY <1>3 DEF Passes
  <2>2. RunBooks(s, lockfile)
    BY <1>1, <2>1 DEF Books, RunBooks, Untouched
  <2> QED
    BY <1>3, <2>1, <2>2, RunBooksStep DEF Passes, disk
<1> QED
  BY <1>1, <1>2, <1>3, TakesBooks DEF Turn

LEMMA LinkBooks ==
    ASSUME OneProcess, IInv, Repairs, Books, NEW c \in Procs, Link(c)
    PROVE  Books'
<1>1. PICK t, name, s : Makes(c, t, name, s)
  BY LinkFacts
<1> DEFINE r == run[c]
           x == t.asset
<1>2. /\ r # None /\ t \in r.todo /\ t.do = "link" /\ x \in Catalog /\ name \in Links
      /\ t \in Ready(c, "link") /\ run' = [run EXCEPT ![c] = s]
      /\ s.cmd = r.cmd /\ s.loaded = r.loaded /\ s.left = r.left /\ s.changed = r.changed
      /\ s.touched = r.touched /\ s.todo = r.todo \ {t}
      /\ \A a \in Catalog : s.work.link[a] = IF a = x THEN name ELSE r.work.link[a]
      /\ t.at # None => name = t.at
  BY <1>1 DEF Makes
<1>3. /\ lockfile' = lockfile /\ r.loaded /\ r.changed
      /\ RunBooks(r, lockfile) /\ Named(r, links) /\ Mending(r, files, links)
  BY <1>2, RunOf DEF Link, Books, Repairs, RunSound, RunBooks
<1>4. /\ \A q \in r.left : r.touched[q] = None
      /\ \A q \in Packages : Untouched(r, q) =>
             \A a \in Catalog : a.package = q => r.work.link[a] = lockfile.link[a]
      /\ \A u \in r.todo : Meets(u, r.touched[u.asset.package], lockfile, r.work, r.cmd.dir)
  BY <1>3 DEF RunBooks
<1>5. CASE t.at # None
  <2>1. \A a \in Catalog : s.work.link[a] = r.work.link[a]
    BY <1>2, <1>3, <1>5 DEF Named, Mending
  <2>2. \A u \in s.todo : Meets(u, s.touched[u.asset.package], lockfile, s.work, s.cmd.dir)
    <3> SUFFICES ASSUME NEW u \in s.todo
                 PROVE  Meets(u, s.touched[u.asset.package], lockfile, s.work, s.cmd.dir)
      OBVIOUS
    <3>1. u \in r.todo /\ u.asset \in Catalog
      BY <1>2, RunOf DEF Ops
    <3>2. Meets(u, r.touched[u.asset.package], lockfile, r.work, r.cmd.dir)
      BY <1>4, <3>1
    <3> QED
      BY <1>2, <2>1, <3>1, <3>2, SMTT(40) DEF Meets
  <2>3. RunBooks(s, lockfile)
    BY <1>2, <1>3, <1>4, <2>1, <2>2 DEF RunBooks, Untouched
  <2> QED
    BY <1>2, <1>3, <2>3, RunBooksStep
<1>6. CASE t.at = None
  <2> DEFINE intent == r.touched[x.package]
  <2>1. intent \in Intents /\ intent.kind \in {"install", "activate"}
    BY <1>2, <1>4, <1>6 DEF Meets
  <2>2. \A q \in Packages : Untouched(s, q) =>
            \A a \in Catalog : a.package = q => s.work.link[a] = lockfile.link[a]
    <3>1. ~Untouched(r, x.package)
      BY <2>1, ValuesAssumption DEF Untouched
    <3> HIDE DEF intent
    <3> QED
      BY <1>2, <1>4, <3>1 DEF Untouched
  <2>3. \A u \in r.todo : u.do # "unlink"
    BY <1>2, <1>3, <1>6, ReadyLink
  <2>4. \A u \in s.todo : Meets(u, s.touched[u.asset.package], lockfile, s.work, s.cmd.dir)
    <3> SUFFICES ASSUME NEW u \in s.todo
                 PROVE  Meets(u, s.touched[u.asset.package], lockfile, s.work, s.cmd.dir)
      OBVIOUS
    <3>1. u \in r.todo /\ u.asset \in Catalog /\ u.do # "unlink"
      BY <1>2, <2>3, RunOf DEF Ops
    <3>2. Meets(u, r.touched[u.asset.package], lockfile, r.work, r.cmd.dir)
      BY <1>4, <3>1
    <3>3. u.do = "delete" => u.asset # x
      BY <2>1, <3>2, ValuesAssumption DEF Meets, FileMayBeGone
    <3>4. name # Absent
      BY <1>2, ValuesAssumption
    <3> HIDE DEF intent
    <3> QED
      BY <1>2, <3>1, <3>2, <3>3, <3>4 DEF Meets
  <2>5. RunBooks(s, lockfile)
    BY <1>2, <1>3, <1>4, <2>2, <2>4 DEF RunBooks
  <2> QED
    BY <1>2, <1>3, <2>5, RunBooksStep
<1> QED
  BY <1>5, <1>6

LEMMA OperationBooks ==
    ASSUME OneProcess, IInv, Books, NEW c \in Procs, WriteAsset(c) \/ Unlink(c) \/ DeleteAsset(c)
    PROVE  Books'
<1>1. PICK t, s : Does(c, t, s)
  BY OperationFacts
<1>2. RunBooks(run[c], lockfile) /\ run[c].todo # {} /\ run[c].loaded
  BY <1>1, RunOf DEF Does, Books, RunSound
<1>3. RunBooks(s, lockfile)
  BY <1>1, <1>2 DEF Does, RunBooks, Untouched
<1> QED
  BY <1>1, <1>3, RunBooksStep DEF Does

LEMMA NextBooks ==
    ASSUME OneProcess, IInv, Wholes, Repairs, Names, Books, [Next]_vars
    PROVE  Books'
<1>1. ASSUME NEW c \in Procs, NEW x \in Requests, Start(c, x) PROVE Books'
  BY <1>1, StartLoadBooks
<1>2. ASSUME NEW c \in Procs, Load(c) PROVE Books'
  BY <1>2, StartLoadBooks
<1>3. ASSUME NEW c \in Procs, NEW p \in Packages,
             \/ Install(c, p) \/ UpdateNothing(c, p) \/ Update(c, p) \/ Activate(c, p)
             \/ Deactivate(c, p) \/ Uninstall(c, p) \/ Repair(c, p)
      PROVE  Books'
  BY <1>3, PackageBooks
<1>4. ASSUME NEW c \in Procs, WriteAsset(c) \/ Unlink(c) \/ DeleteAsset(c) PROVE Books'
  BY <1>4, OperationBooks
<1>5. ASSUME NEW c \in Procs, Link(c) PROVE Books'
  BY <1>5, LinkBooks
<1>6. ASSUME NEW c \in Procs, Finish(c) PROVE Books'
  <2>1. run' = [run EXCEPT ![c] = None]
    BY <1>6 DEF Finish, Abandon
  <2>2. \A d \in Procs : run'[d] = None
    BY <2>1 DEF OneProcess, IInv, TypeOK
  <2> QED
    BY <2>2 DEF Books
<1>7. ASSUME NEW c \in Procs, Interrupt(c) PROVE Books'
  BY <1>7, AbandonBooks DEF Interrupt
<1>8. ASSUME \/ \E p \in Packages : Damage(p) \/ Obstruct(p)
             \/ \E k \in Links : Occupy(k)
      PROVE  Books'
  <2>1. Quiet /\ run' = run
    BY <1>8 DEF Damage, Obstruct, Occupy
  <2> QED
    BY <2>1 DEF Quiet, Books
<1>9. CASE UNCHANGED vars
  BY <1>9 DEF vars, disk, Books
<1> QED
  BY <1>1, <1>2, <1>3, <1>4, <1>5, <1>6, <1>7, <1>8, <1>9 DEF Next

-----------------------------------------------------------------------------
(* Noted stays true *)

\* What is left over of two different things stays so.
LEMMA MixedStays ==
    ASSUME Noted, \A p \in Packages : cut[p] = Mixed => cut'[p] = Mixed,
           \A a \in Catalog : files'[a] = "unreadable" =>
               files[a] = "unreadable" \/ cut'[a.package] = Mixed
    PROVE  Noted'
BY CatalogFields DEF Noted

LEMMA AbandonNoted ==
    ASSUME IInv, Noted, NEW c \in Procs, Abandon(c),
           \A a \in Catalog : files'[a] = "unreadable" => files[a] = "unreadable"
    PROVE  Noted'
<1>1. \A p \in Packages : cut[p] = Mixed => cut'[p] = Mixed
  BY ValuesAssumption DEF Abandon, Onto
<1> QED
  BY <1>1, MixedStays

LEMMA FinishNoted ==
    ASSUME IInv, Noted, NEW c \in Procs, Finish(c)
    PROVE  Noted'
<1>1. files' = files /\ run[c] # None
  BY DEF Finish, Finished
<1>2. CASE Abandon(c)
  BY <1>1, <1>2, AbandonNoted
<1>3. CASE cut' = [p \in Packages |-> Completed(c, p)]
  <2>1. ASSUME NEW p \in Packages, cut[p] = Mixed PROVE Completed(c, p) = Mixed
    <3>1. run[c].touched[p] \in Intents \cup {None}
      BY <1>1, RunOf
    <3> QED
      BY <2>1, <3>1, ValuesAssumption DEF Completed
  <2> QED
    BY <1>1, <1>3, <2>1, MixedStays
<1> QED
  BY <1>2, <1>3 DEF Finish

LEMMA OutsideNoted ==
    ASSUME IInv, Noted, \/ \E p \in Packages : Damage(p) \/ Obstruct(p)
                        \/ \E k \in Links : Occupy(k)
    PROVE  Noted'
<1>1. ASSUME NEW p \in Packages, Damage(p) PROVE Noted'
  <2>1. cut' = [cut EXCEPT ![p] = Onto(@, Damaged)]
    BY <1>1 DEF Damage
  <2>2. \A q \in Packages : cut[q] = Mixed => cut'[q] = Mixed
    BY <2>1, ValuesAssumption DEF Onto, IInv, TypeOK
  <2>3. \A a \in Catalog : files'[a] = "unreadable" => files[a] = "unreadable"
    BY <1>1 DEF Damage, IInv, TypeOK
  <2> QED
    BY <2>2, <2>3, MixedStays
<1>2. ASSUME NEW p \in Packages, Obstruct(p) PROVE Noted'
  <2>1. PICK a \in Recorded(lockfile, p) : files' = [files EXCEPT ![a] = "unreadable"]
    BY <1>2 DEF Obstruct
  <2>2. a.package = p /\ cut' = [cut EXCEPT ![p] = Mixed]
    BY <1>2 DEF Obstruct, Recorded
  <2>3. \A q \in Packages : cut[q] = Mixed => cut'[q] = Mixed
    BY <2>2 DEF IInv, TypeOK
  <2>4. \A b \in Catalog : files'[b] = "unreadable" =>
            files[b] = "unreadable" \/ cut'[b.package] = Mixed
    BY <2>1, <2>2 DEF IInv, TypeOK
  <2> QED
    BY <2>3, <2>4, MixedStays
<1>3. ASSUME NEW k \in Links, Occupy(k) PROVE Noted'
  BY <1>3, MixedStays DEF Occupy
<1> QED
  BY <1>1, <1>2, <1>3

LEMMA NextNoted ==
    ASSUME IInv, Wholes, Repairs, Names, Noted, [Next]_vars
    PROVE  Noted'
<1>1. ASSUME NEW c \in Procs, NEW x \in Requests, Start(c, x) PROVE Noted'
  BY <1>1, MixedStays DEF Start, disk
<1>2. ASSUME NEW c \in Procs, Load(c) PROVE Noted'
  BY <1>2, AbandonNoted, MixedStays DEF Load, disk
<1>3. ASSUME NEW c \in Procs, NEW p \in Packages,
             \/ Install(c, p) \/ UpdateNothing(c, p) \/ Update(c, p) \/ Activate(c, p)
             \/ Deactivate(c, p) \/ Uninstall(c, p) \/ Repair(c, p)
      PROVE  Noted'
  <2>1. Turn(c, p)
    BY <1>3, PackageTurn
  <2>2. CASE Refuse(c)
    BY <2>2, AbandonNoted DEF Refuse, disk
  <2>3. CASE Passes(c)
    BY <2>3, MixedStays DEF Passes, disk
  <2>4. ASSUME NEW plan, NEW intent, NEW change, Takes(c, p, plan, intent, change) PROVE Noted'
    <3>1. files' = files
      BY <2>4 DEF Takes, Perform, disk
    <3>2. \A q \in Packages : cut[q] = Mixed => cut'[q] = Mixed
      BY <2>4 DEF Takes, IInv, TypeOK
    <3> QED
      BY <3>1, <3>2, MixedStays
  <2> QED
    BY <2>1, <2>2, <2>3, <2>4 DEF Turn
<1>4. ASSUME NEW c \in Procs, WriteAsset(c) \/ Unlink(c) \/ DeleteAsset(c) PROVE Noted'
  <2>1. /\ cut' = cut
        /\ \A a \in Catalog : files'[a] = "unreadable" => files[a] = "unreadable"
    BY <1>4 DEF WriteAsset, Unlink, DeleteAsset, IInv, TypeOK
  <2> QED
    BY <2>1, MixedStays
<1>5. ASSUME NEW c \in Procs, Link(c) PROVE Noted'
  <2>1. files' = files /\ \A q \in Packages : cut[q] = Mixed => cut'[q] = Mixed
    BY <1>5 DEF Link, IInv, TypeOK
  <2> QED
    BY <2>1, MixedStays
<1>6. ASSUME NEW c \in Procs, Finish(c) PROVE Noted'
  BY <1>6, FinishNoted
<1>7. ASSUME NEW c \in Procs, Interrupt(c) PROVE Noted'
  <2>1. Abandon(c) /\ \A a \in Catalog : files'[a] = "unreadable" => files[a] = "unreadable"
    BY <1>7 DEF Interrupt, IInv, TypeOK
  <2> QED
    BY <2>1, AbandonNoted
<1>8. ASSUME \/ \E p \in Packages : Damage(p) \/ Obstruct(p)
             \/ \E k \in Links : Occupy(k)
      PROVE  Noted'
  BY <1>8, OutsideNoted
<1>9. CASE UNCHANGED vars
  BY <1>9 DEF vars, disk, Noted
<1> QED
  BY <1>1, <1>2, <1>3, <1>4, <1>5, <1>6, <1>7, <1>8, <1>9 DEF Next

-----------------------------------------------------------------------------
(* Explains stays true *)

LEMMA RunExplainsStep ==
    ASSUME OneProcess, IInv, NEW c \in Procs, NEW r, r # None, run' = [run EXCEPT ![c] = r],
           \A p \in Packages : RunExplains(r, p, lockfile', cut'[p], files', links')
    PROVE  Explains'
<1>1. ~Quiet'
  BY DEF Quiet, IInv, TypeOK
<1>2. \A d \in Procs : run'[d] = r
  BY DEF OneProcess, IInv, TypeOK
<1> QED
  BY <1>1, <1>2 DEF Explains

LEMMA QuietExplains ==
    ASSUME OneProcess, IInv, NEW c \in Procs, run' = [run EXCEPT ![c] = None],
           \A p \in Packages : Explained(p, lockfile', {}, None, cut'[p], files', links')
    PROVE  Explains'
<1>1. \A d \in Procs : run'[d] = None
  BY DEF OneProcess, IInv, TypeOK
<1> QED
  BY <1>1 DEF Explains

\* With nothing left to do, the directory the command was given says nothing more.
LEMMA ExplainedAnywhere ==
    ASSUME NEW p, NEW l, NEW dir, NEW other, NEW intent, NEW content, NEW where,
           Explained(p, l, {}, dir, intent, content, where)
    PROVE  Explained(p, l, {}, other, intent, content, where)
<1>1. ToName({}) = {}
  BY DEF ToName
<1>2. \A n, a : LinkExplained(l, {}, dir, intent, n, a, where)
                  => LinkExplained(l, {}, other, intent, n, a, where)
  BY <1>1 DEF LinkExplained
<1> QED
  BY <1>2 DEF Explained

LEMMA StartExplains ==
    ASSUME OneProcess, IInv, Explains, NEW c \in Procs, NEW x \in Requests, Start(c, x)
    PROVE  Explains'
<1> DEFINE r == [cmd |-> x, loaded |-> FALSE, work |-> EmptyLockfile, left |-> {},
                 todo |-> {}, changed |-> FALSE, broken |-> {},
                 touched |-> [q \in Packages |-> None]]
<1>1. run' = [run EXCEPT ![c] = r] /\ UNCHANGED <<disk, cut>> /\ Quiet
  BY DEF Start, Quiet, OneProcess
<1>2. r \in Runs
  BY EmptyIsSound, RequestsAssumption DEF Runs
<1>3. r # None
  BY <1>2, ValuesAssumption
<1>4. \A p \in Packages : Untouched(r, p) /\ ~r.loaded
  BY DEF Untouched
<1> HIDE DEF r
<1>5. \A p \in Packages : RunExplains(r, p, lockfile', cut'[p], files', links')
  BY <1>1, <1>4 DEF Explains, RunExplains, IfCut, disk
<1> QED
  BY <1>1, <1>3, <1>5, RunExplainsStep

\* A command that stops leaves what can be told from what it set out to do.
LEMMA AbandonExplains ==
    ASSUME OneProcess, IInv, NEW c \in Procs, Abandon(c), lockfile' = lockfile, links' = links,
           \A p \in Packages :
               Explained(p, lockfile, {}, None, IfCut(run[c], cut[p], p), files', links)
    PROVE  Explains'
<1>1. /\ run' = [run EXCEPT ![c] = None]
      /\ \A p \in Packages : cut'[p] = IfCut(run[c], cut[p], p)
  BY DEF Abandon, IfCut, Untouched
<1> QED
  BY <1>1, QuietExplains

LEMMA RefuseExplains ==
    ASSUME OneProcess, IInv, Explains, NEW c \in Procs, run[c] # None, Abandon(c),
           lockfile' = lockfile, links' = links, files' = files
    PROVE  Explains'
<1>1. \A p \in Packages :
          Explained(p, lockfile, {}, None, IfCut(run[c], cut[p], p), files', links)
  BY DEF Explains, RunExplains
<1> QED
  BY <1>1, AbandonExplains

LEMMA LoadExplains ==
    ASSUME OneProcess, IInv, Books, Explains, NEW c \in Procs, Load(c)
    PROVE  Explains'
<1> DEFINE r == run[c]
           known == {p \in Scope(r.cmd) : Recorded(lockfile, p) # {}}
           left == IF r.cmd.kind = "install" THEN Scope(r.cmd) ELSE known
           s == [r EXCEPT !.loaded = TRUE, !.work = lockfile, !.left = left]
<1>1. r # None /\ r \in Runs /\ ~r.loaded /\ r.todo = {} /\ UNCHANGED disk
  BY RunOf DEF Load, RunSound
<1>2. CASE Abandon(c)
  BY <1>1, <1>2, RefuseExplains DEF disk
<1>3. CASE run' = [run EXCEPT ![c] = s] /\ UNCHANGED cut
  <2>1. s.loaded /\ s.work = lockfile /\ s.todo = {} /\ s.touched = r.touched
    BY <1>1 DEF Runs
  <2>2. left \subseteq Packages
    BY <1>1, CatalogFields DEF Runs, Commands, Scope
  <2>3. s \in Runs
    BY <1>1, <2>2 DEF Runs, IInv, TypeOK
  <2>4. s # None
    BY <2>3, ValuesAssumption
  <2>5. \A p \in Packages : r.touched[p] = None
    BY <1>1 DEF Books, RunBooks
  <2> HIDE DEF s, left
  <2>6. ASSUME NEW p \in Packages
        PROVE  RunExplains(s, p, lockfile', cut'[p], files', links')
    <3>1. /\ IfCut(s, cut[p], p) = cut[p] /\ IfDone(s, cut[p], p) = cut[p]
          /\ IfCut(r, cut[p], p) = cut[p]
      BY <2>1, <2>5 DEF IfCut, IfDone, Untouched
    <3>2. Explained(p, lockfile, {}, None, cut[p], files, links)
      BY <1>1, <3>1 DEF Explains, RunExplains
    <3>3. Explained(p, lockfile, {}, s.cmd.dir, cut[p], files, links)
      BY <3>2, ExplainedAnywhere
    <3>4. OldNamesFreed(s, p, lockfile, links)
      BY <2>1, <2>5 DEF OldNamesFreed
    <3> QED
      BY <1>1, <1>3, <2>1, <3>1, <3>2, <3>3, <3>4 DEF RunExplains, disk
  <2> QED
    BY <1>3, <2>4, <2>6, RunExplainsStep
<1> QED
  BY <1>2, <1>3 DEF Load

LEMMA PassExplains ==
    ASSUME OneProcess, IInv, Explains, NEW c \in Procs, run[c] # None, run[c].loaded, Passes(c)
    PROVE  Explains'
<1>1. PICK s : /\ run' = [run EXCEPT ![c] = s] /\ s # None
               /\ s.cmd = run[c].cmd /\ s.loaded /\ s.work = run[c].work /\ s.todo = run[c].todo
               /\ s.touched = run[c].touched
  BY DEF Passes
<1>2. ASSUME NEW p \in Packages
      PROVE  RunExplains(s, p, lockfile', cut'[p], files', links')
  <2>1. RunExplains(run[c], p, lockfile, cut[p], files, links)
    BY DEF Explains
  <2>2. /\ IfCut(s, cut[p], p) = IfCut(run[c], cut[p], p)
        /\ IfDone(s, cut[p], p) = IfDone(run[c], cut[p], p)
    BY <1>1 DEF IfCut, IfDone, Untouched
  <2>3. RunExplains(s, p, lockfile, cut[p], files, links)
    BY <1>1, <2>1, <2>2 DEF RunExplains, OldNamesFreed
  <2> QED
    BY <2>3 DEF Passes, disk
<1> QED
  BY <1>1, <1>2, RunExplainsStep

LEMMA FinishExplains ==
    ASSUME OneProcess, IInv, Books, Explains, NEW c \in Procs, Finish(c)
    PROVE  Explains'
<1> DEFINE r == run[c]
<1>1. r # None /\ r.loaded /\ r.todo = {} /\ files' = files /\ links' = links
  BY DEF Finish, Finished
<1>2. CASE Abandon(c) /\ UNCHANGED lockfile
  BY <1>1, <1>2, RefuseExplains
<1>3. CASE /\ lockfile' = IF r.changed THEN r.work ELSE lockfile
           /\ run' = [run EXCEPT ![c] = None]
           /\ cut' = [p \in Packages |-> Completed(c, p)]
  <2>1. lockfile' = r.work
    BY <1>1, <1>3 DEF Books, RunBooks
  <2>2. ASSUME NEW p \in Packages
        PROVE  Explained(p, lockfile', {}, None, cut'[p], files', links')
    <3>1. cut'[p] = IfDone(r, cut[p], p)
      BY <1>3 DEF Completed, IfDone
    <3>2. Explained(p, r.work, {}, r.cmd.dir, IfDone(r, cut[p], p), files, links)
      BY <1>1 DEF Explains, RunExplains
    <3> QED
      BY <1>1, <2>1, <3>1, <3>2, ExplainedAnywhere
  <2> QED
    BY <1>3, <2>2, QuietExplains
<1> QED
  BY <1>2, <1>3 DEF Finish

LEMMA IntentOf ==
    ASSUME IInv, Books, NEW c \in Procs, run[c] # None, NEW t \in run[c].todo, NEW intent,
           intent = run[c].touched[t.asset.package]
    PROVE  /\ t.asset \in Catalog /\ t.asset.package \in Packages
           /\ Meets(t, intent, lockfile, run[c].work, run[c].cmd.dir)
           /\ intent \in Intents /\ intent \notin {None, Mixed, Damaged}
<1>1. run[c].loaded /\ t \in Ops /\ RunBooks(run[c], lockfile)
  BY RunOf DEF RunSound, Books
<1>2. t.asset \in Catalog /\ t.asset.package \in Packages
  BY <1>1, CatalogFields DEF Ops
<1>3. Meets(t, intent, lockfile, run[c].work, run[c].cmd.dir)
  BY <1>1 DEF RunBooks
<1> QED
  BY <1>2, <1>3, ValuesAssumption DEF Meets

\* A command that is not a repair and stops leaves its own mark, or a mixture.
LEMMA IfCutOf ==
    ASSUME NEW r, NEW p, NEW intent, r.touched[p] = intent, intent # None,
           intent.kind # "repair", NEW old, IfCut(r, old, p) # Mixed
    PROVE  IfCut(r, old, p) = intent /\ old \in {None, intent}
BY DEF IfCut, Untouched, Onto

LEMMA InterruptExplains ==
    ASSUME OneProcess, IInv, Books, Explains, NEW c \in Procs, Interrupt(c)
    PROVE  Explains'
<1> DEFINE r == run[c]
<1>1. /\ r # None /\ Abandon(c) /\ lockfile' = lockfile /\ links' = links
      /\ \/ files' = files
         \/ \E t \in Ready(c, "write") : files' = [files EXCEPT ![t.asset] = "partial"]
  BY DEF Interrupt
<1>2. \A p \in Packages : Explained(p, lockfile, {}, None, IfCut(r, cut[p], p), files, links)
  BY <1>1 DEF Explains, RunExplains
<1>3. ASSUME NEW t \in Ready(c, "write"), files' = [files EXCEPT ![t.asset] = "partial"],
             NEW p \in Packages
      PROVE  Explained(p, lockfile, {}, None, IfCut(r, cut[p], p), files', links)
  <2> DEFINE x == t.asset
             intent == r.touched[x.package]
             now == IfCut(r, cut[p], p)
  <2>1. t \in r.todo /\ t.do = "write"
    BY <1>3 DEF Ready
  <2>2. /\ x \in Catalog /\ intent \notin {None, Mixed, Damaged}
        /\ FileMayBeLeft(intent, x) /\ lockfile.link[x] = Absent
    BY <1>1, <2>1, IntentOf DEF Meets
  <2>3. \A a \in Catalog : a # x => files'[a] = files[a]
    BY <1>3, <2>2 DEF IInv, TypeOK
  <2> SUFFICES ASSUME now # Mixed, NEW a \in Catalog, a.package = p
               PROVE  /\ FileExplained(lockfile, {}, now, a, files')
                      /\ \A n \in Links : LinkExplained(lockfile, {}, None, now, n, a, links)
    BY DEF Explained
  <2>4. /\ FileExplained(lockfile, {}, now, a, files)
        /\ \A n \in Links : LinkExplained(lockfile, {}, None, now, n, a, links)
    BY <1>2 DEF Explained
  <2>5. CASE a # x
    BY <2>3, <2>4, <2>5 DEF FileExplained
  <2>6. CASE a = x
    <3>1. intent.kind # "repair"
      BY <2>2 DEF FileMayBeLeft
    <3>2. now = intent
      BY <2>2, <2>6, <3>1, IfCutOf
    <3> QED
      BY <2>2, <2>4, <2>6, <3>2 DEF FileExplained
  <2> QED
    BY <2>5, <2>6
<1>4. \A p \in Packages : Explained(p, lockfile, {}, None, IfCut(r, cut[p], p), files', links)
  BY <1>1, <1>2, <1>3
<1> QED
  BY <1>1, <1>4, AbandonExplains

LEMMA QuietStays ==
    ASSUME OneProcess, IInv, Quiet, run' = run,
           \A p \in Packages : Explained(p, lockfile', {}, None, cut'[p], files', links')
    PROVE  Explains'
BY DEF Quiet, Explains

LEMMA DamageExplains ==
    ASSUME OneProcess, IInv, Repairs, Names, Explains, NEW p \in Packages, Damage(p)
    PROVE  Explains'
<1>1. Quiet /\ run' = run /\ lockfile' = lockfile /\ cut' = [cut EXCEPT ![p] = Onto(@, Damaged)]
  BY DEF Damage
<1>2. /\ \A a \in Catalog : a.package # p \/ lockfile.link[a] = Absent => files'[a] = files[a]
      /\ \A n \in Links : links'[n] = links[n] \/ (n.package = p /\ links'[n] = None)
  BY DEF Damage, Recorded, IInv, TypeOK
<1>3. ASSUME NEW q \in Packages
      PROVE  Explained(q, lockfile', {}, None, cut'[q], files', links')
  <2>1. Explained(q, lockfile, {}, None, cut[q], files, links)
    BY <1>1 DEF Explains
  <2> SUFFICES ASSUME cut'[q] # Mixed, NEW a \in Catalog, a.package = q
               PROVE  /\ FileExplained(lockfile, {}, cut'[q], a, files')
                      /\ \A n \in Links :
                             LinkExplained(lockfile, {}, None, cut'[q], n, a, links')
    BY <1>1 DEF Explained
  <2>2. CASE q # p
    <3>1. cut'[q] = cut[q]
      BY <1>1, <2>2 DEF IInv, TypeOK
    <3>2. /\ FileExplained(lockfile, {}, cut[q], a, files)
          /\ \A n \in Links : LinkExplained(lockfile, {}, None, cut[q], n, a, links)
      BY <2>1, <3>1 DEF Explained
    <3>3. \A n \in Links : n.package = q => links'[n] = links[n]
      BY <1>2, <2>2
    <3>4. ASSUME NEW n \in Links
          PROVE  LinkExplained(lockfile, {}, None, cut[q], n, a, links')
      <4>1. LinkExplained(lockfile, {}, None, cut[q], n, a, links)
        BY <3>2
      <4>2. n.dir \in Dirs
        BY LinkFields
      <4>3. links'[Plain(n.dir, a)] = links[Plain(n.dir, a)]
        BY <3>3, <4>2, PlainType
      <4>4. lockfile.link[a] = n => links'[n] = links[n]
        BY <3>3 DEF Repairs, Shaped
      <4>5. links'[n] = a => links[n] = a
        BY <1>2, ValuesAssumption
      <4> QED
        BY <4>1, <4>3, <4>4, <4>5 DEF LinkExplained, Lasts, Blocked
    <3> QED
      BY <1>2, <2>2, <3>1, <3>2, <3>4 DEF FileExplained
  <2>3. CASE q = p
    <3>1. cut'[q] = Damaged /\ cut[q] \in {None, Damaged} /\ cut[q] # Mixed
      BY <1>1, <2>3, ValuesAssumption DEF IInv, TypeOK, Onto
    <3>2. /\ FileExplained(lockfile, {}, cut[q], a, files)
          /\ \A n \in Links : LinkExplained(lockfile, {}, None, cut[q], n, a, links)
      BY <2>1, <3>1 DEF Explained
    <3>3. None \notin Intents /\ Damaged \notin Intents /\ ToName({}) = {}
      BY ValuesAssumption DEF ToName
    <3>4. FileExplained(lockfile, {}, cut'[q], a, files')
      BY <1>2, <3>1, <3>2, <3>3
         DEF FileExplained, FileMayBeGone, FileMayBeLeft, Pending
    <3>5. ASSUME NEW n \in Links
          PROVE  LinkExplained(lockfile, {}, None, cut'[q], n, a, links')
      <4>1. LinkExplained(lockfile, {}, None, cut[q], n, a, links)
        BY <3>2
      <4>2. lockfile.link[a] # n => links[n] # a
        BY <3>1, <3>3, <4>1 DEF LinkExplained, MayBeLeft, ToGo
      <4>3. lockfile.link[a] # n => links'[n] # a
        BY <1>2, <4>2, ValuesAssumption
      <4> QED
        BY <3>1, <4>3 DEF LinkExplained, MayBeGone
    <3> QED
      BY <3>4, <3>5
  <2> QED
    BY <2>2, <2>3
<1> QED
  BY <1>1, <1>3, QuietStays

\* Of a package whose file somebody made unreadable nothing is claimed, and the others are
\* as they were.
LEMMA ObstructExplains ==
    ASSUME OneProcess, IInv, Explains, NEW p \in Packages, Obstruct(p)
    PROVE  Explains'
<1>1. /\ Quiet /\ run' = run /\ lockfile' = lockfile /\ links' = links
      /\ cut' = [cut EXCEPT ![p] = Mixed]
      /\ \A a \in Catalog : a.package # p => files'[a] = files[a]
  BY DEF Obstruct, Recorded, IInv, TypeOK
<1>2. ASSUME NEW q \in Packages
      PROVE  Explained(q, lockfile', {}, None, cut'[q], files', links')
  <2>1. CASE q = p
    BY <1>1, <2>1 DEF Explained, IInv, TypeOK
  <2>2. CASE q # p
    <3>1. cut'[q] = cut[q] /\ Explained(q, lockfile, {}, None, cut[q], files, links)
      BY <1>1, <2>2 DEF Explains, IInv, TypeOK
    <3> QED
      BY <1>1, <2>2, <3>1 DEF Explained, FileExplained
  <2> QED
    BY <2>1, <2>2
<1> QED
  BY <1>1, <1>2, QuietStays

LEMMA OccupyExplains ==
    ASSUME OneProcess, IInv, Explains, NEW k \in Links, Occupy(k)
    PROVE  Explains'
<1>1. /\ Quiet /\ run' = run /\ lockfile' = lockfile /\ files' = files /\ cut' = cut
      /\ links[k] = None /\ links'[k] = Foreign
      /\ \A n \in Links : n # k => links'[n] = links[n]
  BY DEF Occupy, IInv, TypeOK
<1>2. ASSUME NEW p \in Packages
      PROVE  Explained(p, lockfile', {}, None, cut'[p], files', links')
  <2>1. Explained(p, lockfile, {}, None, cut[p], files, links)
    BY <1>1 DEF Explains
  <2> SUFFICES ASSUME cut[p] # Mixed, NEW a \in Catalog, a.package = p
               PROVE  /\ FileExplained(lockfile, {}, cut[p], a, files)
                      /\ \A n \in Links :
                             LinkExplained(lockfile, {}, None, cut[p], n, a, links')
    BY <1>1 DEF Explained
  <2>2. /\ FileExplained(lockfile, {}, cut[p], a, files)
        /\ \A n \in Links : LinkExplained(lockfile, {}, None, cut[p], n, a, links)
    BY <2>1 DEF Explained
  <2>3. ASSUME NEW n \in Links
        PROVE  LinkExplained(lockfile, {}, None, cut[p], n, a, links')
    <3>1. LinkExplained(lockfile, {}, None, cut[p], n, a, links)
      BY <2>2
    <3>2. (links[n] = a <=> links'[n] = a)
      BY <1>1, ValuesAssumption
    <3>3. \A m \in Links : links[m] = Foreign => links'[m] = Foreign
      BY <1>1
    <3>4. Plain(n.dir, a) \in Links
      BY LinkFields, PlainType
    <3> QED
      BY <3>1, <3>2, <3>3, <3>4 DEF LinkExplained, Lasts, Blocked
  <2> QED
    BY <2>2, <2>3
<1> QED
  BY <1>1, <1>2, QuietStays

\* Turning to a package does not free the names that somebody else has.
LEMMA LastsOn ==
    ASSUME NEW plan, NEW p, NEW l, NEW intent, NEW change, NEW dir,
           Serves(plan, p, intent, change, l, dir), NEW n \in Links, NEW a \in Catalog, NEW where,
           Lasts(l, {}, n, a, where)
    PROVE  Lasts(plan.lock, plan.ops, n, a, where)
<1> DEFINE plain == Plain(n.dir, a)
<1>1. plain \in Links
  BY LinkFields, PlainType
<1>2. SUFFICES ASSUME Blocked(l, {}, n.dir, a, where)
               PROVE  Blocked(plan.lock, plan.ops, n.dir, a, where)
  BY DEF Lasts
<1>3. where[plain] = Foreign /\ \A b \in Catalog : l.link[b] # plain
  BY <1>2 DEF Blocked
<1>4. \A b \in Catalog : plan.lock.link[b] # plain
  BY <1>1, <1>3, ValuesAssumption DEF Serves, Edits
<1>5. ~ToGo(plan.ops, plain)
  BY <1>3 DEF Serves, Meets, ToGo
<1> QED
  BY <1>3, <1>4, <1>5 DEF Blocked

\* A package that is not the one the command turns to.
LEMMA TakesOther ==
    ASSUME NEW plan, NEW p, NEW q, q # p, NEW l, NEW intent, NEW change, NEW dir,
           Serves(plan, p, intent, change, l, dir), NEW left, NEW content, NEW where,
           Explained(q, l, {}, dir, left, content, where)
    PROVE  Explained(q, plan.lock, plan.ops, dir, left, content, where)
<1> SUFFICES ASSUME left # Mixed, NEW a \in Catalog, a.package = q
             PROVE  /\ FileExplained(plan.lock, plan.ops, left, a, content)
                    /\ \A n \in Links :
                           LinkExplained(plan.lock, plan.ops, dir, left, n, a, where)
  BY DEF Explained
<1>1. /\ FileExplained(l, {}, left, a, content)
      /\ \A n \in Links : LinkExplained(l, {}, dir, left, n, a, where)
  BY DEF Explained
<1>2. plan.lock.link[a] = l.link[a]
  BY DEF Serves, Edits
<1>3. FileExplained(plan.lock, plan.ops, left, a, content)
  BY <1>1, <1>2 DEF FileExplained, Pending
<1>4. ASSUME NEW n \in Links
      PROVE  LinkExplained(plan.lock, plan.ops, dir, left, n, a, where)
  <2>1. LinkExplained(l, {}, dir, left, n, a, where)
    BY <1>1
  <2>2. Lasts(l, {}, n, a, where) => Lasts(plan.lock, plan.ops, n, a, where)
    BY LastsOn
  <2> QED
    BY <1>2, <2>1, <2>2 DEF LinkExplained, Pending, ToGo, ToName
<1> QED
  BY <1>3, <1>4

\* The package it turns to: what was left over of the same intent is made good by the plan,
\* or, of a damage, by a repair.
LEMMA TakesThis ==
    ASSUME IInv, NEW plan, NEW p, NEW l, NEW intent, NEW change, NEW dir,
           Serves(plan, p, intent, change, l, dir),
           intent.kind = "repair" => Mended(plan.lock, plan.ops, p, files, links),
           Sweeps(plan, l), NEW old, Explained(p, l, {}, dir, old, files, links),
           \A a \in Catalog : a.package = p /\ files[a] = "unreadable" => old = Mixed,
           NEW new,
           new = IF old = intent \/ (old = Damaged /\ intent.kind = "repair") THEN None ELSE old
    PROVE  Explained(p, plan.lock, plan.ops, dir, new, files, links)
<1> SUFFICES ASSUME new # Mixed, NEW a \in Catalog, a.package = p
             PROVE  /\ FileExplained(plan.lock, plan.ops, new, a, files)
                    /\ \A n \in Links :
                           LinkExplained(plan.lock, plan.ops, dir, new, n, a, links)
  BY DEF Explained
<1>1. intent \in Intents /\ intent \notin {None, Mixed, Damaged} /\ Damaged # Mixed
      /\ Damaged \notin Intents
  BY ValuesAssumption DEF Serves
<1>2. old # Mixed
  BY <1>1
<1>3. /\ FileExplained(l, {}, old, a, files)
      /\ \A n \in Links : LinkExplained(l, {}, dir, old, n, a, links)
  BY <1>2 DEF Explained
<1>4. /\ plan.lock.link[a] # Absent /\ l.link[a] = Absent => Pending(plan.ops, "write", a)
      /\ plan.lock.link[a] = Absent /\ l.link[a] # Absent => Pending(plan.ops, "delete", a)
      /\ \A n \in Links : plan.lock.link[a] = n => l.link[a] = n
  BY ValuesAssumption DEF Serves, Edits
<1>5. /\ FileMayBeGone(intent, a) => plan.lock.link[a] = Absent
      /\ FileMayBeLeft(intent, a) => plan.lock.link[a] # Absent
      /\ \A n \in Links : MayBeGone(intent, n, a) => plan.lock.link[a] # n
      /\ \A n \in Links : MayBeLeft(intent, n, a) => a \in ToName(plan.ops)
  BY DEF Serves, MakesGood
<1>6. intent.kind = "repair" /\ plan.lock.link[a] # Absent =>
          /\ files[a] = "good"
          /\ plan.lock.link[a] \in Links =>
                 links[plan.lock.link[a]] = a \/ Pending(plan.ops, "link", a)
  BY <1>2 DEF Mended, Recorded, Pending
<1>7. FileExplained(plan.lock, plan.ops, new, a, files)
  <2>1. CASE plan.lock.link[a] # Absent
    <3>1. CASE l.link[a] = Absent
      BY <1>4, <2>1, <3>1 DEF FileExplained
    <3>2. CASE l.link[a] # Absent
      <4>1. files[a] = "good" \/ FileMayBeGone(old, a)
        BY <1>3, <3>2 DEF FileExplained, Pending
      <4> QED
        BY <1>5, <1>6, <2>1, <4>1 DEF FileExplained
    <3> QED
      BY <3>1, <3>2
  <2>2. CASE plan.lock.link[a] = Absent
    <3>1. CASE l.link[a] # Absent
      BY <1>4, <2>2, <3>1 DEF FileExplained
    <3>2. CASE l.link[a] = Absent
      <4>1. files[a] = "missing" \/ FileMayBeLeft(old, a)
        BY <1>3, <3>2 DEF FileExplained, Pending
      <4>2. ~FileMayBeLeft(Damaged, a)
        BY <1>1 DEF FileMayBeLeft
      <4> QED
        BY <1>5, <2>2, <4>1, <4>2 DEF FileExplained
    <3> QED
      BY <3>1, <3>2
  <2> QED
    BY <2>1, <2>2
<1>8. ASSUME NEW n \in Links
      PROVE  LinkExplained(plan.lock, plan.ops, dir, new, n, a, links)
  <2>1. LinkExplained(l, {}, dir, old, n, a, links)
    BY <1>3
  <2>2. CASE plan.lock.link[a] = n
    <3>1. links[n] = a \/ MayBeGone(old, n, a)
      BY <1>4, <2>1, <2>2 DEF LinkExplained, Pending
    <3>2. intent.kind = "repair" => links[n] = a \/ Pending(plan.ops, "link", a)
      BY <1>6, <2>2, ValuesAssumption
    <3> QED
      BY <1>5, <2>2, <3>1, <3>2 DEF LinkExplained
  <2>3. CASE plan.lock.link[a] # n /\ l.link[a] = n
    <3>1. links[n] = a => ToGo(plan.ops, n)
      BY <2>3 DEF Sweeps, ToGo
    <3> QED
      BY <2>3, <3>1 DEF LinkExplained
  <2>4. CASE plan.lock.link[a] # n /\ l.link[a] # n /\ links[n] = a
    <3>1. MayBeLeft(old, n, a) /\ Lasts(l, {}, n, a, links)
      BY <2>1, <2>4 DEF LinkExplained, ToGo, ToName
    <3>2. Lasts(plan.lock, plan.ops, n, a, links)
      BY <3>1, LastsOn
    <3>3. old # Damaged
      BY <1>1, <3>1 DEF MayBeLeft
    <3>4. old = intent => a \in ToName(plan.ops) /\ n.dir = dir
      <4>1. old = intent => a \in ToName(plan.ops) /\ n.dir = intent.dir
        BY <1>5, <3>1 DEF MayBeLeft
      <4>2. a \in ToName(plan.ops) => intent.dir = dir
        BY DEF ToName, Serves, Meets
      <4> QED
        BY <4>1, <4>2
    <3> QED
      BY <2>4, <3>1, <3>2, <3>3, <3>4 DEF LinkExplained
  <2> QED
    BY <2>2, <2>3, <2>4 DEF LinkExplained
<1> QED
  BY <1>7, <1>8

\* What an interrupted command left is what it would leave again.
LEMMA ExplainedByMore ==
    ASSUME NEW p, NEW l, NEW old \in {None, Damaged} \cup Intents, NEW new, old \in {None, new},
           NEW content, NEW where, Explained(p, l, {}, None, old, content, where)
    PROVE  Explained(p, l, {}, None, new, content, where)
<1>1. None \notin Intents /\ None # Damaged /\ None # Mixed
  BY ValuesAssumption
<1>2. ASSUME old = None, NEW a \in Catalog, a.package = p
      PROVE  /\ FileExplained(l, {}, new, a, content)
             /\ \A n \in Links : LinkExplained(l, {}, None, new, n, a, where)
  <2>1. /\ FileExplained(l, {}, None, a, content)
        /\ \A n \in Links : LinkExplained(l, {}, None, None, n, a, where)
    BY <1>1, <1>2 DEF Explained
  <2>2. /\ ~FileMayBeGone(None, a) /\ ~FileMayBeLeft(None, a)
        /\ \A n \in Links : ~MayBeGone(None, n, a) /\ ~MayBeLeft(None, n, a)
    BY <1>1 DEF FileMayBeGone, FileMayBeLeft, MayBeGone, MayBeLeft
  <2> QED
    BY <2>1, <2>2 DEF FileExplained, LinkExplained
<1> QED
  BY <1>2 DEF Explained

LEMMA TakesExplains ==
    ASSUME OneProcess, IInv, Books, Noted, Explains, NEW c \in Procs, NEW p \in Packages,
           NEW plan, NEW intent, NEW change, Takes(c, p, plan, intent, change)
    PROVE  Explains'
<1>1. PICK s : Begins(c, p, plan, intent, change, s)
  BY TakesBegins
<1> DEFINE r == run[c]
           dir == r.cmd.dir
<1>2. /\ r # None /\ r.loaded /\ r.todo = {} /\ r.touched[p] = None /\ intent # None
      /\ intent \in Intents /\ intent # Mixed /\ r.touched \in [Packages -> Intents \cup {None}]
      /\ \A a \in Catalog : a.package = p => r.work.link[a] = lockfile.link[a]
  BY TakesBegins, RunOf, ValuesAssumption
<1>3. /\ run' = [run EXCEPT ![c] = s] /\ s # None /\ UNCHANGED disk
      /\ s.cmd = r.cmd /\ s.loaded /\ s.work = plan.lock /\ s.todo = plan.ops
      /\ s.touched = [r.touched EXCEPT ![p] = intent]
  BY <1>1 DEF Begins
<1>4. /\ Serves(plan, p, intent, change, r.work, dir)
      /\ intent.kind = "repair" => Mended(plan.lock, plan.ops, p, files, links)
      /\ \/ UNCHANGED cut /\ Sweeps(plan, r.work)
         \/ cut' = [cut EXCEPT ![p] = Mixed]
  BY DEF Takes
<1>5. s.touched[p] = intent /\ \A q \in Packages : q # p => s.touched[q] = r.touched[q]
  BY <1>2, <1>3
<1>6. \A q \in Packages : q # p => cut'[q] = cut[q]
  BY <1>4 DEF IInv, TypeOK
<1>7. ASSUME NEW q \in Packages, q # p
      PROVE  RunExplains(s, q, lockfile', cut'[q], files', links')
  <2>1. /\ IfCut(s, cut[q], q) = IfCut(r, cut[q], q)
        /\ IfDone(s, cut[q], q) = IfDone(r, cut[q], q)
    BY <1>5, <1>7 DEF IfCut, IfDone, Untouched
  <2>2. /\ Explained(q, lockfile, {}, None, IfCut(r, cut[q], q), files, links)
        /\ Explained(q, r.work, {}, dir, IfDone(r, cut[q], q), files, links)
        /\ OldNamesFreed(r, q, lockfile, links)
    BY <1>2 DEF Explains, RunExplains
  <2>3. Explained(q, plan.lock, plan.ops, dir, IfDone(r, cut[q], q), files, links)
    BY <1>4, <1>7, <2>2, TakesOther
  <2>4. OldNamesFreed(s, q, lockfile, links)
    BY <1>2, <1>5, <1>7, <2>2 DEF OldNamesFreed, ToGo
  <2> QED
    BY <1>3, <1>6, <1>7, <2>1, <2>2, <2>3, <2>4 DEF RunExplains, disk
<1>8. RunExplains(s, p, lockfile', cut'[p], files', links')
  <2>1. IfCut(r, cut[p], p) = cut[p] /\ IfDone(r, cut[p], p) = cut[p]
    BY <1>2 DEF IfCut, IfDone, Untouched
  <2>2. /\ Explained(p, lockfile, {}, None, cut[p], files, links)
        /\ Explained(p, r.work, {}, dir, cut[p], files, links)
    BY <1>2, <2>1 DEF Explains, RunExplains
  <2>3. OldNamesFreed(s, p, lockfile, links)
    <3> SUFFICES ASSUME intent.kind \in {"install", "activate"}, NEW a \in Catalog,
                        a.package = p, lockfile.link[a] \in Links, a.key \notin intent.keys,
                        lockfile.link[a].dir = intent.dir
                 PROVE  ToGo(plan.ops, lockfile.link[a])
      BY <1>3, <1>5 DEF OldNamesFreed
    <3> DEFINE n == lockfile.link[a]
    <3>1. MayBeGone(intent, n, a)
      BY <1>2 DEF MayBeGone
    <3>2. plan.lock.link[a] # n /\ r.work.link[a] = n
      BY <1>2, <1>4, <3>1 DEF Serves, MakesGood
    <3>3. \E t \in plan.ops : t.do = "unlink" /\ t.asset = a /\ t.at = n
      BY <1>4, <3>2 DEF Serves, Edits
    <3> QED
      BY <3>3 DEF ToGo
  <2>4. CASE cut' = [cut EXCEPT ![p] = Mixed]
    <3>1. cut'[p] = Mixed /\ Mixed \notin Intents /\ Mixed # Damaged /\ Mixed # None
      BY <2>4, ValuesAssumption DEF IInv, TypeOK
    <3>2. IfCut(s, Mixed, p) = Mixed /\ IfDone(s, Mixed, p) = Mixed
      BY <1>2, <1>5, <3>1 DEF IfCut, IfDone, Untouched, Onto
    <3> QED
      BY <1>3, <2>3, <3>1, <3>2 DEF RunExplains, Explained, disk
  <2>5. CASE UNCHANGED cut /\ Sweeps(plan, r.work)
    <3>1. Explained(p, plan.lock, plan.ops, dir, IfDone(s, cut[p], p), files, links)
      <4>1. IfDone(s, cut[p], p) =
                IF cut[p] = intent \/ (cut[p] = Damaged /\ intent.kind = "repair") THEN None
                ELSE cut[p]
        BY <1>2, <1>5 DEF IfDone
      <4> QED
        BY <1>4, <2>2, <2>5, <4>1, TakesThis DEF Noted
    <3>2. Explained(p, lockfile, {}, None, IfCut(s, cut[p], p), files, links)
      <4>1. CASE intent.kind = "repair"
        BY <1>5, <2>2, <4>1 DEF IfCut, Untouched
      <4>2. CASE intent.kind # "repair" /\ IfCut(s, cut[p], p) # Mixed
        <5>1. IfCut(s, cut[p], p) = intent /\ cut[p] \in {None, intent}
          BY <1>2, <1>5, <4>2, IfCutOf
        <5> QED
          BY <1>2, <2>2, <5>1, ExplainedByMore
      <4> QED
        BY <4>1, <4>2 DEF Explained
    <3> QED
      BY <1>3, <2>3, <2>5, <3>1, <3>2 DEF RunExplains, disk
  <2> QED
    BY <1>4, <2>4, <2>5
<1> QED
  BY <1>3, <1>7, <1>8, RunExplainsStep

LEMMA PackageExplains ==
    ASSUME OneProcess, IInv, Wholes, Repairs, Names, Books, Noted, Explains,
           NEW c \in Procs, NEW p \in Packages,
           \/ Install(c, p) \/ UpdateNothing(c, p) \/ Update(c, p) \/ Activate(c, p)
           \/ Deactivate(c, p) \/ Uninstall(c, p) \/ Repair(c, p)
    PROVE  Explains'
<1>1. Turn(c, p) /\ run[c] # None /\ run[c].loaded
  BY PackageTurn
<1>2. CASE Refuse(c)
  BY <1>1, <1>2, RefuseExplains DEF Refuse, disk
<1> QED
  BY <1>1, <1>2, PassExplains, TakesExplains DEF Turn

\* What the lockfile and the plan say of the operation that is executed.
LEMMA DoesFacts ==
    ASSUME IInv, Books, Explains, NEW c \in Procs, NEW t, NEW s, Does(c, t, s), NEW intent,
           intent = run[c].touched[t.asset.package]
    PROVE  /\ run[c] # None /\ run[c].loaded /\ t \in run[c].todo /\ t.asset \in Catalog
           /\ Meets(t, intent, lockfile, run[c].work, run[c].cmd.dir)
           /\ intent \in Intents /\ intent \notin {None, Mixed, Damaged}
           /\ s # None /\ s.loaded /\ s.work = run[c].work /\ s.cmd = run[c].cmd
           /\ s.touched = run[c].touched /\ s.todo = run[c].todo \ {t}
           /\ run' = [run EXCEPT ![c] = s] /\ lockfile' = lockfile /\ cut' = cut
           /\ \A q \in Packages :
                  /\ IfCut(s, cut[q], q) = IfCut(run[c], cut[q], q)
                  /\ IfDone(s, cut[q], q) = IfDone(run[c], cut[q], q)
                  /\ RunExplains(run[c], q, lockfile, cut[q], files, links)
<1>1. /\ run[c] # None /\ t \in run[c].todo /\ t.asset \in Catalog
      /\ s # None /\ s.loaded = run[c].loaded /\ s.work = run[c].work /\ s.cmd = run[c].cmd
      /\ s.touched = run[c].touched /\ s.todo = run[c].todo \ {t}
      /\ run' = [run EXCEPT ![c] = s] /\ lockfile' = lockfile /\ cut' = cut
  BY DEF Does
<1>2. run[c].loaded
  BY <1>1, RunOf DEF RunSound
<1>3. \A q \in Packages :
          /\ IfCut(s, cut[q], q) = IfCut(run[c], cut[q], q)
          /\ IfDone(s, cut[q], q) = IfDone(run[c], cut[q], q)
  BY <1>1 DEF IfCut, IfDone, Untouched
<1>4. \A q \in Packages : RunExplains(run[c], q, lockfile, cut[q], files, links)
  BY <1>1 DEF Explains
<1> QED
  BY <1>1, <1>2, <1>3, <1>4, IntentOf

\* A file is written or deleted.
LEMMA FileExplains ==
    ASSUME OneProcess, IInv, Books, Explains, NEW c \in Procs, NEW t, NEW s, Does(c, t, s),
           t.do \in {"write", "delete"}
    PROVE  Explains'
<1> DEFINE r == run[c]
           x == t.asset
           intent == r.touched[x.package]
           rest == r.todo \ {t}
<1>1. /\ r # None /\ r.loaded /\ t \in r.todo /\ x \in Catalog
      /\ Meets(t, intent, lockfile, r.work, r.cmd.dir)
      /\ intent \in Intents /\ intent \notin {None, Mixed, Damaged}
      /\ s # None /\ s.loaded /\ s.work = r.work /\ s.cmd = r.cmd
      /\ s.touched = r.touched /\ s.todo = rest
      /\ run' = [run EXCEPT ![c] = s] /\ lockfile' = lockfile /\ cut' = cut
      /\ \A q \in Packages :
             /\ IfCut(s, cut[q], q) = IfCut(r, cut[q], q)
             /\ IfDone(s, cut[q], q) = IfDone(r, cut[q], q)
             /\ RunExplains(r, q, lockfile, cut[q], files, links)
  BY DoesFacts
<1>2. /\ links' = links /\ \A a \in Catalog : a # x => files'[a] = files[a]
      /\ t.do = "write" => files'[x] = "good"
      /\ t.do = "delete" => files'[x] = "missing"
  BY <1>1 DEF Does, IInv, TypeOK
<1>3. /\ t.do = "write" =>
             /\ FileMayBeLeft(intent, x) /\ lockfile.link[x] = Absent /\ r.work.link[x] # Absent
      /\ t.do = "delete" =>
             /\ FileMayBeGone(intent, x) /\ lockfile.link[x] # Absent /\ r.work.link[x] = Absent
  BY <1>1 DEF Meets
<1>4. /\ \A n : ToGo(r.todo, n) <=> ToGo(rest, n)
      /\ \A a : Pending(r.todo, "link", a) <=> Pending(rest, "link", a)
      /\ ToName(r.todo) = ToName(rest)
      /\ \A a, do : a # x /\ Pending(r.todo, do, a) => Pending(rest, do, a)
  BY DEF ToGo, Pending, ToName
<1> HIDE DEF intent, rest, x, r
<1>5. ASSUME NEW q \in Packages
      PROVE  RunExplains(s, q, lockfile', cut'[q], files', links')
  <2> DEFINE now == IfCut(r, cut[q], q)
             done == IfDone(r, cut[q], q)
  <2>1. /\ Explained(q, lockfile, {}, None, now, files, links)
        /\ Explained(q, r.work, r.todo, r.cmd.dir, done, files, links)
        /\ OldNamesFreed(r, q, lockfile, links)
    BY <1>1 DEF RunExplains
  <2>2. OldNamesFreed(s, q, lockfile, links)
    BY <1>1, <1>4, <2>1 DEF OldNamesFreed
  <2>3. Explained(q, lockfile, {}, None, now, files', links)
    <3> SUFFICES ASSUME now # Mixed, NEW a \in Catalog, a.package = q
                 PROVE  FileExplained(lockfile, {}, now, a, files')
      BY <2>1 DEF Explained
    <3>1. FileExplained(lockfile, {}, now, a, files)
      BY <2>1 DEF Explained
    <3>2. CASE a # x
      BY <1>2, <3>1, <3>2 DEF FileExplained
    <3>3. CASE a = x
      <4>1. intent.kind # "repair"
        BY <1>1, <1>3 DEF FileMayBeLeft, FileMayBeGone
      <4>2. now = intent
        BY <1>1, <3>3, <4>1, IfCutOf DEF intent
      <4> QED
        BY <1>3, <3>3, <4>2 DEF FileExplained
    <3> QED
      BY <3>2, <3>3
  <2>4. Explained(q, r.work, rest, r.cmd.dir, done, files', links)
    <3> SUFFICES ASSUME done # Mixed, NEW a \in Catalog, a.package = q
                 PROVE  /\ FileExplained(r.work, rest, done, a, files')
                        /\ \A n \in Links :
                               LinkExplained(r.work, rest, r.cmd.dir, done, n, a, links)
      BY DEF Explained
    <3>1. /\ FileExplained(r.work, r.todo, done, a, files)
          /\ \A n \in Links : LinkExplained(r.work, r.todo, r.cmd.dir, done, n, a, links)
      BY <2>1 DEF Explained
    <3>2. FileExplained(r.work, rest, done, a, files')
      <4>1. CASE a # x
        BY <1>2, <1>4, <3>1, <4>1 DEF FileExplained
      <4>2. CASE a = x
        BY <1>2, <1>3, <4>2 DEF FileExplained
      <4> QED
        BY <4>1, <4>2
    <3>3. \A n \in Links : LinkExplained(r.work, rest, r.cmd.dir, done, n, a, links)
      BY <1>4, <3>1 DEF LinkExplained, Lasts, Blocked
    <3> QED
      BY <3>2, <3>3
  <2> QED
    BY <1>1, <1>2, <2>2, <2>3, <2>4 DEF RunExplains
<1> QED
  BY <1>1, <1>5, RunExplainsStep

\* A symlink is removed.
LEMMA UnlinkExplains ==
    ASSUME OneProcess, IInv, Repairs, Books, Explains, NEW c \in Procs, NEW t, NEW s,
           Does(c, t, s), t.do = "unlink"
    PROVE  Explains'
<1> DEFINE r == run[c]
           x == t.asset
           gone == t.at
           intent == r.touched[x.package]
           rest == r.todo \ {t}
<1>1. /\ r # None /\ r.loaded /\ t \in r.todo /\ x \in Catalog
      /\ Meets(t, intent, lockfile, r.work, r.cmd.dir)
      /\ intent \in Intents /\ intent \notin {None, Mixed, Damaged}
      /\ s # None /\ s.loaded /\ s.work = r.work /\ s.cmd = r.cmd
      /\ s.touched = r.touched /\ s.todo = rest
      /\ run' = [run EXCEPT ![c] = s] /\ lockfile' = lockfile /\ cut' = cut
      /\ \A q \in Packages :
             /\ IfCut(s, cut[q], q) = IfCut(r, cut[q], q)
             /\ IfDone(s, cut[q], q) = IfDone(r, cut[q], q)
             /\ RunExplains(r, q, lockfile, cut[q], files, links)
  BY DoesFacts
<1>2. /\ gone \in Links /\ gone = lockfile.link[x] /\ MayBeGone(intent, gone, x)
      /\ \A b \in Catalog : r.work.link[b] # gone
  BY <1>1 DEF Meets
<1>3. /\ files' = files /\ links'[gone] = None
      /\ \A n \in Links : n # gone => links'[n] = links[n]
  BY <1>1, <1>2 DEF Does, IInv, TypeOK
<1>4. /\ \A a, do : do # "unlink" => (Pending(r.todo, do, a) <=> Pending(rest, do, a))
      /\ ToName(r.todo) = ToName(rest)
      /\ \A n : n # gone /\ ToGo(r.todo, n) => ToGo(rest, n)
      /\ \A n : ToGo(rest, n) => ToGo(r.todo, n)
      /\ ToGo(r.todo, gone)
  BY <1>1 DEF ToGo, Pending, ToName
<1>5. \A a \in Catalog : a # None /\ a # Foreign
  BY ValuesAssumption
<1> HIDE DEF intent, rest, x, r, gone
<1>6. ASSUME NEW q \in Packages
      PROVE  RunExplains(s, q, lockfile', cut'[q], files', links')
  <2> DEFINE now == IfCut(r, cut[q], q)
             done == IfDone(r, cut[q], q)
  <2>1. /\ Explained(q, lockfile, {}, None, now, files, links)
        /\ Explained(q, r.work, r.todo, r.cmd.dir, done, files, links)
        /\ OldNamesFreed(r, q, lockfile, links)
    BY <1>1 DEF RunExplains
  <2>2. OldNamesFreed(s, q, lockfile, links')
    BY <1>1, <1>3, <1>4, <2>1, ValuesAssumption DEF OldNamesFreed
  <2>3. Explained(q, lockfile, {}, None, now, files, links')
    <3> SUFFICES ASSUME now # Mixed, NEW a \in Catalog, a.package = q, NEW n \in Links
                 PROVE  LinkExplained(lockfile, {}, None, now, n, a, links')
      BY <2>1 DEF Explained
    <3>1. LinkExplained(lockfile, {}, None, now, n, a, links)
      BY <2>1 DEF Explained
    <3>2. CASE n # gone
      <4>1. Lasts(lockfile, {}, n, a, links) => Lasts(lockfile, {}, n, a, links')
        BY <1>1, <1>2, <1>3, LinkFields, PlainType DEF Lasts, Blocked
      <4> QED
        BY <1>3, <3>1, <3>2, <4>1 DEF LinkExplained
    <3>3. CASE n = gone /\ lockfile.link[a] = n
      <4>1. a = x
        BY <1>1, <1>2, <3>3 DEF Repairs, Distinct
      <4>2. intent.kind # "repair"
        BY <1>1, <1>2 DEF MayBeGone
      <4>3. now = intent
        BY <1>1, <4>1, <4>2, IfCutOf DEF intent
      <4> QED
        BY <1>2, <3>3, <4>1, <4>3 DEF LinkExplained
    <3>4. CASE n = gone /\ lockfile.link[a] # n
      BY <1>3, <1>5, <3>4 DEF LinkExplained
    <3> QED
      BY <3>2, <3>3, <3>4
  <2>4. Explained(q, r.work, rest, r.cmd.dir, done, files, links')
    <3> SUFFICES ASSUME done # Mixed, NEW a \in Catalog, a.package = q
                 PROVE  /\ FileExplained(r.work, rest, done, a, files)
                        /\ \A n \in Links :
                               LinkExplained(r.work, rest, r.cmd.dir, done, n, a, links')
      BY DEF Explained
    <3>1. /\ FileExplained(r.work, r.todo, done, a, files)
          /\ \A n \in Links : LinkExplained(r.work, r.todo, r.cmd.dir, done, n, a, links)
      BY <2>1 DEF Explained
    <3>2. FileExplained(r.work, rest, done, a, files)
      BY <1>4, <3>1 DEF FileExplained
    <3>3. ASSUME NEW n \in Links
          PROVE  LinkExplained(r.work, rest, r.cmd.dir, done, n, a, links')
      <4>1. LinkExplained(r.work, r.todo, r.cmd.dir, done, n, a, links)
        BY <3>1
      <4>2. CASE n = gone
        BY <1>2, <1>3, <1>5, <4>2 DEF LinkExplained
      <4>3. CASE n # gone
        <5>1. Lasts(r.work, r.todo, n, a, links) => Lasts(r.work, rest, n, a, links')
          BY <1>3, <1>4, LinkFields, PlainType DEF Lasts, Blocked
        <5>2. ToGo(r.todo, n) => ToGo(rest, n)
          BY <1>4, <4>3
        <5>3. Pending(r.todo, "link", a) <=> Pending(rest, "link", a)
          BY <1>4
        <5> QED
          BY <1>3, <1>4, <4>1, <4>3, <5>1, <5>2, <5>3 DEF LinkExplained
      <4> QED
        BY <4>2, <4>3
    <3> QED
      BY <3>2, <3>3
  <2> QED
    BY <1>1, <1>3, <2>2, <2>3, <2>4 DEF RunExplains
<1> QED
  BY <1>1, <1>6, RunExplainsStep

LEMMA OperationExplains ==
    ASSUME OneProcess, IInv, Repairs, Books, Explains, NEW c \in Procs,
           WriteAsset(c) \/ Unlink(c) \/ DeleteAsset(c)
    PROVE  Explains'
<1>1. PICK t, s : Does(c, t, s)
  BY OperationFacts
<1>2. t.do \in {"write", "delete", "unlink"}
  BY <1>1 DEF Does
<1> QED
  BY <1>1, <1>2, FileExplains, UnlinkExplains

\* What is known when a symlink is made.
Making(c, t, name, s, intent, x, rest) ==
    /\ run[c] # None /\ run[c].loaded /\ t \in run[c].todo /\ t.do = "link"
    /\ x \in Catalog /\ x.package \in Packages /\ name \in Links
    /\ Meets(t, intent, lockfile, run[c].work, run[c].cmd.dir)
    /\ x = t.asset /\ rest = run[c].todo \ {t}
    /\ intent \in Intents /\ intent \notin {None, Mixed, Damaged}
    /\ s # None /\ s.loaded /\ s.cmd = run[c].cmd /\ s.touched = run[c].touched
    /\ s.todo = rest /\ run' = [run EXCEPT ![c] = s]
    /\ lockfile' = lockfile /\ files' = files
    /\ \A a \in Catalog :
           s.work.link[a] = IF a = x THEN name ELSE run[c].work.link[a]
    /\ links'[name] = x /\ \A n \in Links : n # name => links'[n] = links[n]
    /\ Named(run[c], links) /\ Mending(run[c], files, links) /\ RunNames(run[c], links)
    /\ RunSound(run[c]) /\ RunBooks(run[c], lockfile)
    /\ run[c].work.link[x] # Absent
    /\ \A n : ToGo(run[c].todo, n) <=> ToGo(rest, n)
    /\ \A a, do : do # "link" \/ a # x =>
           (Pending(run[c].todo, do, a) <=> Pending(rest, do, a))
    /\ \A a : a # x => (a \in ToName(run[c].todo) <=> a \in ToName(rest))
    /\ \A old : \A q \in Packages :
           /\ IfCut(s, old, q) = IfCut(run[c], old, q)
           /\ IfDone(s, old, q) = IfDone(run[c], old, q)
    /\ \A q \in Packages : RunExplains(run[c], q, lockfile, cut[q], files, links)

LEMMA MakesFacts ==
    ASSUME IInv, Repairs, Names, Books, Explains, NEW c \in Procs, Link(c), NEW t, NEW name,
           NEW s, Makes(c, t, name, s), NEW intent, intent = run[c].touched[t.asset.package],
           NEW x, x = t.asset, NEW rest, rest = run[c].todo \ {t}
    PROVE  Making(c, t, name, s, intent, x, rest)
<1> DEFINE r == run[c]
<1>1. /\ r # None /\ t \in r.todo /\ t.do = "link" /\ x \in Catalog /\ name \in Links
      /\ s # None /\ s.loaded = r.loaded /\ s.cmd = r.cmd /\ s.touched = r.touched
      /\ s.todo = rest /\ run' = [run EXCEPT ![c] = s]
      /\ \A a \in Catalog : s.work.link[a] = IF a = x THEN name ELSE r.work.link[a]
      /\ links' = [links EXCEPT ![name] = x]
  BY DEF Makes
<1>2. /\ r.loaded /\ Named(r, links) /\ Mending(r, files, links) /\ RunNames(r, links)
      /\ RunSound(r) /\ RunBooks(r, lockfile) /\ lockfile' = lockfile /\ files' = files
      /\ r.work.link[x] # Absent
  BY <1>1, RunOf DEF Repairs, Names, Books, RunSound, Sound, Link
<1>3. links'[name] = x /\ \A n \in Links : n # name => links'[n] = links[n]
  BY <1>1 DEF IInv, TypeOK
<1>4. \A n : ToGo(r.todo, n) <=> ToGo(rest, n)
  BY <1>1 DEF ToGo
<1>5. \A a, do : do # "link" \/ a # x => (Pending(r.todo, do, a) <=> Pending(rest, do, a))
  BY <1>1 DEF Pending
<1>6. \A a : a # x => (a \in ToName(r.todo) <=> a \in ToName(rest))
  BY <1>1 DEF ToName
<1>7. /\ x.package \in Packages /\ Meets(t, intent, lockfile, r.work, r.cmd.dir)
      /\ intent \in Intents /\ intent \notin {None, Mixed, Damaged}
  BY <1>1, IntentOf
<1>8. \A old : \A q \in Packages :
          /\ IfCut(s, old, q) = IfCut(r, old, q)
          /\ IfDone(s, old, q) = IfDone(r, old, q)
  BY <1>1 DEF IfCut, IfDone, Untouched
<1>9. \A q \in Packages : RunExplains(r, q, lockfile, cut[q], files, links)
  BY <1>1 DEF Explains
<1> QED
  BY <1>1, <1>2, <1>3, <1>4, <1>5, <1>6, <1>7, <1>8, <1>9 DEF Making

\* A new symlink is nobody else's.
LEMMA MakesFreed ==
    ASSUME IInv, NEW r, NEW s, NEW x \in Catalog, s.touched = r.touched, NEW where, NEW now,
           \A n \in Links : now[n] \in {x, where[n]}, \A n : ToGo(r.todo, n) <=> ToGo(s.todo, n),
           NEW q, NEW l, OldNamesFreed(r, q, l, where)
    PROVE  OldNamesFreed(s, q, l, now)
BY ValuesAssumption DEF OldNamesFreed

\* A repair makes a symlink the lockfile records.
LEMMA RepairLinkExplains ==
    ASSUME OneProcess, IInv, Repairs, Names, Books, Explains, NEW c \in Procs, Link(c), NEW t,
           NEW name, NEW s, Makes(c, t, name, s), t.at # None
    PROVE  Explains'
<1> DEFINE r == run[c]
           x == t.asset
           intent == r.touched[x.package]
           rest == r.todo \ {t}
<1>0. Making(c, t, name, s, intent, x, rest)
  BY MakesFacts
<1>1. /\ r # None /\ r.loaded /\ t \in r.todo /\ t.do = "link"
      /\ x \in Catalog /\ x.package \in Packages /\ name \in Links
      /\ Meets(t, intent, lockfile, r.work, r.cmd.dir)
      /\ s # None /\ s.loaded /\ s.cmd = r.cmd /\ s.touched = r.touched
      /\ s.todo = rest /\ run' = [run EXCEPT ![c] = s]
      /\ lockfile' = lockfile /\ files' = files
      /\ \A a \in Catalog : s.work.link[a] = IF a = x THEN name ELSE r.work.link[a]
      /\ links'[name] = x /\ \A n \in Links : n # name => links'[n] = links[n]
      /\ Named(r, links) /\ Mending(r, files, links) /\ RunBooks(r, lockfile)
      /\ \A n : ToGo(r.todo, n) <=> ToGo(rest, n)
      /\ \A a, do : do # "link" \/ a # x => (Pending(r.todo, do, a) <=> Pending(rest, do, a))
      /\ \A old : \A q \in Packages :
             /\ IfCut(s, old, q) = IfCut(r, old, q) /\ IfDone(s, old, q) = IfDone(r, old, q)
      /\ \A q \in Packages : RunExplains(r, q, lockfile, cut[q], files, links)
  BY <1>0 DEF Making
<1>2. /\ name = t.at /\ name = r.work.link[x] /\ ToName(r.todo) = {} /\ ToName(rest) = {}
      /\ Distinct(r.work, {})
  <2>1. name = t.at /\ name = r.work.link[x] /\ \A u \in r.todo : u.do = "link" /\ u.at \in Links
    BY <1>1 DEF Named, Mending, Makes
  <2>2. ToName(r.todo) = {} /\ ToName(rest) = {}
    BY <2>1, ValuesAssumption DEF ToName
  <2> QED
    BY <1>1, <2>1, <2>2 DEF Named
<1>3. cut' = cut
  BY <1>2 DEF Makes, Outdated
<1>4. lockfile.link[x] = name
  <2>1. intent.kind = "repair"
    BY <1>1 DEF Meets
  <2>2. Untouched(r, x.package)
    BY <2>1 DEF Untouched
  <2>3. r.work.link[x] = lockfile.link[x]
    BY <1>1, <2>2 DEF RunBooks
  <2> QED
    BY <1>2, <2>3
<1>5. \A a \in Catalog : s.work.link[a] = r.work.link[a]
  BY <1>1, <1>2, ZenonT(60)
<1>6. \A n \in Links : links'[n] \in {x, links[n]}
  BY <1>1
<1> HIDE DEF rest, x, r
<1>7. ASSUME NEW q \in Packages
      PROVE  RunExplains(s, q, lockfile', cut'[q], files', links')
  <2> DEFINE now == IfCut(r, cut[q], q)
             done == IfDone(r, cut[q], q)
  <2>1. /\ Explained(q, lockfile, {}, None, now, files, links)
        /\ Explained(q, r.work, r.todo, r.cmd.dir, done, files, links)
        /\ OldNamesFreed(r, q, lockfile, links)
    BY <1>1 DEF RunExplains
  <2>2. OldNamesFreed(s, q, lockfile, links')
    BY <1>1, <1>6, <2>1, MakesFreed
  <2>3. Explained(q, lockfile, {}, None, now, files, links')
    <3> SUFFICES ASSUME now # Mixed, NEW a \in Catalog, a.package = q, NEW n \in Links
                 PROVE  LinkExplained(lockfile, {}, None, now, n, a, links')
      BY <2>1 DEF Explained
    <3>1. LinkExplained(lockfile, {}, None, now, n, a, links)
      BY <2>1 DEF Explained
    <3>2. CASE n # name
      <4>1. Lasts(lockfile, {}, n, a, links) => Lasts(lockfile, {}, n, a, links')
        BY <1>1, <1>4, LinkFields, PlainType DEF Lasts, Blocked
      <4> QED
        BY <1>1, <3>1, <3>2, <4>1 DEF LinkExplained
    <3>3. CASE n = name
      <4>1. lockfile.link[a] = n => a = x
        BY <1>1, <1>4, <3>3 DEF Repairs, Distinct
      <4> QED
        BY <1>1, <1>4, <3>3, <4>1 DEF LinkExplained
    <3> QED
      BY <3>2, <3>3
  <2>4. Explained(q, s.work, rest, r.cmd.dir, done, files, links')
    <3> SUFFICES ASSUME done # Mixed, NEW a \in Catalog, a.package = q
                 PROVE  /\ FileExplained(s.work, rest, done, a, files)
                        /\ \A n \in Links :
                               LinkExplained(s.work, rest, r.cmd.dir, done, n, a, links')
      BY DEF Explained
    <3>1. /\ FileExplained(r.work, r.todo, done, a, files)
          /\ \A n \in Links : LinkExplained(r.work, r.todo, r.cmd.dir, done, n, a, links)
      BY <2>1 DEF Explained
    <3>2. FileExplained(s.work, rest, done, a, files)
      BY <1>1, <1>5, <3>1 DEF FileExplained
    <3>3. ASSUME NEW n \in Links
          PROVE  LinkExplained(s.work, rest, r.cmd.dir, done, n, a, links')
      <4>1. LinkExplained(r.work, r.todo, r.cmd.dir, done, n, a, links)
        BY <3>1
      <4>2. CASE n = name
        <5>1. r.work.link[a] = n => a = x
          BY <1>1, <1>2, <4>2 DEF Distinct
        <5> QED
          BY <1>1, <1>2, <1>5, <4>2, <5>1 DEF LinkExplained
      <4>3. CASE n # name
        <5>1. Lasts(r.work, r.todo, n, a, links) => Lasts(s.work, rest, n, a, links')
          BY <1>1, <1>2, <1>5, LinkFields, PlainType DEF Lasts, Blocked
        <5>2. r.work.link[a] = n => a # x
          BY <1>2, <4>3
        <5> QED
          BY <1>1, <1>2, <1>5, <4>1, <4>3, <5>1, <5>2 DEF LinkExplained
      <4> QED
        BY <4>2, <4>3
    <3> QED
      BY <3>2, <3>3
  <2> QED
    BY <1>1, <1>3, <2>2, <2>3, <2>4 DEF RunExplains
<1> QED
  BY <1>1, <1>7, RunExplainsStep

\* An activation makes a symlink: what holds of its name.
LEMMA NewLinkFacts ==
    ASSUME BytesTellApart, IInv, Repairs, Names, Books, Explains, NEW c \in Procs, Link(c), NEW t,
           NEW name, NEW s, Makes(c, t, name, s), t.at = None, NEW x, x = t.asset,
           NEW intent, intent = run[c].touched[x.package],
           NEW dir, dir = run[c].cmd.dir, NEW rest, rest = run[c].todo \ {t}
    PROVE  /\ dir \in Dirs /\ name.dir = dir /\ name.package = x.package /\ name.base = x.base
           /\ name.sha \in {None, x.sha} /\ Fits(name, x)
           /\ \/ links[Plain(dir, x)] \in {None, x} /\ name = Plain(dir, x)
              \/ links[Plain(dir, x)] \notin {None, x} /\ name.sha = x.sha /\ x.sha # None
           /\ \A n \in Links : n.sha = None /\ links[n] = Foreign => n # name
           /\ \A n : ~ToGo(run[c].todo, n) /\ ~ToGo(rest, n)
           /\ intent.kind \in {"install", "activate"} /\ intent.keys = {x.key}
           /\ intent.dir = dir
           /\ \A b \in Catalog : run[c].work.link[b] = name /\ b # x => b \in ToName(rest)
<1> DEFINE r == run[c]
<1>1. /\ t \in Ready(c, "link") /\ name = SymlinkPath(dir, x) /\ dir \in Dirs
  BY DEF Makes
<1>0. Making(c, t, name, s, intent, x, rest)
  BY MakesFacts
<1>2. /\ r # None /\ t \in r.todo /\ t.do = "link" /\ x \in Catalog /\ name \in Links
      /\ Meets(t, intent, lockfile, r.work, dir) /\ Named(r, links)
      /\ \A a : a # x => (a \in ToName(r.todo) <=> a \in ToName(rest))
  BY <1>0 DEF Making
<1>3. /\ name.dir = dir /\ name.package = x.package /\ name.base = x.base
      /\ \/ links[Plain(dir, x)] \in {None, x} /\ name = Plain(dir, x)
         \/ links[Plain(dir, x)] \notin {None, x} /\ name.sha = x.sha /\ x.sha # None
  BY <1>1, <1>2, SymlinkPathNames DEF BytesTellApart
<1>4. Fits(name, x)
  BY <1>1, <1>2, NewNameFits
<1>5. \A u \in r.todo : u.do # "unlink"
  BY <1>1, <1>2, ReadyLink
<1>6. \A n : ~ToGo(r.todo, n) /\ ~ToGo(rest, n)
  BY <1>5 DEF ToGo
<1>7. /\ intent.kind \in {"install", "activate"} /\ intent.keys = {x.key}
      /\ intent.dir = dir
  BY <1>2 DEF Meets
<1>8. r.work \in Lockfiles /\ r.todo \in SUBSET Ops
  BY <1>2, RunOf
<1>9. \A b \in Catalog : r.work.link[b] = name /\ b # x => b \in ToName(rest)
  BY <1>1, <1>2, <1>8, NewName DEF Named
<1>10. name.sha \in {None, x.sha}
  BY <1>4 DEF Fits
<1>11. \A n \in Links : n.sha = None /\ links[n] = Foreign => n # name
  BY <1>2, <1>3, ValuesAssumption
<1> QED
  BY <1>1, <1>3, <1>4, <1>6, <1>7, <1>9, <1>10, <1>11

\* It takes no name from somebody else that an earlier symlink did without.
LEMMA StillBlocked ==
    ASSUME NEW name \in Links, \A n \in Links : n.sha = None /\ links[n] = Foreign => n # name,
           \A n \in Links : n # name => links'[n] = links[n],
           NEW l, NEW m, \A b \in Catalog : m.link[b] \in {l.link[b], name},
           NEW todo, NEW rest, \A n : ToGo(rest, n) => ToGo(todo, n),
           NEW n \in Links, NEW a \in Catalog, Lasts(l, todo, n, a, links)
    PROVE  Lasts(m, rest, n, a, links')
<1>1. Plain(n.dir, a) \in Links /\ Plain(n.dir, a).sha = None
  BY LinkFields, PlainType
<1>2. SUFFICES ASSUME Blocked(l, todo, n.dir, a, links)
               PROVE  Blocked(m, rest, n.dir, a, links')
  BY DEF Lasts
<1>3. links[Plain(n.dir, a)] = Foreign /\ Plain(n.dir, a) # name
  BY <1>1, <1>2 DEF Blocked
<1> QED
  BY <1>1, <1>2, <1>3 DEF Blocked

\* Packages other than the one of the symlink.
LEMMA NewLinkOther ==
    ASSUME BytesTellApart, IInv, Repairs, Names, Books, Explains, NEW c \in Procs, Link(c), NEW t,
           NEW name, NEW s, Makes(c, t, name, s), t.at = None, NEW q \in Packages,
           q # t.asset.package
    PROVE  RunExplains(s, q, lockfile', cut'[q], files', links')
<1> DEFINE r == run[c]
           x == t.asset
           intent == r.touched[x.package]
           dir == r.cmd.dir
           rest == r.todo \ {t}
           now == IfCut(r, cut[q], q)
           done == IfDone(r, cut[q], q)
<1>0. Making(c, t, name, s, intent, x, rest)
  BY MakesFacts
<1>1. /\ r # None /\ r.loaded /\ t \in r.todo /\ t.do = "link"
      /\ x \in Catalog /\ x.package \in Packages /\ name \in Links
      /\ Meets(t, intent, lockfile, r.work, dir)
      /\ s # None /\ s.loaded /\ s.cmd = r.cmd /\ s.touched = r.touched
      /\ s.todo = rest /\ run' = [run EXCEPT ![c] = s]
      /\ lockfile' = lockfile /\ files' = files
      /\ \A a \in Catalog : s.work.link[a] = IF a = x THEN name ELSE r.work.link[a]
      /\ links'[name] = x /\ \A n \in Links : n # name => links'[n] = links[n]
      /\ Named(r, links)
      /\ \A n : ToGo(r.todo, n) <=> ToGo(rest, n)
      /\ \A a, do : do # "link" \/ a # x => (Pending(r.todo, do, a) <=> Pending(rest, do, a))
      /\ \A a : a # x => (a \in ToName(r.todo) <=> a \in ToName(rest))
      /\ \A old : \A p \in Packages :
             /\ IfCut(s, old, p) = IfCut(r, old, p) /\ IfDone(s, old, p) = IfDone(r, old, p)
      /\ \A p \in Packages : RunExplains(r, p, lockfile, cut[p], files, links)
  BY <1>0 DEF Making
<1>2. /\ name.package = x.package /\ intent.dir = dir /\ \A n : ~ToGo(rest, n)
      /\ \A n \in Links : n.sha = None /\ links[n] = Foreign => n # name
  BY NewLinkFacts, SMTT(40)
<1>3. cut'[q] = cut[q]
  BY DEF Makes, IInv, TypeOK
<1>4. /\ \A n \in Links : links'[n] \in {x, links[n]}
      /\ \A b \in Catalog : s.work.link[b] \in {r.work.link[b], name}
  BY <1>1
<1>5. /\ \A a \in Catalog : a.package = q => a # x
      /\ \A a \in Catalog : a.package = q => lockfile.link[a] # name /\ r.work.link[a] # name
  <2>1. \A a \in Catalog : a.package = q => a # x
    BY <1>2
  <2>2. Shaped(lockfile) /\ Shaped(r.work)
    BY <1>1 DEF Repairs, Named
  <2>3. name \in Links /\ name.package # q
    BY <1>1, <1>2
  <2>4. ASSUME NEW l, Shaped(l), NEW a \in Catalog, a.package = q
        PROVE  l.link[a] # name
    BY <2>3, <2>4 DEF Shaped
  <2> QED
    BY <2>1, <2>2, <2>4
<1> HIDE DEF rest, x, r, now, done, intent, dir
<1>6. /\ Explained(q, lockfile, {}, None, now, files, links)
      /\ Explained(q, r.work, r.todo, r.cmd.dir, done, files, links)
      /\ OldNamesFreed(r, q, lockfile, links)
  BY <1>1 DEF RunExplains, now, done
<1>7. OldNamesFreed(s, q, lockfile, links')
  BY <1>1, <1>4, <1>6, MakesFreed
<1>8. Explained(q, lockfile, {}, None, now, files, links')
  <2> SUFFICES ASSUME now # Mixed, NEW a \in Catalog, a.package = q, NEW n \in Links
               PROVE  LinkExplained(lockfile, {}, None, now, n, a, links')
    BY <1>6 DEF Explained
  <2>1. LinkExplained(lockfile, {}, None, now, n, a, links)
    BY <1>6 DEF Explained
  <2>2. Lasts(lockfile, {}, n, a, links) => Lasts(lockfile, {}, n, a, links')
    BY <1>1, <1>2, StillBlocked
  <2>3. links'[n] = a => links[n] = a
    BY <1>1, <1>5
  <2>4. lockfile.link[a] = n => links'[n] = links[n]
    BY <1>1, <1>5
  <2> QED
    BY <2>1, <2>2, <2>3, <2>4 DEF LinkExplained
<1>9. Explained(q, s.work, rest, r.cmd.dir, done, files, links')
  <2> SUFFICES ASSUME done # Mixed, NEW a \in Catalog, a.package = q
               PROVE  /\ FileExplained(s.work, rest, done, a, files)
                      /\ \A n \in Links :
                             LinkExplained(s.work, rest, r.cmd.dir, done, n, a, links')
    BY DEF Explained
  <2>1. /\ FileExplained(r.work, r.todo, done, a, files)
        /\ \A n \in Links : LinkExplained(r.work, r.todo, r.cmd.dir, done, n, a, links)
    BY <1>6 DEF Explained
  <2>2. a # x /\ s.work.link[a] = r.work.link[a]
    BY <1>1, <1>5
  <2>3. FileExplained(s.work, rest, done, a, files)
    BY <1>1, <2>1, <2>2 DEF FileExplained
  <2>4. ASSUME NEW n \in Links
        PROVE  LinkExplained(s.work, rest, r.cmd.dir, done, n, a, links')
    <3>1. LinkExplained(r.work, r.todo, r.cmd.dir, done, n, a, links)
      BY <2>1
    <3>2. Lasts(r.work, r.todo, n, a, links) => Lasts(s.work, rest, n, a, links')
      BY <1>1, <1>2, <1>4, StillBlocked
    <3>3. links'[n] = a => links[n] = a
      BY <1>1, <2>2
    <3>4. r.work.link[a] = n => links'[n] = links[n]
      BY <1>1, <1>5
    <3> QED
      BY <1>1, <2>2, <3>1, <3>2, <3>3, <3>4 DEF LinkExplained
  <2> QED
    BY <2>3, <2>4
<1> QED
  BY <1>1, <1>3, <1>7, <1>8, <1>9 DEF RunExplains, now, done

\* If nothing else is left over, the first asset of a version finds its plain name taken only
\* by somebody else.
LEMMA TakenByForeign ==
    ASSUME BytesTellApart, PathsTellApart, IInv, Repairs, Names, Books, Explains, NEW c \in Procs,
           Link(c), NEW t, NEW name, NEW s, Makes(c, t, name, s), t.at = None, NEW x, x = t.asset,
           NEW p, p = x.package, NEW intent, intent = run[c].touched[p],
           IfCut(run[c], cut[p], p) = intent, IfDone(run[c], cut[p], p) = None,
           NEW plain, plain = Plain(run[c].cmd.dir, x), First(x), links[plain] \notin {None, x}
    PROVE  links[plain] = Foreign /\ \A b \in Catalog : lockfile.link[b] # plain
<1> DEFINE r == run[c]
           dir == r.cmd.dir
           rest == r.todo \ {t}
<1>1. Making(c, t, name, s, intent, x, rest)
  BY MakesFacts
<1>2. /\ dir \in Dirs /\ intent.kind \in {"install", "activate"} /\ intent.keys = {x.key}
      /\ intent.dir = dir /\ \A n : ~ToGo(r.todo, n) /\ ~ToGo(rest, n)
  <2>1. intent = run[c].touched[x.package] /\ dir = run[c].cmd.dir /\ rest = run[c].todo \ {t}
    OBVIOUS
  <2> HIDE DEF dir, rest
  <2> QED
    BY <2>1, NewLinkFacts DEF r
<1>3. /\ r # None /\ r.loaded /\ t \in r.todo /\ t.do = "link" /\ x \in Catalog
      /\ p \in Packages /\ intent \in Intents /\ intent \notin {None, Mixed, Damaged}
      /\ Named(r, links) /\ RunSound(r)
      /\ RunExplains(r, p, lockfile, cut[p], files, links)
  BY <1>1 DEF Making
<1>4. /\ plain \in Links /\ plain.dir = dir /\ plain.package = p /\ plain.base = x.base
      /\ plain.sha = None
  BY <1>2, <1>3, PlainType
<1>5. \A b \in Catalog : Fits(plain, b) => b.package = p /\ (b.key = x.key => b = x)
  <2> SUFFICES ASSUME NEW b \in Catalog, Fits(plain, b), b.key = x.key PROVE b = x
    BY <1>4 DEF Fits
  <2>1. Alike(x, b) /\ First(b)
    BY <1>4 DEF Fits, Alike
  <2> QED
    BY <1>3, <2>1, FirstIsOne
<1>6. /\ Explained(p, lockfile, {}, None, intent, files, links)
      /\ Explained(p, r.work, r.todo, dir, None, files, links)
      /\ OldNamesFreed(r, p, lockfile, links)
  BY <1>3 DEF RunExplains
<1> HIDE DEF r, dir, rest
<1>7. links[plain] = Foreign
  <2> SUFFICES ASSUME NEW b \in Catalog, links[plain] = b, b # x PROVE FALSE
    BY <1>4 DEF IInv, TypeOK
  <2>1. b.package = p /\ b.key # x.key
    BY <1>4, <1>5 DEF Names
  <2>2. LinkExplained(r.work, r.todo, dir, None, plain, b, links)
    BY <1>4, <1>6, <2>1, ValuesAssumption DEF Explained
  <2>3. CASE r.work.link[b] = plain
    <3>1. r.work \in Lockfiles
      BY <1>3, RunOf DEF r
    <3>2. b \in ActiveAssets(r.work, p)
      BY <1>3, <1>4, <2>1, <2>3, <3>1, ActiveMeansLinked
    <3> QED
      BY <1>3, <2>1, <3>2 DEF Named, Activating
  <2>4. CASE r.work.link[b] # plain
    <3>1. b \in ToName(r.todo)
      BY <1>2, <2>2, <2>4, ValuesAssumption DEF LinkExplained, MayBeLeft
    <3>2. PICK u \in r.todo : u.do = "link" /\ u.asset = b
      BY <3>1, ToNameOf
    <3> QED
      BY <1>3, <2>1, <3>2 DEF RunSound, Sound
  <2> QED
    BY <2>3, <2>4
<1>8. ASSUME NEW b \in Catalog, lockfile.link[b] = plain PROVE FALSE
  <2>1. Fits(plain, b)
    BY <1>4, <1>8 DEF Names, Fitting
  <2>2. CASE b.key # x.key
    BY <1>2, <1>3, <1>4, <1>5, <1>6, <1>7, <1>8, <2>1, <2>2, ZenonT(60) DEF OldNamesFreed, r
  <2>3. CASE b = x
    <3>1. LinkExplained(lockfile, {}, None, intent, plain, x, links)
      BY <1>3, <1>4, <1>6 DEF Explained
    <3>2. MayBeGone(intent, plain, x)
      BY <1>8, <2>3, <3>1 DEF LinkExplained, Pending
    <3> QED
      BY <1>2, <1>3, <3>2 DEF MayBeGone
  <2> QED
    BY <1>5, <2>1, <2>2, <2>3
<1> QED
  BY <1>7, <1>8

\* The package of the symlink, if the command stops now.
LEMMA NewLinkCut ==
    ASSUME BytesTellApart, PathsTellApart, IInv, Repairs, Names, Books, Explains, NEW c \in Procs,
           Link(c), NEW t, NEW name, NEW s, Makes(c, t, name, s), t.at = None, NEW p,
           p = t.asset.package, NEW now, now = IfCut(run[c], cut[p], p)
    PROVE  Explained(p, lockfile, {}, None, now, files, links')
<1> DEFINE r == run[c]
           dir == r.cmd.dir
           x == t.asset
           intent == r.touched[p]
           rest == r.todo \ {t}
<1>1. Making(c, t, name, s, intent, x, rest)
  BY MakesFacts
<1>2. /\ dir \in Dirs /\ name.dir = dir /\ Fits(name, x)
      /\ \/ links[Plain(dir, x)] \in {None, x} /\ name = Plain(dir, x)
         \/ links[Plain(dir, x)] \notin {None, x} /\ name.sha = x.sha /\ x.sha # None
      /\ \A n \in Links : n.sha = None /\ links[n] = Foreign => n # name
      /\ \A n : ~ToGo(r.todo, n) /\ ~ToGo(rest, n)
      /\ intent.kind \in {"install", "activate"} /\ intent.keys = {x.key} /\ intent.dir = dir
  <2>1. /\ x = t.asset /\ intent = run[c].touched[x.package] /\ dir = run[c].cmd.dir
        /\ rest = run[c].todo \ {t}
    OBVIOUS
  <2> HIDE DEF dir, rest, x, intent
  <2> QED
    BY <2>1, NewLinkFacts DEF r
<1>3. /\ r # None /\ r.loaded /\ x \in Catalog /\ p \in Packages /\ name \in Links
      /\ intent \in Intents /\ intent \notin {None, Mixed, Damaged}
      /\ links'[name] = x /\ \A n \in Links : n # name => links'[n] = links[n]
      /\ RunExplains(r, p, lockfile, cut[p], files, links)
  BY <1>1 DEF Making
<1> SUFFICES ASSUME now # Mixed PROVE Explained(p, lockfile, {}, None, now, files, links')
  BY DEF Explained
<1>4. now = intent /\ cut[p] \in {None, intent}
  <2>1. intent.kind # "repair"
    BY <1>2
  <2> QED
    BY <1>3, <2>1, IfCutOf
<1>5. IfDone(r, cut[p], p) = None
  BY <1>2, <1>3, <1>4 DEF IfDone
<1>6. Explained(p, lockfile, {}, None, intent, files, links)
  BY <1>3, <1>4 DEF RunExplains
<1> HIDE DEF intent, rest, x, dir, r
<1>7. ASSUME NEW a \in Catalog, a.package = p, NEW n \in Links
      PROVE  LinkExplained(lockfile, {}, None, intent, n, a, links')
  <2>1. LinkExplained(lockfile, {}, None, intent, n, a, links)
    BY <1>3, <1>6, <1>7 DEF Explained
  <2>2. CASE n # name
    <3>1. Lasts(lockfile, {}, n, a, links) => Lasts(lockfile, {}, n, a, links')
      BY <1>2, <1>3, StillBlocked
    <3> QED
      BY <1>3, <2>1, <2>2, <3>1 DEF LinkExplained
  <2>3. CASE n = name /\ lockfile.link[a] = n
    <3>1. Fits(name, a)
      BY <2>3 DEF Names, Fitting
    <3>2. a = x \/ a.key # x.key
      BY <1>2, <1>3, <3>1, NameIsOne
    <3>3. a.key # x.key => MayBeGone(intent, n, a)
      BY <1>2, <1>3, <2>3 DEF MayBeGone
    <3> QED
      BY <1>3, <2>3, <3>2, <3>3 DEF LinkExplained
  <2>4. CASE n = name /\ lockfile.link[a] # n /\ a = x
    <3>1. MayBeLeft(intent, n, x)
      BY <1>2, <1>3, <2>4 DEF MayBeLeft
    <3>2. Lasts(lockfile, {}, n, x, links')
      <4>1. CASE n.sha = None \/ ~First(x)
        BY <4>1 DEF Lasts
      <4>2. CASE n.sha # None /\ First(x)
        <5> DEFINE plain == Plain(dir, x)
        <5>1. plain \in Links /\ plain.sha = None
          BY <1>2, <1>3, PlainType
        <5>2. links[plain] \notin {None, x} /\ plain # name
          BY <1>2, <2>4, <4>2, <5>1
        <5>3. links[plain] = Foreign /\ \A b \in Catalog : lockfile.link[b] # plain
          <6>1. /\ x = t.asset /\ p = x.package /\ intent = run[c].touched[p]
                /\ IfCut(run[c], cut[p], p) = intent /\ IfDone(run[c], cut[p], p) = None
                /\ plain = Plain(run[c].cmd.dir, x)
            BY <1>4, <1>5 DEF intent, r, x, dir
          <6> HIDE DEF plain
          <6> QED
            BY <4>2, <5>2, <6>1, TakenByForeign
        <5>4. links'[plain] = Foreign
          BY <1>3, <5>1, <5>2, <5>3
        <5> QED
          BY <1>2, <2>4, <5>3, <5>4 DEF Lasts, Blocked, ToGo
      <4> QED
        BY <4>1, <4>2
    <3> QED
      BY <2>4, <3>1, <3>2 DEF LinkExplained
  <2>5. CASE n = name /\ lockfile.link[a] # n /\ a # x
    BY <1>3, <2>5 DEF LinkExplained
  <2> QED
    BY <2>2, <2>3, <2>4, <2>5
<1>8. \A a \in Catalog : a.package = p => FileExplained(lockfile, {}, intent, a, files)
  BY <1>3, <1>6 DEF Explained
<1> QED
  BY <1>4, <1>7, <1>8 DEF Explained

\* A symlink of an earlier attempt of the same activation that would be made again, and is
\* not: it has the name found now.
LEMMA MadeAgain ==
    ASSUME IInv, Names, NEW x \in Catalog, NEW dir \in Dirs, NEW name \in Links,
           name.dir = dir, name.package = x.package, name.base = x.base, Fits(name, x),
           \/ links[Plain(dir, x)] \in {None, x} /\ name = Plain(dir, x)
           \/ links[Plain(dir, x)] \notin {None, x} /\ name.sha = x.sha /\ x.sha # None,
           NEW n \in Links, links[n] = x, n.dir = dir, NEW l, NEW todo, Lasts(l, todo, n, x, links)
    PROVE  n = name
<1>1. /\ Fits(n, x) /\ n.package = x.package /\ n.base = x.base /\ n.sha \in {None, x.sha}
  BY DEF Names, Fits
<1>2. CASE n.sha = None
  <2>1. n = Plain(dir, x)
    BY <1>1, <1>2, FitsPlain
  <2> QED
    BY <2>1
<1>3. CASE n.sha # None
  <2>1. name.sha = x.sha
    BY <1>3, PlainType, ValuesAssumption DEF Lasts, Blocked, Fits
  <2> QED
    BY <1>1, <1>3, <2>1, SameLink
<1> QED
  BY <1>2, <1>3

\* The package of the symlink, when the command gets to its end.
LEMMA NewLinkDone ==
    ASSUME BytesTellApart, IInv, Repairs, Names, Books, Explains, NEW c \in Procs,
           Link(c), NEW t, NEW name, NEW s, Makes(c, t, name, s), t.at = None, NEW p,
           p = t.asset.package, NEW done, done = IfDone(run[c], cut[p], p),
           ~Outdated(run[c].work, t.asset, name)
    PROVE  Explained(p, s.work, s.todo, s.cmd.dir, done, files, links')
<1> DEFINE r == run[c]
           dir == r.cmd.dir
           x == t.asset
           intent == r.touched[p]
           rest == r.todo \ {t}
<1>1. Making(c, t, name, s, intent, x, rest)
  BY MakesFacts
<1>2. /\ dir \in Dirs /\ name.dir = dir /\ name.package = x.package /\ name.base = x.base
      /\ Fits(name, x)
      /\ \/ links[Plain(dir, x)] \in {None, x} /\ name = Plain(dir, x)
         \/ links[Plain(dir, x)] \notin {None, x} /\ name.sha = x.sha /\ x.sha # None
      /\ \A n \in Links : n.sha = None /\ links[n] = Foreign => n # name
      /\ \A n : ~ToGo(r.todo, n) /\ ~ToGo(rest, n)
      /\ intent.dir = dir
      /\ \A b \in Catalog : r.work.link[b] = name /\ b # x => b \in ToName(rest)
  BY <1>1, NewLinkFacts
<1>3. /\ r # None /\ r.loaded /\ x \in Catalog /\ p \in Packages /\ name \in Links
      /\ \A a \in Catalog : s.work.link[a] = IF a = x THEN name ELSE r.work.link[a]
      /\ links'[name] = x /\ \A n \in Links : n # name => links'[n] = links[n]
      /\ s.todo = rest /\ s.cmd = r.cmd /\ r.work.link[x] # Absent
      /\ \A a, do : do # "link" \/ a # x => (Pending(r.todo, do, a) <=> Pending(rest, do, a))
      /\ \A a : a # x => (a \in ToName(r.todo) <=> a \in ToName(rest))
      /\ RunExplains(r, p, lockfile, cut[p], files, links)
  BY <1>1 DEF Making
<1>4. Explained(p, r.work, r.todo, dir, done, files, links)
  BY <1>3 DEF RunExplains
<1>5. /\ \A b \in Catalog : s.work.link[b] \in {r.work.link[b], name}
      /\ \A n : ToGo(rest, n) => ToGo(r.todo, n)
  BY <1>2, <1>3
<1>6. \A n \in Links : r.work.link[x] = n /\ n # name => links[n] # x
  BY DEF Outdated
<1>7. \A b : b \in ToName(rest) => Pending(rest, "link", b)
  BY DEF ToName, Pending
<1>8. name # Absent
  BY <1>3, ValuesAssumption
<1> HIDE DEF intent, rest, x, dir, r
<1> SUFFICES ASSUME done # Mixed, NEW a \in Catalog, a.package = p
             PROVE  /\ FileExplained(s.work, rest, done, a, files)
                    /\ \A n \in Links : LinkExplained(s.work, rest, dir, done, n, a, links')
  BY <1>3 DEF Explained, dir
<1>9. /\ FileExplained(r.work, r.todo, done, a, files)
      /\ \A n \in Links : LinkExplained(r.work, r.todo, dir, done, n, a, links)
  BY <1>4 DEF Explained
<1>10. FileExplained(s.work, rest, done, a, files)
  <2>1. s.work.link[a] = Absent <=> r.work.link[a] = Absent
    BY <1>3, <1>8
  <2> QED
    BY <1>3, <1>9, <2>1 DEF FileExplained
<1>11. ASSUME NEW n \in Links
       PROVE  LinkExplained(s.work, rest, dir, done, n, a, links')
  <2>1. LinkExplained(r.work, r.todo, dir, done, n, a, links)
    BY <1>9
  <2>2. Lasts(r.work, r.todo, n, a, links) => Lasts(s.work, rest, n, a, links')
    BY <1>2, <1>3, <1>5, StillBlocked
  <2>3. CASE n = name
    BY <1>2, <1>3, <1>7, <2>3 DEF LinkExplained
  <2>4. CASE n # name /\ a # x
    BY <1>2, <1>3, <2>1, <2>2, <2>4 DEF LinkExplained
  <2>5. CASE n # name /\ a = x /\ links[n] = x
    <3>1. r.work.link[x] # n
      BY <1>6, <2>5
    <3>2. /\ (x \in ToName(r.todo) /\ n.dir = dir) \/ MayBeLeft(done, n, x)
          /\ Lasts(r.work, r.todo, n, x, links)
      BY <1>2, <2>1, <2>5, <3>1 DEF LinkExplained
    <3>3. n.dir # dir
      BY <1>2, <1>3, <2>5, <3>2, MadeAgain
    <3> QED
      BY <1>3, <2>2, <2>5, <3>2, <3>3 DEF LinkExplained
  <2>6. CASE n # name /\ a = x /\ links[n] # x
    BY <1>3, <2>6 DEF LinkExplained
  <2> QED
    BY <2>3, <2>4, <2>5, <2>6
<1> QED
  BY <1>10, <1>11

LEMMA LinkStepExplains ==
    ASSUME OneProcess, BytesTellApart, PathsTellApart, IInv, Repairs, Names, Books, Explains,
           NEW c \in Procs, Link(c)
    PROVE  Explains'
<1>1. PICK t, name, s : Makes(c, t, name, s)
  BY LinkFacts
<1>2. CASE t.at # None
  BY <1>1, <1>2, RepairLinkExplains
<1>3. CASE t.at = None
  <2> DEFINE r == run[c]
             x == t.asset
             p == x.package
             intent == r.touched[p]
             rest == r.todo \ {t}
  <2>1. Making(c, t, name, s, intent, x, rest)
    BY <1>1, MakesFacts
  <2>2. /\ s # None /\ s.loaded /\ s.touched = r.touched /\ run' = [run EXCEPT ![c] = s]
        /\ x \in Catalog /\ p \in Packages /\ intent \in Intents
        /\ lockfile' = lockfile /\ files' = files /\ s.todo = rest
        /\ links'[name] = x /\ \A n \in Links : n # name => links'[n] = links[n]
        /\ \A n : ToGo(r.todo, n) <=> ToGo(rest, n)
        /\ \A old : \A q \in Packages :
               /\ IfCut(s, old, q) = IfCut(r, old, q) /\ IfDone(s, old, q) = IfDone(r, old, q)
        /\ r.loaded /\ RunExplains(r, p, lockfile, cut[p], files, links)
    BY <2>1 DEF Making
  <2> HIDE DEF intent, rest, r
  <2>3. \A q \in Packages : q # p => RunExplains(s, q, lockfile', cut'[q], files', links')
    BY <1>1, <1>3, NewLinkOther
  <2>4. OldNamesFreed(s, p, lockfile, links')
    <3>1. \A n \in Links : links'[n] \in {x, links[n]}
      BY <2>2
    <3>2. OldNamesFreed(r, p, lockfile, links)
      BY <2>2 DEF RunExplains
    <3> QED
      BY <2>2, <3>1, <3>2, MakesFreed
  <2>5. CASE Outdated(r.work, x, name)
    <3>1. cut'[p] = Mixed
      BY <1>1, <2>2, <2>5 DEF Makes, IInv, TypeOK, r
    <3>2. IfCut(s, Mixed, p) = Mixed /\ IfDone(s, Mixed, p) = Mixed
      BY <2>2, ValuesAssumption DEF IfCut, IfDone, Untouched, Onto, intent
    <3>3. RunExplains(s, p, lockfile', cut'[p], files', links')
      BY <2>2, <2>4, <3>1, <3>2 DEF RunExplains, Explained
    <3> QED
      BY <2>2, <2>3, <3>3, RunExplainsStep
  <2>6. CASE ~Outdated(r.work, x, name)
    <3>1. cut' = cut
      BY <1>1, <2>6 DEF Makes, r
    <3>2. Explained(p, lockfile, {}, None, IfCut(r, cut[p], p), files, links')
      BY <1>1, <1>3, NewLinkCut DEF r
    <3>3. Explained(p, s.work, s.todo, s.cmd.dir, IfDone(r, cut[p], p), files, links')
      BY <1>1, <1>3, <2>6, NewLinkDone DEF r
    <3>4. RunExplains(s, p, lockfile', cut'[p], files', links')
      BY <2>2, <2>4, <3>1, <3>2, <3>3 DEF RunExplains
    <3> QED
      BY <2>2, <2>3, <3>4, RunExplainsStep
  <2> QED
    BY <2>5, <2>6
<1> QED
  BY <1>2, <1>3

LEMMA NextExplains ==
    ASSUME OneProcess, BytesTellApart, PathsTellApart, IInv, Wholes, Repairs, Names, Books,
           Noted, Explains, [Next]_vars
    PROVE  Explains'
<1>1. ASSUME NEW c \in Procs, NEW x \in Requests, Start(c, x) PROVE Explains'
  BY <1>1, StartExplains
<1>2. ASSUME NEW c \in Procs, Load(c) PROVE Explains'
  BY <1>2, LoadExplains
<1>3. ASSUME NEW c \in Procs, NEW p \in Packages,
             \/ Install(c, p) \/ UpdateNothing(c, p) \/ Update(c, p) \/ Activate(c, p)
             \/ Deactivate(c, p) \/ Uninstall(c, p) \/ Repair(c, p)
      PROVE  Explains'
  BY <1>3, PackageExplains
<1>4. ASSUME NEW c \in Procs, WriteAsset(c) \/ Unlink(c) \/ DeleteAsset(c) PROVE Explains'
  BY <1>4, OperationExplains
<1>5. ASSUME NEW c \in Procs, Link(c) PROVE Explains'
  BY <1>5, LinkStepExplains
<1>6. ASSUME NEW c \in Procs, Finish(c) PROVE Explains'
  BY <1>6, FinishExplains
<1>7. ASSUME NEW c \in Procs, Interrupt(c) PROVE Explains'
  BY <1>7, InterruptExplains
<1>8. ASSUME \/ \E p \in Packages : Damage(p) \/ Obstruct(p)
             \/ \E k \in Links : Occupy(k)
      PROVE  Explains'
  BY <1>8, DamageExplains, ObstructExplains, OccupyExplains
<1>9. CASE UNCHANGED vars
  BY <1>9 DEF vars, disk, Explains, Quiet
<1> QED
  BY <1>1, <1>2, <1>3, <1>4, <1>5, <1>6, <1>7, <1>8, <1>9 DEF Next

-----------------------------------------------------------------------------
(* Fresh stays true *)

LEMMA RunFreshStep ==
    ASSUME OneProcess, IInv, NEW c \in Procs, NEW r, run' = [run EXCEPT ![c] = r],
           r # None => RunFresh(r, lockfile', cut', files', links')
    PROVE  Fresh'
<1>1. \A d \in Procs : run'[d] = r
  BY DEF OneProcess, IInv, TypeOK
<1> QED
  BY <1>1 DEF Fresh

LEMMA AbandonFresh ==
    ASSUME OneProcess, IInv, NEW c \in Procs, run' = [run EXCEPT ![c] = None]
    PROVE  Fresh'
BY RunFreshStep

\* Where nothing is left over, lockfile and symlinks agree.
LEMMA NothingLeft ==
    ASSUME NEW p, NEW l, NEW dir, NEW content, NEW where,
           Explained(p, l, {}, dir, None, content, where), NEW a \in Catalog, a.package = p
    PROVE  /\ content[a] = IF l.link[a] = Absent THEN "missing" ELSE "good"
           /\ \A n \in Links : where[n] = a <=> l.link[a] = n
<1>1. None \notin Intents /\ None # Damaged /\ None # Mixed
  BY ValuesAssumption
<1>2. /\ FileExplained(l, {}, None, a, content)
      /\ \A n \in Links : LinkExplained(l, {}, dir, None, n, a, where)
  BY <1>1 DEF Explained
<1>3. /\ ~FileMayBeGone(None, a) /\ ~FileMayBeLeft(None, a)
      /\ \A n \in Links : ~MayBeGone(None, n, a) /\ ~MayBeLeft(None, n, a)
  BY <1>1 DEF FileMayBeGone, FileMayBeLeft, MayBeGone, MayBeLeft
<1>4. a \notin ToName({}) /\ (\A do : ~Pending({}, do, a)) /\ (\A n : ~ToGo({}, n))
  BY DEF ToName, Pending, ToGo
<1> QED
  BY <1>2, <1>3, <1>4 DEF FileExplained, LinkExplained

LEMMA StartLoadFresh ==
    ASSUME OneProcess, IInv, Books, Explains, NEW c \in Procs,
           Load(c) \/ \E x \in Requests : Start(c, x)
    PROVE  Fresh'
<1>1. ASSUME NEW x \in Requests, Start(c, x) PROVE Fresh'
  <2> DEFINE r == [cmd |-> x, loaded |-> FALSE, work |-> EmptyLockfile, left |-> {},
                   todo |-> {}, changed |-> FALSE, broken |-> {},
                   touched |-> [q \in Packages |-> None]]
  <2>1. run' = [run EXCEPT ![c] = r] /\ ~r.loaded
    BY <1>1 DEF Start
  <2> HIDE DEF r
  <2> QED
    BY <2>1, RunFreshStep DEF RunFresh
<1>2. CASE Load(c)
  <2> DEFINE r == run[c]
             known == {p \in Scope(r.cmd) : Recorded(lockfile, p) # {}}
             left == IF r.cmd.kind = "install" THEN Scope(r.cmd) ELSE known
             s == [r EXCEPT !.loaded = TRUE, !.work = lockfile, !.left = left]
  <2>1. r # None /\ r \in Runs /\ ~r.loaded /\ r.todo = {} /\ UNCHANGED disk
    BY <1>2, RunOf DEF Load, RunSound
  <2>2. CASE Abandon(c)
    BY <2>2, AbandonFresh DEF Abandon
  <2>3. CASE run' = [run EXCEPT ![c] = s] /\ UNCHANGED cut
    <3>1. s.work = lockfile /\ s.todo = {}
      BY <2>1 DEF Runs
    <3>2. \A p \in Packages : Explained(p, lockfile, {}, None, cut[p], files, links)
      BY <2>1 DEF Explains, RunExplains, Books, RunBooks, IfCut, Untouched
    <3> HIDE DEF s
    <3>3. ASSUME NEW n \in Links, NEW a \in Catalog, links[n] = a, cut[a.package] = None
          PROVE  FreshLink(s, lockfile, n, a, files)
      <4>1. lockfile.link[a] = n
        BY <3>2, <3>3, CatalogFields, NothingLeft
      <4> QED
        BY <3>1, <4>1 DEF FreshLink, Pending
    <3>4. RunFresh(s, lockfile', cut', files', links')
      BY <2>1, <2>3, <3>3 DEF RunFresh, disk
    <3> QED
      BY <2>3, <3>4, RunFreshStep
  <2> QED
    BY <1>2, <2>2, <2>3 DEF Load
<1> QED
  BY <1>1, <1>2

LEMMA TakesFresh ==
    ASSUME OneProcess, IInv, Books, Explains, Fresh, NEW c \in Procs, NEW p \in Packages,
           NEW plan, NEW intent, NEW change, Takes(c, p, plan, intent, change)
    PROVE  Fresh'
<1>1. PICK s : Begins(c, p, plan, intent, change, s)
  BY TakesBegins
<1> DEFINE r == run[c]
<1>2. /\ r # None /\ r.loaded /\ r.todo = {} /\ r.touched[p] = None
      /\ \A a \in Catalog : a.package = p => r.work.link[a] = lockfile.link[a]
  BY TakesBegins
<1>3. /\ run' = [run EXCEPT ![c] = s] /\ UNCHANGED disk
      /\ s.work = plan.lock /\ s.todo = plan.ops
  BY <1>1 DEF Begins
<1>4. /\ Serves(plan, p, intent, change, r.work, r.cmd.dir)
      /\ \/ UNCHANGED cut /\ Sweeps(plan, r.work)
         \/ cut' = [cut EXCEPT ![p] = Mixed]
  BY DEF Takes
<1>5. ASSUME NEW n \in Links, NEW a \in Catalog, links[n] = a, cut'[a.package] = None
      PROVE  FreshLink(s, lockfile, n, a, files)
  <2>1. /\ cut[a.package] = None
        /\ a.package = p => Sweeps(plan, r.work)
    BY <1>4, <1>5, ValuesAssumption, CatalogFields DEF IInv, TypeOK
  <2>2. r.work.link[a] = n
    BY <1>2, <1>5, <2>1 DEF Fresh, RunFresh, FreshLink
  <2>3. a.package = p => files[a] = "good"
    <3>1. Explained(p, r.work, {}, r.cmd.dir, IfDone(r, cut[p], p), files, links)
      BY <1>2 DEF Explains, RunExplains
    <3>2. IfDone(r, cut[p], p) = cut[p]
      BY <1>2 DEF IfDone
    <3> QED
      BY <2>1, <2>2, <3>1, <3>2, NothingLeft, ValuesAssumption
  <2>4. \/ plan.lock.link[a] = n
        \/ files[a] = "good" /\ \E t \in plan.ops : t.do = "unlink" /\ t.at = n /\ t.asset = a
    <3>1. CASE a.package # p
      BY <1>4, <2>2, <3>1 DEF Serves, Edits
    <3>2. CASE a.package = p
      BY <1>5, <2>1, <2>2, <2>3, <3>2 DEF Sweeps
    <3> QED
      BY <3>1, <3>2
  <2>5. ~Pending(plan.ops, "write", a)
    BY <1>4, <2>2, ValuesAssumption DEF Pending, Serves, Meets
  <2>6. (\E t \in plan.ops : t.do = "unlink" /\ t.asset.package = a.package) =>
            lockfile.link[a] = n
    BY <1>2, <1>4, <2>2 DEF Serves
  <2> QED
    BY <1>3, <2>4, <2>5, <2>6 DEF FreshLink
<1>6. RunFresh(s, lockfile', cut', files', links')
  BY <1>3, <1>5 DEF RunFresh, disk
<1> QED
  BY <1>3, <1>6, RunFreshStep

LEMMA PackageFresh ==
    ASSUME OneProcess, IInv, Wholes, Repairs, Names, Books, Explains, Fresh,
           NEW c \in Procs, NEW p \in Packages,
           \/ Install(c, p) \/ UpdateNothing(c, p) \/ Update(c, p) \/ Activate(c, p)
           \/ Deactivate(c, p) \/ Uninstall(c, p) \/ Repair(c, p)
    PROVE  Fresh'
<1>1. Turn(c, p) /\ run[c] # None /\ run[c].loaded
  BY PackageTurn
<1>2. CASE Refuse(c)
  BY <1>2, AbandonFresh DEF Refuse, Abandon
<1>3. CASE Passes(c)
  <2>1. PICK s : /\ run' = [run EXCEPT ![c] = s]
                 /\ s.work = run[c].work /\ s.todo = run[c].todo
    BY <1>3 DEF Passes
  <2>2. RunFresh(s, lockfile, cut, files, links)
    BY <1>1, <2>1 DEF Fresh, RunFresh, FreshLink
  <2>3. RunFresh(s, lockfile', cut', files', links')
    BY <1>3, <2>2 DEF Passes, disk
  <2> QED
    BY <2>1, <2>3, RunFreshStep
<1> QED
  BY <1>1, <1>2, <1>3, TakesFresh DEF Turn

LEMMA OperationFresh ==
    ASSUME OneProcess, IInv, Repairs, Books, Fresh, Explains, NEW c \in Procs,
           WriteAsset(c) \/ Unlink(c) \/ DeleteAsset(c)
    PROVE  Fresh'
<1>1. PICK t, s : Does(c, t, s)
  BY OperationFacts
<1> DEFINE r == run[c]
           x == t.asset
           intent == r.touched[x.package]
           rest == r.todo \ {t}
<1>2. /\ r # None /\ r.loaded /\ t \in r.todo /\ x \in Catalog
      /\ Meets(t, intent, lockfile, r.work, r.cmd.dir)
      /\ s.loaded /\ s.work = r.work /\ s.todo = rest
      /\ run' = [run EXCEPT ![c] = s] /\ lockfile' = lockfile /\ cut' = cut
  BY <1>1, DoesFacts
<1>3. /\ t.do = "unlink" => files' = files /\ links' = [links EXCEPT ![t.at] = None]
      /\ t.do # "unlink" => links' = links
      /\ t.do # "unlink" =>
             \A a \in Catalog : files[a] = "good" /\ ~(t.do = "delete" /\ a = x) => files'[a] = "good"
  <2>1. t.do = "unlink" => files' = files /\ links' = [links EXCEPT ![t.at] = None]
    BY <1>1 DEF Does
  <2>2. t.do # "unlink" => links' = links
    BY <1>1 DEF Does
  <2>3. ASSUME t.do # "unlink", NEW a \in Catalog, files[a] = "good",
               ~(t.do = "delete" /\ a = x)
        PROVE  files'[a] = "good"
    BY <1>1, <2>3 DEF Does, IInv, TypeOK
  <2> QED
    BY <2>1, <2>2, <2>3
<1>4. ASSUME NEW n \in Links, NEW a \in Catalog, links'[n] = a, cut[a.package] = None
      PROVE  FreshLink(s, lockfile, n, a, files')
  <2>1. links[n] = a /\ (t.do = "unlink" => n # t.at)
    BY <1>2, <1>3, <1>4, ValuesAssumption DEF IInv, TypeOK
  <2>2. FreshLink(r, lockfile, n, a, files)
    BY <1>2, <1>4, <2>1 DEF Fresh, RunFresh
  <2>3. ~Pending(rest, "write", a)
    BY <2>2 DEF FreshLink, Pending
  <2>4. (\E u \in rest : u.do = "unlink" /\ u.asset.package = a.package) => lockfile.link[a] = n
    BY <2>2 DEF FreshLink
  <2>5. \/ r.work.link[a] = n
        \/ files'[a] = "good" /\ \E u \in rest : u.do = "unlink" /\ u.at = n /\ u.asset = a
    <3> SUFFICES ASSUME r.work.link[a] # n
                 PROVE  /\ files'[a] = "good"
                        /\ \E u \in rest : u.do = "unlink" /\ u.at = n /\ u.asset = a
      OBVIOUS
    <3>1. PICK u \in r.todo : u.do = "unlink" /\ u.at = n /\ u.asset = a /\ files[a] = "good"
      BY <2>2 DEF FreshLink
    <3>2. u # t
      BY <2>1, <3>1
    <3>3. ~(t.do = "delete" /\ a = x)
      BY <1>1, <3>1 DEF Does, Ready, Before
    <3> QED
      BY <1>3, <3>1, <3>2, <3>3
  <2> QED
    BY <1>2, <2>3, <2>4, <2>5 DEF FreshLink
<1>5. RunFresh(s, lockfile', cut', files', links')
  BY <1>2, <1>4 DEF RunFresh
<1> QED
  BY <1>2, <1>5, RunFreshStep

LEMMA LinkFresh ==
    ASSUME OneProcess, BytesTellApart, IInv, Repairs, Names, Books, Explains, Fresh,
           NEW c \in Procs, Link(c)
    PROVE  Fresh'
<1>1. PICK t, name, s : Makes(c, t, name, s)
  BY LinkFacts
<1> DEFINE r == run[c]
           x == t.asset
           intent == r.touched[x.package]
           rest == r.todo \ {t}
<1>2. Making(c, t, name, s, intent, x, rest)
  BY <1>1, MakesFacts
<1>3. /\ r # None /\ r.loaded /\ t \in r.todo /\ t.do = "link" /\ x \in Catalog
      /\ x.package \in Packages /\ name \in Links
      /\ s.todo = rest /\ run' = [run EXCEPT ![c] = s] /\ lockfile' = lockfile /\ files' = files
      /\ \A a \in Catalog : s.work.link[a] = IF a = x THEN name ELSE r.work.link[a]
      /\ links'[name] = x /\ \A n \in Links : n # name => links'[n] = links[n]
      /\ Named(r, links) /\ Mending(r, files, links)
  BY <1>2 DEF Making
<1>4. /\ \A u \in r.todo : u.do # "unlink"
      /\ \A u \in r.todo : u.do = "write" => u.asset # x
  <2>1. CASE t.at = None
    <3>1. t \in Ready(c, "link")
      BY <1>1 DEF Makes
    <3> QED
      BY <1>3, <2>1, <3>1, ReadyLink
  <2>2. CASE t.at # None
    BY <1>3, <2>2 DEF Named, Mending
  <2> QED
    BY <2>1, <2>2
<1>5. cut' = IF Outdated(r.work, x, name) THEN [cut EXCEPT ![x.package] = Mixed] ELSE cut
  BY <1>1 DEF Makes
<1>6. ASSUME NEW n \in Links, NEW a \in Catalog, links'[n] = a, cut'[a.package] = None
      PROVE  FreshLink(s, lockfile, n, a, files)
  <2>1. \A u \in rest : u.do # "unlink"
    BY <1>4
  <2>2. cut[a.package] = None
    BY <1>5, <1>6, CatalogFields, ValuesAssumption DEF IInv, TypeOK
  <2>3. CASE n = name
    BY <1>3, <1>4, <1>6, <2>1, <2>3 DEF FreshLink, Pending
  <2>4. CASE n # name
    <3>1. links[n] = a
      BY <1>3, <1>6, <2>4
    <3>2. FreshLink(r, lockfile, n, a, files)
      BY <1>3, <2>2, <3>1 DEF Fresh, RunFresh
    <3>3. r.work.link[a] = n
      BY <1>4, <3>2 DEF FreshLink
    <3>4. a # x
      <4>1. SUFFICES ASSUME a = x PROVE FALSE
        OBVIOUS
      <4>2. Outdated(r.work, x, name)
        BY <2>4, <3>1, <3>3, <4>1 DEF Outdated
      <4>3. cut'[x.package] = Mixed
        BY <1>3, <1>5, <4>2 DEF IInv, TypeOK
      <4> QED
        BY <1>6, <4>1, <4>3, ValuesAssumption
    <3> QED
      BY <1>3, <2>1, <3>2, <3>3, <3>4 DEF FreshLink, Pending
  <2> QED
    BY <2>3, <2>4
<1>7. RunFresh(s, lockfile', cut', files', links')
  BY <1>3, <1>6 DEF RunFresh
<1> QED
  BY <1>3, <1>7, RunFreshStep

LEMMA NextFresh ==
    ASSUME OneProcess, BytesTellApart, IInv, Wholes, Repairs, Names, Books, Explains, Fresh,
           [Next]_vars
    PROVE  Fresh'
<1>1. ASSUME NEW c \in Procs, NEW x \in Requests, Start(c, x) PROVE Fresh'
  BY <1>1, StartLoadFresh
<1>2. ASSUME NEW c \in Procs, Load(c) PROVE Fresh'
  BY <1>2, StartLoadFresh
<1>3. ASSUME NEW c \in Procs, NEW p \in Packages,
             \/ Install(c, p) \/ UpdateNothing(c, p) \/ Update(c, p) \/ Activate(c, p)
             \/ Deactivate(c, p) \/ Uninstall(c, p) \/ Repair(c, p)
      PROVE  Fresh'
  BY <1>3, PackageFresh
<1>4. ASSUME NEW c \in Procs, WriteAsset(c) \/ Unlink(c) \/ DeleteAsset(c) PROVE Fresh'
  BY <1>4, OperationFresh
<1>5. ASSUME NEW c \in Procs, Link(c) PROVE Fresh'
  BY <1>5, LinkFresh
<1>6. ASSUME NEW c \in Procs, Finish(c) \/ Interrupt(c) PROVE Fresh'
  BY <1>6, AbandonFresh DEF Finish, Interrupt, Abandon
<1>7. ASSUME \/ \E p \in Packages : Damage(p) \/ Obstruct(p)
             \/ \E k \in Links : Occupy(k)
      PROVE  Fresh'
  <2>1. Quiet /\ run' = run
    BY <1>7 DEF Damage, Obstruct, Occupy
  <2> QED
    BY <2>1 DEF Quiet, Fresh
<1>8. CASE UNCHANGED vars
  BY <1>8 DEF vars, disk, Fresh
<1> QED
  BY <1>1, <1>2, <1>3, <1>4, <1>5, <1>6, <1>7, <1>8 DEF Next


-----------------------------------------------------------------------------
(* What holds of every behaviour *)

Agreement == Repairs /\ Names /\ Books /\ Noted /\ Explains /\ Fresh

LEMMA InitAgreement == Init => Agreement
<1> SUFFICES ASSUME Init PROVE Agreement
  OBVIOUS
<1>1. /\ \A a \in Catalog : lockfile.link[a] = Absent
      /\ \A c \in Procs : run[c] = None
      /\ \A n \in Links : links[n] = None
      /\ \A a \in Catalog : files[a] = "missing"
  BY DEF Init, EmptyLockfile
<1>2. Absent \notin Links /\ None \notin Catalog
  BY ValuesAssumption
<1>3. Repairs
  BY <1>1, <1>2 DEF Repairs, Shaped, Distinct
<1>4. Names
  BY <1>1, <1>2 DEF Names, Fitting, Closed
<1>5. Books /\ Noted /\ Fresh
  BY <1>1 DEF Books, Noted, Fresh
<1>6. ASSUME NEW p \in Packages PROVE Explained(p, lockfile, {}, None, cut[p], files, links)
  <2>1. \A a \in Catalog : FileExplained(lockfile, {}, cut[p], a, files)
    BY <1>1 DEF FileExplained
  <2>2. \A a \in Catalog, n \in Links :
            LinkExplained(lockfile, {}, None, cut[p], n, a, links)
    BY <1>1, <1>2 DEF LinkExplained
  <2> QED
    BY <2>1, <2>2 DEF Explained
<1>7. Explains
  BY <1>1, <1>6 DEF Explains
<1> QED
  BY <1>3, <1>4, <1>5, <1>7 DEF Agreement

LEMMA AgreementAlways ==
    OneProcess /\ BytesTellApart /\ PathsTellApart => (Spec => []Agreement)
<1> SUFFICES ASSUME OneProcess, BytesTellApart, PathsTellApart PROVE Spec => []Agreement
  OBVIOUS
<1>1. IInv /\ Wholes /\ Agreement /\ [Next]_vars => Agreement'
  <2> SUFFICES ASSUME IInv, Wholes, Agreement, [Next]_vars PROVE Agreement'
    OBVIOUS
  <2>1. Repairs /\ Names /\ Books /\ Noted /\ Explains /\ Fresh
    BY DEF Agreement
  <2>2. Repairs'
    BY <2>1, NextRepairs
  <2>3. Names'
    BY <2>1, NextNames
  <2>4. Books'
    BY <2>1, NextBooks
  <2>5. Explains'
    BY <2>1, NextExplains
  <2>6. Fresh'
    BY <2>1, NextFresh
  <2>7. Noted'
    BY <2>1, NextNoted
  <2> QED
    BY <2>2, <2>3, <2>4, <2>5, <2>6, <2>7 DEF Agreement
<1> QED
  BY <1>1, InitAgreement, Invariance, WholesAlways, PTL DEF Spec

\* Between commands, lockfile, installed files and symlinks agree on every package with
\* nothing interrupted and no damage left over: for one process at a time, any catalogue
\* whose versions list no path twice and have no two files with one name and equal hashes,
\* any commands, and any failures and damage that were dealt with since.
THEOREM CompletedAgreesHolds ==
    OneProcess /\ BytesTellApart /\ PathsTellApart => (Spec => []CompletedAgrees)
<1> SUFFICES ASSUME OneProcess, BytesTellApart, PathsTellApart PROVE Spec => []CompletedAgrees
  OBVIOUS
<1>1. IInv /\ Agreement => CompletedAgrees
  <2> SUFFICES ASSUME IInv, Agreement, Quiet, NEW p \in Packages, cut[p] = None
               PROVE  Agrees(p)
    BY DEF CompletedAgrees
  <2>1. Names /\ Repairs /\ Explained(p, lockfile, {}, None, None, files, links)
    BY DEF Agreement, Explains
  <2>2. \A a \in Catalog : a.package = p =>
            /\ files[a] = IF lockfile.link[a] = Absent THEN "missing" ELSE "good"
            /\ \A n \in Links : links[n] = a <=> lockfile.link[a] = n
    BY <2>1, NothingLeft
  <2>3. ASSUME NEW n \in Links, n.package = p, NEW a \in Catalog, a.package # p
        PROVE  links[n] # a /\ lockfile.link[a] # n
    BY <2>1, <2>3 DEF Names, Fits, Repairs, Shaped
  <2> QED
    BY <2>2, <2>3 DEF Agrees
<1> QED
  BY <1>1, Invariance, AgreementAlways, PTL

\* A command that has begun to work on nothing yet.
LEMMA NotLoadedExplained ==
    ASSUME Books, Explains, NEW c \in Procs, run[c] # None, ~run[c].loaded, NEW p \in Packages
    PROVE  Explained(p, lockfile, {}, None, cut[p], files, links)
<1>1. run[c].touched[p] = None
  BY DEF Books, RunBooks
<1> QED
  BY <1>1 DEF Explains, RunExplains, IfCut, Untouched

\* The lockfile that accounts for the symlinks of package p: the edited one, once the old
\* symlinks are gone.
Edited(c, p) ==
    /\ run[c] # None /\ run[c].loaded
    /\ ~\E t \in run[c].todo : t.do = "unlink" /\ t.asset.package = p

\* Where nothing is left over, a symlink points to a whole file that one of the two records.
LEMMA ShownLink ==
    ASSUME OneProcess, IInv, Agreement, NEW n \in Links, NEW a \in Catalog, links[n] = a,
           cut[n.package] = None
    PROVE  /\ a.package = n.package /\ files[a] = "good"
           /\ \A c \in Procs : Edited(c, a.package) => run[c].work.link[a] = n
           /\ (\A c \in Procs : ~Edited(c, a.package)) => lockfile.link[a] = n
<1> DEFINE p == a.package
<1>1. p = n.package /\ p \in Packages
  BY CatalogFields DEF Agreement, Names, Fits
<1>2. Absent \notin Links /\ None \notin Intents /\ None # Damaged /\ None # Mixed
  BY ValuesAssumption
<1>3. ASSUME Explained(p, lockfile, {}, None, None, files, links)
      PROVE  files[a] = "good" /\ lockfile.link[a] = n
  BY <1>2, <1>3, NothingLeft
<1>4. CASE Quiet
  <2>1. files[a] = "good" /\ lockfile.link[a] = n
    BY <1>1, <1>3, <1>4 DEF Agreement, Explains
  <2> QED
    BY <1>1, <1>4, <2>1 DEF Quiet, Edited
<1>5. ASSUME NEW c \in Procs, run[c] # None, ~run[c].loaded
      PROVE  /\ files[a] = "good" /\ lockfile.link[a] = n
             /\ \A d \in Procs : ~Edited(d, p)
  <2>1. \A d \in Procs : d = c
    BY <1>5 DEF OneProcess
  <2> QED
    BY <1>1, <1>3, <1>5, <2>1, NotLoadedExplained DEF Agreement, Edited
<1>6. ASSUME NEW c \in Procs, run[c] # None, run[c].loaded
      PROVE  /\ files[a] = "good"
             /\ IF Edited(c, p) THEN run[c].work.link[a] = n ELSE lockfile.link[a] = n
  <2> DEFINE r == run[c]
  <2>1. FreshLink(r, lockfile, n, a, files)
    BY <1>1, <1>6 DEF Agreement, Fresh, RunFresh
  <2>2. Explained(p, r.work, r.todo, r.cmd.dir, IfDone(r, cut[p], p), files, links)
    BY <1>1, <1>6 DEF Agreement, Explains, RunExplains
  <2>3. IfDone(r, cut[p], p) = None
    BY <1>1, <1>2 DEF IfDone
  <2>4. r.work.link[a] = n => files[a] = "good"
    BY <1>2, <2>1, <2>2, <2>3 DEF FreshLink, Explained, FileExplained, FileMayBeGone
  <2> QED
    BY <1>6, <2>1, <2>4 DEF FreshLink, Edited
<1>7. CASE ~Quiet
  <2>1. PICK c \in Procs : run[c] # None
    BY <1>7 DEF Quiet
  <2>2. \A d \in Procs : d = c
    BY DEF OneProcess
  <2> QED
    BY <1>1, <1>5, <1>6, <2>1, <2>2 DEF Edited
<1> QED
  BY <1>4, <1>7, <1>1

\* At no moment, an activation's own steps included, do symlinks show two versions of a
\* package where nothing interrupted is left (docs/cli.md:321): for one process at a time
\* and catalogues as above.
THEOREM NeverTwoVersionsHolds ==
    OneProcess /\ BytesTellApart /\ PathsTellApart => (Spec => []NeverTwoVersions)
<1> SUFFICES ASSUME OneProcess, BytesTellApart, PathsTellApart PROVE Spec => []NeverTwoVersions
  OBVIOUS
<1>1. IInv /\ Agreement => NeverTwoVersions
  <2> SUFFICES ASSUME IInv, Agreement, NEW p \in Packages, cut[p] = None
               PROVE  \E key \in Keys : \A n \in Links :
                          n.package = p /\ links[n] \notin {None, Foreign} => links[n].key = key
    BY DEF NeverTwoVersions
  <2> DEFINE Shown == {n \in Links : n.package = p /\ links[n] \notin {None, Foreign}}
  <2>1. ASSUME NEW n \in Shown
        PROVE  /\ links[n] \in Catalog /\ links[n].package = p /\ links[n].key \in Keys
               /\ \A c \in Procs : Edited(c, p) => run[c].work.link[links[n]] = n
               /\ (\A c \in Procs : ~Edited(c, p)) => lockfile.link[links[n]] = n
    <3>1. links[n] \in Catalog
      BY DEF IInv, TypeOK
    <3> QED
      BY <3>1, ShownLink, CatalogFields
  <2>2. ASSUME NEW l \in Lockfiles, NEW todo, NEW dir, Sound(l, todo, dir),
               \A n \in Shown : l.link[links[n]] = n
        PROVE  \A n \in Shown : links[n].key = l.active[p]
    BY <2>1, <2>2, ActiveMeansLinked DEF Sound
  <2>3. \E key : \A n \in Shown : links[n].key = key
    <3>1. CASE \E c \in Procs : Edited(c, p)
      <4>1. PICK c \in Procs : Edited(c, p)
        BY <3>1
      <4>2. run[c].work \in Lockfiles /\ Sound(run[c].work, run[c].todo, run[c].cmd.dir)
        BY <4>1, RunOf DEF Edited, RunSound
      <4>3. \A n \in Shown : run[c].work.link[links[n]] = n
        BY <2>1, <4>1
      <4>4. \A n \in Shown : links[n].key = run[c].work.active[p]
        BY <2>2, <4>2, <4>3
      <4> QED
        BY <4>4
    <3>2. CASE \A c \in Procs : ~Edited(c, p)
      <4>1. lockfile \in Lockfiles /\ Sound(lockfile, {}, None)
        BY SoundWhenDone DEF IInv, TypeOK
      <4>2. \A n \in Shown : lockfile.link[links[n]] = n
        BY <2>1, <3>2
      <4>3. \A n \in Shown : links[n].key = lockfile.active[p]
        BY <2>2, <4>1, <4>2
      <4> QED
        BY <4>3
    <3> QED
      BY <3>1, <3>2
  <2>4. CASE Shown = {}
    <3>1. Keys # {}
      BY DEF Packages, Keys
    <3> QED
      BY <2>4, <3>1
  <2>5. CASE Shown # {}
    BY <2>1, <2>3, <2>5
  <2> QED
    BY <2>4, <2>5
<1> QED
  BY <1>1, Invariance, AgreementAlways, PTL

\* At no moment does a symlink of a package where nothing interrupted is left point to a
\* file that is not there or not whole: for one process at a time and catalogues as above.
THEOREM NoDanglingLinkHolds ==
    OneProcess /\ BytesTellApart /\ PathsTellApart => (Spec => []NoDanglingLink)
<1> SUFFICES ASSUME OneProcess, BytesTellApart, PathsTellApart PROVE Spec => []NoDanglingLink
  OBVIOUS
<1>1. IInv /\ Agreement => NoDanglingLink
  <2> SUFFICES ASSUME IInv, Agreement, NEW n \in Links, cut[n.package] = None,
                      links[n] \notin {None, Foreign}
               PROVE  files[links[n]] = "good"
    BY DEF NoDanglingLink
  <2>1. links[n] \in Catalog
    BY DEF IInv, TypeOK
  <2> QED
    BY <2>1, ShownLink
<1> QED
  BY <1>1, Invariance, AgreementAlways, PTL

=============================================================================
