---------------------------- MODULE CliStateProofs ----------------------------
(***************************************************************************)
(* The lockfile of CliState stays valid, no finished command is refused    *)
(* its save, and ls and verify agree, for every catalogue, any number of   *)
(* processes and commands, any failures and any outside damage.  For one   *)
(* process at a time, a repair that reports success has mended everything. *)
(***************************************************************************)
EXTENDS CliState, TLAPS

\* The edited lockfile of a command between two of its operations: valid, once the
\* symlinks it has still to make are counted as made.  An activation that did not check
\* the directory would leave a second version active here.
Sound(l, todo, dir) ==
    /\ \A p \in Packages : \A a \in ActiveAssets(l, p) : l.active[p] = a.key
    /\ \A t \in todo : t.do = "link" =>
           /\ l.active[t.asset.package] = t.asset.key
           /\ l.link[t.asset] # Absent
           /\ t.at = None => dir \in Dirs
    /\ \A p \in Packages : l.active[p] # None =>
           \E a \in Catalog :
               /\ a.package = p /\ a.key = l.active[p]
               /\ a \in ActiveAssets(l, p) \/ \E t \in todo : t.do = "link" /\ t.asset = a

RunSound(r) ==
    /\ r.cmd \in Requests
    /\ ~r.loaded => r.todo = {}
    /\ Sound(r.work, r.todo, r.cmd.dir)

IInv ==
    /\ TypeOK
    /\ Valid(lockfile)
    /\ \A c \in Procs : run[c] # None => RunSound(run[c])

-----------------------------------------------------------------------------
(* Lockfiles and plans *)

LEMMA CatalogFields ==
    ASSUME NEW a \in Catalog
    PROVE  a.package \in Packages /\ a.key \in Keys
BY DEF Packages, Keys

\* An active asset is one with a symlink.
LEMMA ActiveMeansLinked ==
    ASSUME NEW l \in Lockfiles, NEW p \in Packages, NEW a \in Catalog
    PROVE  a \in ActiveAssets(l, p) <=> a.package = p /\ l.link[a] \in Links
BY ValuesAssumption DEF Lockfiles, ActiveAssets, Recorded

\* A valid lockfile is a sound one with nothing left to do, and the other way round.
LEMMA SoundWhenDone ==
    ASSUME NEW l \in Lockfiles, NEW dir
    PROVE  Valid(l) <=> Sound(l, {}, dir)
<1>1. \A p \in Packages : ActiveAssets(l, p) \subseteq {a \in Catalog : a.package = p}
  BY DEF ActiveAssets, Recorded
<1> QED
  BY <1>1 DEF Valid, Sound

LEMMA EmptyIsSound ==
    ASSUME NEW dir
    PROVE  EmptyLockfile \in Lockfiles /\ Sound(EmptyLockfile, {}, dir)
<1>1. EmptyLockfile \in Lockfiles
  BY DEF EmptyLockfile, Lockfiles
<1>2. \A p \in Packages : ActiveAssets(EmptyLockfile, p) = {}
  BY DEF EmptyLockfile, ActiveAssets, Recorded
<1> QED
  BY <1>1, <1>2 DEF Sound, EmptyLockfile

LEMMA SymlinkPathType ==
    ASSUME NEW dir \in Dirs, NEW a \in Catalog
    PROVE  SymlinkPath(dir, a) \in Links
BY DEF SymlinkPath, Links, Packages

LEMMA RecordingType ==
    ASSUME NEW l \in Lockfiles, NEW assets, NEW link \in {None, Absent}
    PROVE  /\ Recording(l, assets, link) \in Lockfiles
           /\ Recording(l, assets, link).active = l.active
           /\ \A a \in Catalog : Recording(l, assets, link).link[a] =
                                     IF a \in assets THEN link ELSE l.link[a]
BY DEF Recording, Lockfiles

\* Only one version of a package is active, so the choice of the highest is one.
LEMMA ChosenActiveKey ==
    ASSUME NEW l \in Lockfiles, NEW p \in Packages, NEW k \in Keys,
           \A a \in ActiveAssets(l, p) : a.key = k
    PROVE  ChosenActive(l, p) = IF ActiveAssets(l, p) = {} THEN None ELSE k
<1> DEFINE keys == {a.key : a \in ActiveAssets(l, p)}
<1>1. CASE ActiveAssets(l, p) = {}
  BY <1>1 DEF ChosenActive
<1>2. CASE ActiveAssets(l, p) # {}
  <2>1. keys = {k}
    BY <1>2
  <2>2. Rank[k] <= Rank[k]
    BY RankAssumption
  <2>3. (CHOOSE j \in keys : \A i \in keys : Rank[i] <= Rank[j]) = k
    BY <2>1, <2>2
  <2> QED
    BY <1>2, <2>1, <2>3 DEF ChosenActive
<1> QED
  BY <1>1, <1>2

\* What deactivate and uninstall do to the lockfile.
LEMMA SomeActiveSound ==
    ASSUME NEW l \in Lockfiles, Valid(l), NEW p \in Packages,
           NEW assets, \A a \in assets : a.package = p,
           NEW link \in {None, Absent}, NEW todo, \A t \in todo : t.do # "link", NEW dir
    PROVE  /\ SomeActive(Recording(l, assets, link), p) \in Lockfiles
           /\ Sound(SomeActive(Recording(l, assets, link), p), todo, dir)
<1> DEFINE m == Recording(l, assets, link)
           n == SomeActive(m, p)
<1>1. /\ m \in Lockfiles /\ m.active = l.active
      /\ \A a \in Catalog : m.link[a] = IF a \in assets THEN link ELSE l.link[a]
  BY RecordingType
<1> HIDE DEF m
<1>2. link \notin Links
  BY ValuesAssumption
<1>3. \A x \in Packages : ActiveAssets(m, x) \subseteq ActiveAssets(l, x)
  BY <1>1, <1>2, ActiveMeansLinked DEF ActiveAssets, Recorded
<1>4. \A a \in ActiveAssets(m, p) : a.key = l.active[p]
  BY <1>3 DEF Valid
<1>5. ChosenActive(m, p) =
          IF ActiveAssets(m, p) = {} THEN None ELSE l.active[p]
  <2>1. CASE ActiveAssets(m, p) = {}
    BY <2>1 DEF ChosenActive
  <2>2. CASE ActiveAssets(m, p) # {}
    <3>1. l.active[p] \in Keys
      BY <2>2, <1>4, CatalogFields DEF ActiveAssets, Recorded
    <3> QED
      BY <3>1, <1>1, <1>4, ChosenActiveKey
  <2> QED
    BY <2>1, <2>2
<1>6. ChosenActive(m, p) \in Keys \cup {None}
  BY <1>5 DEF Lockfiles
<1>7. /\ n \in Lockfiles /\ n.link = m.link
      /\ n.active[p] = ChosenActive(m, p)
      /\ \A x \in Packages \ {p} : n.active[x] = l.active[x]
  BY <1>1, <1>6 DEF SomeActive, Lockfiles
<1> HIDE DEF n
<1>8. \A x \in Packages : ActiveAssets(n, x) = ActiveAssets(m, x)
  BY <1>7 DEF ActiveAssets, Recorded
<1>9. \A x \in Packages \ {p} : ActiveAssets(m, x) = ActiveAssets(l, x)
  BY <1>1 DEF ActiveAssets, Recorded
<1>10. \A x \in Packages : \A a \in ActiveAssets(n, x) : n.active[x] = a.key
  <2> TAKE x \in Packages
  <2>1. CASE x = p
    BY <2>1, <1>4, <1>5, <1>7, <1>8
  <2>2. CASE x # p
    BY <2>2, <1>7, <1>8, <1>9 DEF Valid
  <2> QED
    BY <2>1, <2>2
<1>11. \A x \in Packages : n.active[x] # None =>
          \E a \in ActiveAssets(n, x) : a.key = n.active[x]
  <2> TAKE x \in Packages
  <2>1. CASE x = p
    BY <2>1, <1>4, <1>5, <1>7, <1>8
  <2>2. CASE x # p
    BY <2>2, <1>7, <1>8, <1>9 DEF Valid
  <2> QED
    BY <2>1, <2>2
<1>12. \A x \in Packages : ActiveAssets(n, x) \subseteq {a \in Catalog : a.package = x}
  BY DEF ActiveAssets, Recorded
<1> QED
  BY <1>7, <1>10, <1>11, <1>12 DEF Sound, m, n

\* A plan whose result can be worked off.
PlanSound(plan, dir) ==
    /\ plan.lock \in Lockfiles /\ plan.ops \in SUBSET Ops
    /\ Sound(plan.lock, plan.ops, dir)

LEMMA UnlinksType ==
    ASSUME NEW l \in Lockfiles, NEW p \in Packages, NEW assets,
           \A a \in assets : a \in Catalog /\ l.link[a] \in Links
    PROVE  Unlinks(l, assets) \in SUBSET Ops /\ \A t \in Unlinks(l, assets) : t.do # "link"
BY DEF Unlinks, Op, Ops

LEMMA DeactivatePlanSound ==
    ASSUME NEW l \in Lockfiles, Valid(l), NEW p \in Packages, NEW dir
    PROVE  PlanSound(DeactivatePlan(l, p, dir), dir)
<1> DEFINE old == {a \in ActiveAssets(l, p) : InDir(l.link[a], dir)}
<1>1. \A a \in old : a \in Catalog /\ a.package = p /\ l.link[a] \in Links
  BY DEF InDir, ActiveAssets, Recorded
<1>2. Unlinks(l, old) \in SUBSET Ops /\ \A t \in Unlinks(l, old) : t.do # "link"
  BY <1>1, UnlinksType
<1>3. /\ SomeActive(Recording(l, old, None), p) \in Lockfiles
      /\ Sound(SomeActive(Recording(l, old, None), p), Unlinks(l, old), dir)
  BY <1>1, <1>2, SomeActiveSound
<1>4. DeactivatePlan(l, p, dir) =
          [lock |-> SomeActive(Recording(l, old, None), p), ops |-> Unlinks(l, old)]
  BY DEF DeactivatePlan
<1> QED
  BY <1>2, <1>3, <1>4 DEF PlanSound

LEMMA UninstallPlanSound ==
    ASSUME NEW l \in Lockfiles, Valid(l), NEW p \in Packages, NEW keys, NEW dir
    PROVE  PlanSound(UninstallPlan(l, p, keys, dir), dir)
<1> DEFINE gone == {a \in Recorded(l, p) : a.key \in keys}
           old == {a \in gone : InDir(l.link[a], dir)}
           deletes == {Op("delete", a, None) : a \in gone}
           ops == Unlinks(l, old) \cup deletes
<1>1. \A a \in gone : a \in Catalog /\ a.package = p
  BY DEF Recorded
<1>2. Unlinks(l, old) \in SUBSET Ops /\ \A t \in Unlinks(l, old) : t.do # "link"
  BY <1>1, UnlinksType DEF InDir
<1>3. deletes \in SUBSET Ops /\ \A t \in deletes : t.do # "link"
  BY <1>1 DEF Op, Ops
<1>4. ops \in SUBSET Ops /\ \A t \in ops : t.do # "link"
  BY <1>2, <1>3
<1> HIDE DEF ops
<1>5. /\ SomeActive(Recording(l, gone, Absent), p) \in Lockfiles
      /\ Sound(SomeActive(Recording(l, gone, Absent), p), ops, dir)
  BY <1>1, <1>4, SomeActiveSound
<1>6. UninstallPlan(l, p, keys, dir) =
          [lock |-> SomeActive(Recording(l, gone, Absent), p), ops |-> ops]
  BY DEF UninstallPlan, ops
<1> QED
  BY <1>4, <1>5, <1>6 DEF PlanSound

\* The plan of install and activate: the directory check is what makes it sound.
LEMMA ActivatePlanSound ==
    ASSUME NEW l \in Lockfiles, Valid(l), NEW p \in Packages, NEW k \in Keys,
           NEW dir \in Dirs, SameDir(l, p, dir),
           Version(l, p, k) # {}
    PROVE  PlanSound(ActivatePlan(l, p, k, dir), dir)
<1> DEFINE old == {a \in ActiveAssets(l, p) : a.key # k /\ InDir(l.link[a], dir)}
           m == Recording(l, old, None)
           n == [m EXCEPT !.active[p] = k]
           makes == {Op("link", a, None) : a \in Version(l, p, k)}
           ops == Unlinks(l, old) \cup makes
<1>1. \A a \in old : a \in Catalog /\ a.package = p /\ l.link[a] \in Links
  BY DEF InDir, ActiveAssets, Recorded
<1>2. /\ m \in Lockfiles /\ m.active = l.active
      /\ \A a \in Catalog : m.link[a] = IF a \in old THEN None ELSE l.link[a]
  BY RecordingType
<1>3. \A a \in ActiveAssets(l, p) : a.key # k => a \in old
  BY ActiveMeansLinked DEF InDir, SameDir, ActiveAssets, Recorded
<1>4. Unlinks(l, old) \in SUBSET Ops /\ \A t \in Unlinks(l, old) : t.do # "link"
  BY <1>1, UnlinksType
<1>5. makes \in SUBSET Ops
  BY DEF Version, Recorded, Op, Ops
<1>6. \A t \in makes : t.do = "link" /\ t.asset \in Version(l, p, k) /\ t.at = None
  BY DEF Op
<1>7. \A a \in Version(l, p, k) : \E t \in makes : t.do = "link" /\ t.asset = a
  <2> TAKE a \in Version(l, p, k)
  <2>1. Op("link", a, None) \in makes
    OBVIOUS
  <2>2. Op("link", a, None).do = "link" /\ Op("link", a, None).asset = a
    BY DEF Op
  <2> QED
    BY <2>1, <2>2
<1>8. /\ ops \in SUBSET Ops
      /\ \A t \in ops : t.do = "link" => t.asset \in Version(l, p, k)
      /\ \A a \in Version(l, p, k) : \E t \in ops : t.do = "link" /\ t.asset = a
  BY <1>4, <1>5, <1>6, <1>7
<1> HIDE DEF old, m, makes, ops
<1>9. /\ n \in Lockfiles /\ n.link = m.link /\ n.active[p] = k
      /\ \A x \in Packages \ {p} : n.active[x] = l.active[x]
  BY <1>2 DEF Lockfiles
<1> HIDE DEF n
<1>10. \A a \in ActiveAssets(n, p) : a.key = k
  <2> TAKE a \in ActiveAssets(n, p)
  <2>1. a \in Catalog /\ a.package = p /\ n.link[a] \in Links
    BY <1>9, ActiveMeansLinked DEF ActiveAssets, Recorded
  <2>2. a \notin old
    BY <2>1, <1>2, <1>9, ValuesAssumption
  <2>3. a \in ActiveAssets(l, p)
    BY <2>1, <2>2, <1>2, <1>9, ActiveMeansLinked
  <2> QED
    BY <2>2, <2>3, <1>3
<1>11. \A x \in Packages \ {p} : ActiveAssets(n, x) = ActiveAssets(l, x)
  BY <1>1, <1>2, <1>9 DEF ActiveAssets, Recorded
<1>12. \A x \in Packages : \A a \in ActiveAssets(n, x) : n.active[x] = a.key
  BY <1>9, <1>10, <1>11 DEF Valid
<1>13. \A t \in ops : t.do = "link" =>
          /\ n.active[t.asset.package] = t.asset.key
          /\ n.link[t.asset] # Absent
          /\ t.at = None => dir \in Dirs
  <2> TAKE t \in ops
  <2> HAVE t.do = "link"
  <2>1. t.asset \in Catalog /\ t.asset.package = p /\ t.asset.key = k
    BY <1>8 DEF Version, Recorded
  <2>2. n.link[t.asset] # Absent
    BY <2>1, <1>2, <1>9, <1>8, ValuesAssumption DEF Version, Recorded
  <2> QED
    BY <2>1, <2>2, <1>9
<1>14. \A x \in Packages : n.active[x] # None =>
          \E a \in Catalog :
              /\ a.package = x /\ a.key = n.active[x]
              /\ a \in ActiveAssets(n, x) \/ \E t \in ops : t.do = "link" /\ t.asset = a
  <2> TAKE x \in Packages
  <2>1. CASE x = p
    BY <2>1, <1>8, <1>9 DEF Version, Recorded
  <2>2. CASE x # p
    BY <2>2, <1>9, <1>11 DEF Valid, ActiveAssets, Recorded
  <2> QED
    BY <2>1, <2>2
<1>15. ActivatePlan(l, p, k, dir) = [lock |-> n, ops |-> ops]
  BY DEF ActivatePlan, n, m, old, ops, makes
<1> QED
  BY <1>8, <1>9, <1>12, <1>13, <1>14, <1>15 DEF PlanSound, Sound

\* Writing the files of a version first changes neither what is active nor the rest.
LEMMA InstallPlanSound ==
    ASSUME NEW l \in Lockfiles, Valid(l), NEW p \in Packages, NEW k, NEW dir
    PROVE  LET plan == InstallPlan(l, p, k) IN
           /\ PlanSound(plan, dir)
           /\ Valid(plan.lock)
           /\ \A t \in plan.ops : t.do # "link"
           /\ SameDir(l, p, dir) => SameDir(plan.lock, p, dir)
<1> DEFINE plan == InstallPlan(l, p, k)
<1>1. CASE k \in InstalledKeys(l, p)
  <2>1. plan = [lock |-> l, ops |-> {}]
    BY <1>1 DEF InstallPlan
  <2> QED
    BY <2>1, SoundWhenDone DEF PlanSound
<1>2. CASE k \notin InstalledKeys(l, p)
  <2> DEFINE m == Recording(l, Assets(p, k), None)
             writes == {Op("write", a, None) : a \in Assets(p, k)}
  <2>1. /\ m \in Lockfiles /\ m.active = l.active
        /\ \A a \in Catalog : m.link[a] = IF a \in Assets(p, k) THEN None ELSE l.link[a]
    BY RecordingType
  <2>2. \A a \in Assets(p, k) : l.link[a] = Absent
    BY <1>2 DEF InstalledKeys, Recorded, Assets
  <2>3. writes \in SUBSET Ops /\ \A t \in writes : t.do # "link"
    BY DEF Op, Ops, Assets
  <2>4. plan = [lock |-> m, ops |-> writes]
    BY <1>2 DEF InstallPlan
  <2> HIDE DEF m, writes
  <2>5. \A x \in Packages : ActiveAssets(m, x) = ActiveAssets(l, x)
    BY <2>1, <2>2 DEF ActiveAssets, Recorded
  <2>6. Valid(m)
    BY <2>1, <2>5 DEF Valid
  <2>7. Sound(m, {}, dir)
    BY <2>1, <2>6, SoundWhenDone
  <2>8. Sound(m, writes, dir)
    BY <2>3, <2>7 DEF Sound
  <2>9. SameDir(l, p, dir) => SameDir(m, p, dir)
    BY <2>1, <2>2, <2>5 DEF SameDir, ActiveAssets, Recorded
  <2> QED
    BY <2>1, <2>3, <2>4, <2>6, <2>8, <2>9 DEF PlanSound
<1> QED
  BY <1>1, <1>2

\* In a valid lockfile the version that repair chooses is the recorded active one.
LEMMA ChosenActiveOfValid ==
    ASSUME NEW l \in Lockfiles, Valid(l), NEW p \in Packages
    PROVE  ChosenActive(l, p) = l.active[p] /\ l.active[p] \in Keys \cup {None}
<1>1. CASE ActiveAssets(l, p) = {}
  BY <1>1 DEF ChosenActive, Valid, Lockfiles
<1>2. CASE ActiveAssets(l, p) # {}
  <2>1. \A a \in ActiveAssets(l, p) : a.key = l.active[p]
    BY DEF Valid
  <2>2. l.active[p] \in Keys
    BY <1>2, <2>1, CatalogFields DEF ActiveAssets, Recorded
  <2> QED
    BY <1>2, <2>1, <2>2, ChosenActiveKey
<1> QED
  BY <1>1, <1>2

\* Repair makes every asset of the chosen version active and no other.
LEMMA RepairPlanSound ==
    ASSUME NEW l \in Lockfiles, Valid(l), NEW p \in Packages,
           NEW dir \in Dirs \cup {None}, ~Unrepairable(l, p, dir)
    PROVE  PlanSound(RepairPlan(l, p, dir), dir)
<1> DEFINE k == ChosenActive(l, p)
           kept == Version(l, p, k)
           old == ActiveAssets(l, p) \ kept
           Expected(a) == IF l.link[a] # None THEN l.link[a] ELSE SymlinkPath(dir, a)
           wrong == {a \in kept : l.link[a] = None \/ AssetFault(l, a) = "ACTIVATION_BROKEN"}
           makes == {Op("link", a, Expected(a)) : a \in wrong}
           ops == Unlinks(l, old) \cup makes
           n == [link |-> [a \in Catalog |-> IF a \in kept THEN Expected(a)
                                             ELSE IF a \in old THEN None ELSE l.link[a]],
                 active |-> [l.active EXCEPT ![p] = k]]
<1>1. k = l.active[p] /\ k \in Keys \cup {None}
  BY ChosenActiveOfValid
<1>2. \A a \in kept : a \in Catalog /\ a.package = p /\ a.key = k /\ Expected(a) \in Links
  <2> TAKE a \in kept
  <2>1. a \in Catalog /\ a.package = p /\ a.key = k /\ l.link[a] # Absent
    BY DEF Version, Recorded
  <2>2. k # None
    BY <2>1, CatalogFields, ValuesAssumption
  <2>3. dir \in Dirs
    BY <2>2 DEF Unrepairable
  <2>4. l.link[a] \in Links \cup {None, Absent}
    BY <2>1 DEF Lockfiles
  <2> QED
    BY <2>1, <2>3, <2>4, SymlinkPathType
<1>3. \A a \in old : a \in Catalog /\ a.package = p /\ l.link[a] \in Links
  BY ActiveMeansLinked DEF ActiveAssets, Recorded
<1>4. Unlinks(l, old) \in SUBSET Ops /\ \A t \in Unlinks(l, old) : t.do # "link"
  BY <1>3, UnlinksType
<1>5. makes \in SUBSET Ops
  BY <1>2 DEF Op, Ops
<1>6. \A t \in makes : t.asset \in kept /\ t.at \in Links
  BY <1>2 DEF Op
<1>7. ops \in SUBSET Ops /\ \A t \in ops : t.do = "link" => t.asset \in kept /\ t.at \in Links
  BY <1>4, <1>5, <1>6
<1>8. \A a \in kept : n.link[a] = Expected(a)
  BY <1>2
<1>9. \A a \in Catalog \ kept : n.link[a] = IF a \in old THEN None ELSE l.link[a]
  OBVIOUS
<1>10. /\ n.active[p] = k
       /\ \A x \in Packages \ {p} : n.active[x] = l.active[x]
  BY DEF Lockfiles
<1>11. n \in Lockfiles
  <2>1. \A a \in Catalog : n.link[a] \in Links \cup {None, Absent}
    BY <1>2, <1>8, <1>9 DEF Lockfiles
  <2>2. n.active \in [Packages -> Keys \cup {None}]
    BY <1>1 DEF Lockfiles
  <2> QED
    BY <2>1, <2>2 DEF Lockfiles
<1>12. RepairPlan(l, p, dir) = [lock |-> n, ops |-> ops]
  BY DEF RepairPlan
<1>13. \A a \in ActiveAssets(l, p) : a \in kept
  BY <1>1 DEF Valid, ActiveAssets, Version
<1>14. \A a \in kept : n.link[a] \in Links
  BY <1>2, <1>8
<1> HIDE DEF n, ops, makes, kept, old, k
<1>15. \A a \in ActiveAssets(n, p) : a \in kept
  <2> TAKE a \in ActiveAssets(n, p)
  <2>1. a \in Catalog /\ a.package = p /\ n.link[a] \in Links
    BY <1>11, ActiveMeansLinked DEF ActiveAssets, Recorded
  <2>2. CASE a \notin kept
    <3>1. l.link[a] \in Links
      BY <2>1, <2>2, <1>9, ValuesAssumption
    <3> QED
      BY <3>1, <2>1, <2>2, <1>13, ActiveMeansLinked
  <2> QED
    BY <2>2
<1>16. \A x \in Packages \ {p} : ActiveAssets(n, x) = ActiveAssets(l, x)
  <2> TAKE x \in Packages \ {p}
  <2>1. \A a \in Catalog : a.package = x => n.link[a] = l.link[a]
    BY <1>2, <1>3, <1>9
  <2> QED
    BY <2>1 DEF ActiveAssets, Recorded
<1>17. \A x \in Packages : \A a \in ActiveAssets(n, x) : n.active[x] = a.key
  BY <1>2, <1>10, <1>15, <1>16 DEF Valid
<1>18. \A t \in ops : t.do = "link" =>
          /\ n.active[t.asset.package] = t.asset.key
          /\ n.link[t.asset] # Absent
          /\ t.at = None => dir \in Dirs
  BY <1>2, <1>7, <1>10, <1>14, ValuesAssumption
<1>19. \A x \in Packages : n.active[x] # None =>
          \E a \in ActiveAssets(n, x) : a.key = n.active[x]
  <2> TAKE x \in Packages
  <2> HAVE n.active[x] # None
  <2>1. CASE x = p
    <3>1. PICK a \in ActiveAssets(l, p) : TRUE
      BY <2>1, <1>1, <1>10 DEF Valid
    <3>2. a \in ActiveAssets(n, p) /\ a.key = k
      BY <3>1, <1>2, <1>11, <1>13, <1>14, ActiveMeansLinked
    <3> QED
      BY <2>1, <3>2, <1>10
  <2>2. CASE x # p
    BY <2>2, <1>10, <1>16 DEF Valid
  <2> QED
    BY <2>1, <2>2
<1>20. \A x \in Packages : ActiveAssets(n, x) \subseteq {a \in Catalog : a.package = x}
  BY DEF ActiveAssets, Recorded
<1> QED
  BY <1>7, <1>11, <1>12, <1>17, <1>18, <1>19, <1>20 DEF PlanSound, Sound

-----------------------------------------------------------------------------
(* How a step changes what a process does *)

\* A process's new run is well-formed and sound; the lockfile stays as it is.
LEMMA RunStep ==
    ASSUME IInv, NEW c \in Procs, NEW r \in Runs \cup {None}, r # None => RunSound(r),
           run' = [run EXCEPT ![c] = r], lockfile' = lockfile
    PROVE  /\ run' \in [Procs -> Runs \cup {None}]
           /\ Valid(lockfile)'
           /\ \A d \in Procs : run'[d] # None => RunSound(run'[d])
BY DEF IInv, TypeOK, Valid, ActiveAssets, Recorded

LEMMA AbandonStep ==
    ASSUME IInv, NEW c \in Procs, run[c] # None, Abandon(c), lockfile' = lockfile
    PROVE  /\ run' \in [Procs -> Runs \cup {None}]
           /\ cut' \in [Packages -> Intents \cup {None, Mixed, Damaged}]
           /\ Valid(lockfile)'
           /\ \A d \in Procs : run'[d] # None => RunSound(run'[d])
<1>1. run' = [run EXCEPT ![c] = None]
  BY DEF Abandon
<1>2. run[c].touched \in [Packages -> Intents \cup {None}]
  BY DEF IInv, TypeOK, Runs
<1>3. cut' \in [Packages -> Intents \cup {None, Mixed, Damaged}]
  BY <1>2 DEF Abandon, Onto, IInv, TypeOK
<1> QED
  BY <1>1, <1>3, RunStep

LEMMA RefuseStep ==
    ASSUME IInv, NEW c \in Procs, run[c] # None, Refuse(c)
    PROVE  IInv'
BY AbandonStep DEF Refuse, IInv, TypeOK, disk, bounds

LEMMA PerformStep ==
    ASSUME IInv, NEW c \in Procs, NEW p \in Packages, Turns(c, p),
           NEW plan, PlanSound(plan, run[c].cmd.dir),
           NEW intent \in Intents, NEW change \in BOOLEAN, Perform(c, p, plan, intent, change),
           cut' \in [Packages -> Intents \cup {None, Mixed, Damaged}]
    PROVE  IInv'
<1> DEFINE r == run[c]
           s == [r EXCEPT !.work = plan.lock, !.left = @ \ {p}, !.todo = plan.ops,
                          !.changed = @ \/ change, !.touched[p] = intent]
<1>1. r \in Runs /\ r.loaded /\ RunSound(r)
  BY DEF Turns, IInv, TypeOK
<1>2. run' = [run EXCEPT ![c] = s]
  BY DEF Perform
<1>3. plan.lock \in Lockfiles /\ plan.ops \in SUBSET Ops
  BY DEF PlanSound
<1>4. s \in Runs
  BY <1>1, <1>3 DEF Runs
<1>5. s.cmd = r.cmd /\ s.loaded = r.loaded /\ s.work = plan.lock /\ s.todo = plan.ops
  BY <1>1 DEF Runs
<1>6. RunSound(s)
  BY <1>1, <1>5 DEF RunSound, PlanSound
<1> HIDE DEF s
<1> QED
  BY <1>2, <1>4, <1>6, RunStep DEF Perform, IInv, TypeOK, disk, bounds

\* A process between two packages has a valid lockfile in hand.
LEMMA TurnsValid ==
    ASSUME IInv, NEW c \in Procs, run[c] # None, run[c].todo = {}
    PROVE  /\ run[c] \in Runs /\ run[c].work \in Lockfiles /\ Valid(run[c].work)
           /\ run[c].cmd \in Requests /\ run[c].cmd \in Commands
           /\ run[c].cmd.dir \in Dirs \cup {None}
<1>1. run[c] \in Runs /\ RunSound(run[c])
  BY DEF IInv, TypeOK
<1>2. run[c].work \in Lockfiles /\ run[c].cmd \in Commands
  BY <1>1 DEF Runs
<1> QED
  BY <1>1, <1>2, SoundWhenDone DEF RunSound, Commands

-----------------------------------------------------------------------------
(* The actions *)

LEMMA StartKeeps ==
    ASSUME IInv, NEW c \in Procs, NEW x \in Requests, Start(c, x)
    PROVE  IInv'
<1> DEFINE r == [cmd |-> x, loaded |-> FALSE, work |-> EmptyLockfile, left |-> {},
                 todo |-> {}, changed |-> FALSE, broken |-> {},
                 touched |-> [p \in Packages |-> None]]
<1>1. EmptyLockfile \in Lockfiles /\ Sound(EmptyLockfile, {}, x.dir)
  BY EmptyIsSound
<1>2. r \in Runs
  BY <1>1, RequestsAssumption DEF Runs
<1>3. RunSound(r)
  BY <1>1 DEF RunSound
<1>4. run' = [run EXCEPT ![c] = r]
  BY DEF Start
<1> HIDE DEF r
<1> QED
  <2>1. lockfile' = lockfile /\ files' = files /\ links' = links /\ cut' = cut
        /\ started' \in Nat /\ interrupts' \in Nat /\ damage' \in Nat
    BY DEF Start, IInv, TypeOK, disk
  <2> QED
    BY <1>2, <1>3, <1>4, <2>1, RunStep DEF IInv, TypeOK

LEMMA LoadKeeps ==
    ASSUME IInv, NEW c \in Procs, Load(c)
    PROVE  IInv'
<1> DEFINE r == run[c]
           known == {p \in Scope(r.cmd) : Recorded(lockfile, p) # {}}
           left == IF r.cmd.kind = "install" THEN Scope(r.cmd) ELSE known
           s == [r EXCEPT !.loaded = TRUE, !.work = lockfile, !.left = left]
<1>1. r # None /\ r \in Runs /\ RunSound(r) /\ ~r.loaded /\ UNCHANGED <<disk, bounds>>
  BY DEF Load, IInv, TypeOK
<1>2. CASE Abandon(c)
  BY <1>1, <1>2, AbandonStep DEF IInv, TypeOK, disk, bounds
<1>3. CASE run' = [run EXCEPT ![c] = s] /\ UNCHANGED cut
  <2>1. lockfile \in Lockfiles /\ Valid(lockfile)
    BY DEF IInv, TypeOK
  <2>2. left \in SUBSET Packages
    BY <1>1 DEF Scope, Runs, Commands
  <2> HIDE DEF left
  <2>3. s \in Runs
    BY <1>1, <2>1, <2>2 DEF Runs
  <2>4. s.cmd = r.cmd /\ s.loaded /\ s.work = lockfile /\ s.todo = r.todo
    BY <1>1 DEF Runs
  <2>5. RunSound(s)
    BY <1>1, <2>1, <2>4, SoundWhenDone DEF RunSound
  <2> HIDE DEF s
  <2> QED
    BY <1>1, <1>3, <2>3, <2>5, RunStep DEF IInv, TypeOK, disk, bounds
<1> QED
  BY <1>2, <1>3 DEF Load

LEMMA InstallDetailKeeps ==
    ASSUME IInv, NEW c \in Procs, NEW p \in Packages, NEW k \in Keys,
           Turns(c, p), Assets(p, k) # {}, InstallDetail(c, p, k)
    PROVE  IInv'
<1> DEFINE r == run[c]
           installing == InstallPlan(r.work, p, k)
           activating == ActivatePlan(installing.lock, p, k, r.cmd.dir)
           both == [activating EXCEPT !.ops = @ \cup installing.ops]
           intent == [kind |-> "install", keys |-> {k}, dir |-> r.cmd.dir]
<1>1. /\ r # None /\ r \in Runs /\ r.work \in Lockfiles /\ Valid(r.work)
      /\ r.cmd.dir \in Dirs \cup {None}
  BY TurnsValid DEF Turns
<1>2. /\ PlanSound(installing, r.cmd.dir) /\ Valid(installing.lock)
      /\ \A t \in installing.ops : t.do # "link"
      /\ SameDir(r.work, p, r.cmd.dir) => SameDir(installing.lock, p, r.cmd.dir)
  BY <1>1, InstallPlanSound
<1>3. intent \in Intents
  BY <1>1 DEF Intents
<1>4. Version(installing.lock, p, k) # {}
  <2>1. CASE k \notin InstalledKeys(r.work, p)
    <3>1. installing.lock = Recording(r.work, Assets(p, k), None)
      BY <2>1 DEF InstallPlan
    <3>2. \A a \in Assets(p, k) : installing.lock.link[a] = None
      BY <3>1, <1>1, RecordingType DEF Assets
    <3>3. Assets(p, k) \subseteq Version(installing.lock, p, k)
      BY <3>2, ValuesAssumption DEF Assets, Version, Recorded
    <3> QED
      BY <3>3
  <2>2. CASE k \in InstalledKeys(r.work, p)
    BY <2>2 DEF InstallPlan, InstalledKeys, Version
  <2> QED
    BY <2>1, <2>2
<1>5. CASE r.cmd.dir = None /\ Perform(c, p, installing, intent, installing.ops # {})
           /\ UNCHANGED cut
  BY <1>2, <1>3, <1>5, PerformStep DEF IInv, TypeOK
<1>6. CASE Refuse(c)
  BY <1>1, <1>6, RefuseStep
<1>7. CASE /\ r.cmd.dir # None /\ SameDir(r.work, p, r.cmd.dir)
           /\ Perform(c, p, both, intent, TRUE) /\ UNCHANGED cut
  <2>1. PlanSound(activating, r.cmd.dir)
    BY <1>1, <1>2, <1>4, <1>7, ActivatePlanSound DEF PlanSound
  <2>2. both.lock = activating.lock /\ both.ops = activating.ops \cup installing.ops
    BY DEF ActivatePlan
  <2> HIDE DEF both, activating, installing
  <2>3. PlanSound(both, r.cmd.dir)
    BY <2>1, <2>2, <1>2 DEF PlanSound, Sound
  <2> QED
    BY <2>3, <1>3, <1>7, PerformStep DEF IInv, TypeOK
<1> QED
  BY <1>5, <1>6, <1>7 DEF InstallDetail

LEMMA InstallKeeps ==
    ASSUME IInv, NEW c \in Procs, NEW p \in Packages, Install(c, p)
    PROVE  IInv'
<1>1. PICK a \in Assets(p, run[c].cmd.version) : TRUE
  BY DEF Install
<1>2. run[c].cmd.version \in Keys
  BY <1>1, CatalogFields DEF Assets
<1> QED
  BY <1>2, InstallDetailKeeps DEF Install

LEMMA UpdateKeeps ==
    ASSUME IInv, NEW c \in Procs, NEW p \in Packages, Update(c, p)
    PROVE  IInv'
<1>1. PICK k \in {a.key : a \in {b \in Catalog : b.package = p}} : InstallDetail(c, p, k)
  BY DEF Update
<1>2. k \in Keys /\ Assets(p, k) # {}
  BY DEF Keys, Assets
<1> QED
  BY <1>1, <1>2, InstallDetailKeeps DEF Update

LEMMA UpdateNothingKeeps ==
    ASSUME IInv, NEW c \in Procs, NEW p \in Packages, UpdateNothing(c, p)
    PROVE  IInv'
<1> DEFINE r == run[c]
           s == [r EXCEPT !.left = @ \ {p}]
<1>1. r \in Runs /\ RunSound(r) /\ run' = [run EXCEPT ![c] = s]
  BY DEF UpdateNothing, Turns, IInv, TypeOK
<1>2. s \in Runs /\ RunSound(s)
  BY <1>1 DEF Runs, RunSound
<1> HIDE DEF s
<1> QED
  BY <1>1, <1>2, RunStep DEF UpdateNothing, IInv, TypeOK, disk, bounds

LEMMA ActivateKeeps ==
    ASSUME IInv, NEW c \in Procs, NEW p \in Packages, Activate(c, p)
    PROVE  IInv'
<1> DEFINE r == run[c]
           meant == Meant(r.work, p, r.cmd.version)
           intent(k) == [kind |-> "activate", keys |-> {k}, dir |-> r.cmd.dir]
<1>1. /\ Turns(c, p) /\ r # None /\ r \in Runs /\ r.work \in Lockfiles /\ Valid(r.work)
      /\ r.cmd \in Requests /\ r.cmd.kind = "activate" /\ r.cmd.dir \in Dirs \cup {None}
  BY TurnsValid DEF Activate, Turns
<1>2. r.cmd.dir \in Dirs
  BY <1>1, RequestsAssumption
<1>3. CASE Refuse(c)
  BY <1>1, <1>3, RefuseStep
<1>4. ASSUME NEW k \in meant, SameDir(r.work, p, r.cmd.dir),
             Perform(c, p, ActivatePlan(r.work, p, k, r.cmd.dir), intent(k), TRUE),
             UNCHANGED cut
      PROVE  IInv'
  <2>1. k \in InstalledKeys(r.work, p)
    BY DEF Meant
  <2>2. k \in Keys /\ Version(r.work, p, k) # {}
    BY <2>1, CatalogFields DEF InstalledKeys, Version, Recorded
  <2>3. PlanSound(ActivatePlan(r.work, p, k, r.cmd.dir), r.cmd.dir)
    BY <1>1, <1>2, <1>4, <2>2, ActivatePlanSound
  <2>4. intent(k) \in Intents
    BY <1>2, <2>2 DEF Intents
  <2> QED
    BY <1>1, <1>4, <2>3, <2>4, PerformStep DEF IInv, TypeOK
<1> QED
  BY <1>3, <1>4 DEF Activate

LEMMA DeactivateKeeps ==
    ASSUME IInv, NEW c \in Procs, NEW p \in Packages, Deactivate(c, p)
    PROVE  IInv'
<1> DEFINE r == run[c]
           plan == DeactivatePlan(r.work, p, r.cmd.dir)
           intent == [kind |-> "deactivate", keys |-> {}, dir |-> r.cmd.dir]
<1>1. /\ Turns(c, p) /\ r.work \in Lockfiles /\ Valid(r.work)
      /\ r.cmd.dir \in Dirs \cup {None}
  BY TurnsValid DEF Deactivate, Turns
<1>2. PlanSound(plan, r.cmd.dir)
  BY <1>1, DeactivatePlanSound
<1>3. intent \in Intents
  BY <1>1 DEF Intents
<1>4. Perform(c, p, plan, intent, plan.ops # {}) /\ UNCHANGED cut
  BY DEF Deactivate
<1> HIDE DEF plan
<1> QED
  BY <1>1, <1>2, <1>3, <1>4, PerformStep DEF IInv, TypeOK

LEMMA UninstallKeeps ==
    ASSUME IInv, NEW c \in Procs, NEW p \in Packages, Uninstall(c, p)
    PROVE  IInv'
<1> DEFINE r == run[c]
           intent(keys) == [kind |-> "uninstall", keys |-> keys, dir |-> r.cmd.dir]
<1>1. /\ Turns(c, p) /\ r # None /\ r.work \in Lockfiles /\ Valid(r.work)
      /\ r.cmd.dir \in Dirs \cup {None}
  BY TurnsValid DEF Uninstall, Turns
<1>2. InstalledKeys(r.work, p) \subseteq Keys
  BY CatalogFields DEF InstalledKeys, Recorded
<1>3. CASE Refuse(c)
  BY <1>1, <1>3, RefuseStep
<1>4. ASSUME NEW keys \in SUBSET Keys,
             Perform(c, p, UninstallPlan(r.work, p, keys, r.cmd.dir), intent(keys), TRUE),
             UNCHANGED cut \/ cut' = [cut EXCEPT ![p] = Mixed]
      PROVE  IInv'
  <2>1. PlanSound(UninstallPlan(r.work, p, keys, r.cmd.dir), r.cmd.dir)
    BY <1>1, UninstallPlanSound
  <2>2. intent(keys) \in Intents
    BY <1>1 DEF Intents
  <2>3. cut' \in [Packages -> Intents \cup {None, Mixed, Damaged}]
    BY <1>4 DEF IInv, TypeOK
  <2> QED
    BY <1>1, <1>4, <2>1, <2>2, <2>3, PerformStep
<1>5. \A keys : \/ keys = InstalledKeys(r.work, p)
                \/ \E k \in Meant(r.work, p, r.cmd.version) : keys = {k}
                \/ \E k \in InstalledKeys(r.work, p) : keys = {k}
                => keys \in SUBSET Keys
  BY <1>2 DEF Meant
<1> QED
  BY <1>3, <1>4, <1>5 DEF Uninstall

LEMMA RepairKeeps ==
    ASSUME IInv, NEW c \in Procs, NEW p \in Packages, Repair(c, p)
    PROVE  IInv'
<1> DEFINE r == run[c]
           plan == RepairPlan(r.work, p, r.cmd.dir)
           intent == [kind |-> "repair", keys |-> {}, dir |-> r.cmd.dir]
           s == [r EXCEPT !.left = @ \ {p}, !.broken = @ \cup {p}]
<1>1. /\ Turns(c, p) /\ r # None /\ r \in Runs /\ RunSound(r)
      /\ r.work \in Lockfiles /\ Valid(r.work) /\ r.cmd.dir \in Dirs \cup {None}
  BY TurnsValid DEF Repair, Turns, IInv
<1>2. CASE Unrepairable(r.work, p, r.cmd.dir)
  <2>1. run' = [run EXCEPT ![c] = s] /\ UNCHANGED <<disk, cut, bounds>>
    BY <1>2 DEF Repair
  <2>2. s \in Runs /\ RunSound(s)
    BY <1>1 DEF Runs, RunSound
  <2> HIDE DEF s
  <2> QED
    BY <2>1, <2>2, RunStep DEF IInv, TypeOK, disk, bounds
<1>3. CASE ~Unrepairable(r.work, p, r.cmd.dir)
  <2>1. PlanSound(plan, r.cmd.dir)
    BY <1>1, <1>3, RepairPlanSound
  <2>2. intent \in Intents
    BY <1>1 DEF Intents
  <2>3. Perform(c, p, plan, intent, plan.ops # {}) /\ UNCHANGED cut
    BY <1>3 DEF Repair
  <2> HIDE DEF plan
  <2> QED
    BY <1>1, <2>1, <2>2, <2>3, PerformStep DEF IInv, TypeOK
<1> QED
  BY <1>2, <1>3

\* An operation that is no symlink to make leaves the edited lockfile as it is.
LEMMA DoneStep ==
    ASSUME IInv, NEW c \in Procs, run[c] # None, NEW t \in run[c].todo, t.do # "link",
           Done(c, t), lockfile' = lockfile
    PROVE  /\ run' \in [Procs -> Runs \cup {None}]
           /\ Valid(lockfile)'
           /\ \A d \in Procs : run'[d] # None => RunSound(run'[d])
<1> DEFINE r == run[c]
           s == [r EXCEPT !.todo = @ \ {t}]
<1>1. r \in Runs /\ RunSound(r) /\ run' = [run EXCEPT ![c] = s]
  BY DEF Done, IInv, TypeOK
<1>2. s \in Runs
  BY <1>1 DEF Runs
<1>3. /\ s.cmd = r.cmd /\ s.loaded = r.loaded /\ s.work = r.work
      /\ s.todo = r.todo \ {t}
  BY <1>1 DEF Runs
<1>4. RunSound(s)
  BY <1>1, <1>3 DEF RunSound, Sound
<1> HIDE DEF s
<1> QED
  BY <1>1, <1>2, <1>4, RunStep

LEMMA WriteAssetKeeps ==
    ASSUME IInv, NEW c \in Procs, WriteAsset(c)
    PROVE  IInv'
<1>1. PICK t \in Ready(c, "write") :
        files' = [files EXCEPT ![t.asset] = "good"] /\ Done(c, t)
  BY DEF WriteAsset
<1>2. run[c] # None /\ t \in run[c].todo /\ t.do = "write"
  BY DEF Ready
<1>3. files' \in [Catalog -> Contents]
  BY <1>1 DEF IInv, TypeOK, Contents
<1> QED
  BY <1>1, <1>2, <1>3, DoneStep DEF WriteAsset, IInv, TypeOK, bounds

LEMMA DeleteAssetKeeps ==
    ASSUME IInv, NEW c \in Procs, DeleteAsset(c)
    PROVE  IInv'
<1>1. PICK t \in Ready(c, "delete") :
        files' = [files EXCEPT ![t.asset] = "missing"] /\ Done(c, t)
  BY DEF DeleteAsset
<1>2. run[c] # None /\ t \in run[c].todo /\ t.do = "delete"
  BY DEF Ready
<1>3. files' \in [Catalog -> Contents]
  BY <1>1 DEF IInv, TypeOK, Contents
<1> QED
  BY <1>1, <1>2, <1>3, DoneStep DEF DeleteAsset, IInv, TypeOK, bounds

LEMMA UnlinkKeeps ==
    ASSUME IInv, NEW c \in Procs, Unlink(c)
    PROVE  IInv'
<1>1. PICK t \in Ready(c, "unlink") :
        links' = [links EXCEPT ![t.at] = None] /\ Done(c, t)
  BY DEF Unlink
<1>2. run[c] # None /\ t \in run[c].todo /\ t.do = "unlink"
  BY DEF Ready
<1>3. links' \in [Links -> Catalog \cup {None, Foreign}]
  BY <1>1 DEF IInv, TypeOK
<1> QED
  BY <1>1, <1>2, <1>3, DoneStep DEF Unlink, IInv, TypeOK, bounds

LEMMA LinkKeeps ==
    ASSUME IInv, NEW c \in Procs, Link(c)
    PROVE  IInv'
<1>1. PICK t \in Ready(c, "link") :
        LET name == IF t.at # None THEN t.at ELSE SymlinkPath(run[c].cmd.dir, t.asset) IN
        /\ links' = [links EXCEPT ![name] = t.asset]
        /\ run' = [run EXCEPT ![c].todo = @ \ {t}, ![c].work.link[t.asset] = name]
  BY DEF Link
<1> DEFINE r == run[c]
           name == IF t.at # None THEN t.at ELSE SymlinkPath(r.cmd.dir, t.asset)
           l == r.work
           m == [l EXCEPT !.link = [l.link EXCEPT ![t.asset] = name]]
           s == [r EXCEPT !.todo = @ \ {t}, !.work = m]
<1>2. r # None /\ t \in r.todo /\ t.do = "link"
  BY DEF Ready
<1>3. r \in Runs /\ RunSound(r) /\ l \in Lockfiles /\ t \in Ops
  BY <1>2 DEF IInv, TypeOK, Runs
<1>4. t.asset \in Catalog /\ name \in Links
  <2>1. t.asset \in Catalog /\ t.at \in Links \cup {None}
    BY <1>3 DEF Ops
  <2>2. t.at = None => r.cmd.dir \in Dirs
    BY <1>2, <1>3 DEF RunSound, Sound
  <2> QED
    BY <2>1, <2>2, SymlinkPathType
<1>5. links' \in [Links -> Catalog \cup {None, Foreign}]
  BY <1>1, <1>4 DEF IInv, TypeOK
<1>6. run' = [run EXCEPT ![c] = s]
  BY <1>1, <1>3 DEF IInv, TypeOK, Runs, Lockfiles
<1> HIDE DEF name
<1>7. m \in Lockfiles /\ m.active = l.active /\ m.link = [l.link EXCEPT ![t.asset] = name]
  BY <1>3, <1>4 DEF Lockfiles
<1> HIDE DEF m
<1>8. /\ s \in Runs /\ s.cmd = r.cmd /\ s.loaded = r.loaded /\ s.work = m
      /\ s.todo = r.todo \ {t}
  BY <1>3, <1>7 DEF Runs
<1> HIDE DEF s
<1>9. \A x \in Packages, a \in Catalog :
          a \in ActiveAssets(m, x) <=>
              a \in ActiveAssets(l, x) \/ (a = t.asset /\ a.package = x)
  BY <1>3, <1>4, <1>7, ActiveMeansLinked DEF Lockfiles
<1>10. Sound(m, r.todo \ {t}, r.cmd.dir)
  <2>1. \A x \in Packages : \A a \in ActiveAssets(m, x) : m.active[x] = a.key
    <3>1. l.active[t.asset.package] = t.asset.key
      BY <1>2, <1>3 DEF RunSound, Sound
    <3>2. \A x \in Packages : ActiveAssets(m, x) \subseteq Catalog
      BY DEF ActiveAssets, Recorded
    <3> QED
      BY <1>3, <1>7, <1>9, <3>1, <3>2 DEF RunSound, Sound
  <2>2. \A u \in r.todo \ {t} : u.do = "link" =>
            /\ m.active[u.asset.package] = u.asset.key
            /\ m.link[u.asset] # Absent
            /\ u.at = None => r.cmd.dir \in Dirs
    <3>1. \A a \in Catalog : l.link[a] # Absent => m.link[a] # Absent
      BY <1>3, <1>4, <1>7, ValuesAssumption DEF Lockfiles
    <3>2. \A u \in r.todo : u.asset \in Catalog
      BY <1>3 DEF Runs, Ops
    <3> QED
      BY <1>3, <1>7, <3>1, <3>2 DEF RunSound, Sound
  <2>3. \A x \in Packages : m.active[x] # None =>
            \E a \in Catalog :
                /\ a.package = x /\ a.key = m.active[x]
                /\ \/ a \in ActiveAssets(m, x)
                   \/ \E u \in r.todo \ {t} : u.do = "link" /\ u.asset = a
    BY <1>3, <1>7, <1>9 DEF RunSound, Sound
  <2> QED
    BY <2>1, <2>2, <2>3 DEF Sound
<1>11. RunSound(s)
  BY <1>2, <1>3, <1>8, <1>10 DEF RunSound
<1>12. lockfile' = lockfile /\ files' = files /\ UNCHANGED bounds
  BY DEF Link
<1>13. cut' \in [Packages -> Intents \cup {None, Mixed, Damaged}]
  <2>1. cut \in [Packages -> Intents \cup {None, Mixed, Damaged}]
    BY DEF IInv, TypeOK
  <2> QED
    BY <2>1 DEF Link
<1> QED
  BY <1>5, <1>6, <1>8, <1>11, <1>12, <1>13, RunStep DEF IInv, TypeOK, bounds

LEMMA FinishKeeps ==
    ASSUME IInv, NEW c \in Procs, Finish(c)
    PROVE  IInv'
<1> DEFINE r == run[c]
<1>1. r # None /\ r \in Runs /\ r.todo = {} /\ r.work \in Lockfiles /\ Valid(r.work)
  BY TurnsValid DEF Finish, Finished
<1>2. CASE Abandon(c) /\ UNCHANGED lockfile
  BY <1>1, <1>2, AbandonStep DEF Finish, IInv, TypeOK, bounds
<1>3. CASE /\ lockfile' = IF r.changed THEN r.work ELSE lockfile
           /\ run' = [run EXCEPT ![c] = None]
           /\ cut' = [p \in Packages |-> Completed(c, p)]
  <2>1. lockfile' \in Lockfiles
    BY <1>1, <1>3 DEF IInv, TypeOK
  <2>2. Valid(lockfile')
    BY <1>1, <1>3 DEF IInv
  <2>3. Valid(lockfile)'
    BY <2>2 DEF Valid, ActiveAssets, Recorded
  <2>4. cut' \in [Packages -> Intents \cup {None, Mixed, Damaged}]
    BY <1>3 DEF Completed, IInv, TypeOK
  <2>5. /\ run' \in [Procs -> Runs \cup {None}]
        /\ \A d \in Procs : run'[d] # None => RunSound(run'[d])
    BY <1>3 DEF IInv, TypeOK
  <2> QED
    BY <2>1, <2>3, <2>4, <2>5 DEF Finish, IInv, TypeOK, bounds
<1> QED
  BY <1>2, <1>3 DEF Finish

LEMMA InterruptKeeps ==
    ASSUME IInv, NEW c \in Procs, Interrupt(c)
    PROVE  IInv'
<1>1. files' \in [Catalog -> Contents]
  BY DEF Interrupt, IInv, TypeOK, Contents
<1>2. interrupts' \in Nat /\ UNCHANGED <<lockfile, links, started, damage>>
  BY DEF Interrupt, IInv, TypeOK
<1> QED
  BY <1>1, <1>2, AbandonStep DEF Interrupt, IInv, TypeOK

LEMMA OutsideKeeps ==
    ASSUME IInv, \/ \E p \in Packages : Damage(p) \/ Obstruct(p)
                 \/ \E k \in Links : Occupy(k)
    PROVE  IInv'
<1>1. files' \in [Catalog -> Contents]
  BY DEF Damage, Obstruct, Occupy, IInv, TypeOK, Contents
<1>2. links' \in [Links -> Catalog \cup {None, Foreign}]
  BY DEF Damage, Obstruct, Occupy, IInv, TypeOK
<1>3. cut' \in [Packages -> Intents \cup {None, Mixed, Damaged}]
  BY DEF Damage, Obstruct, Occupy, Onto, IInv, TypeOK
<1>4. started' \in Nat /\ interrupts' \in Nat /\ damage' \in Nat
  BY DEF Damage, Obstruct, Occupy, IInv, TypeOK
<1>5. lockfile' = lockfile /\ run' = run
  BY DEF Damage, Obstruct, Occupy
<1>6. Valid(lockfile)'
  BY <1>5 DEF IInv, Valid, ActiveAssets, Recorded
<1> QED
  BY <1>1, <1>2, <1>3, <1>4, <1>5, <1>6 DEF IInv, TypeOK

-----------------------------------------------------------------------------
(* Theorems *)

LEMMA InitSound == Init => IInv
<1> SUFFICES ASSUME Init PROVE IInv
  OBVIOUS
<1>1. EmptyLockfile \in Lockfiles /\ Sound(EmptyLockfile, {}, None)
  BY EmptyIsSound
<1>2. Valid(EmptyLockfile)
  BY <1>1, SoundWhenDone
<1> QED
  BY <1>1, <1>2 DEF Init, IInv, TypeOK, Contents

LEMMA NextSound == IInv /\ [Next]_vars => IInv'
<1> SUFFICES ASSUME IInv, [Next]_vars PROVE IInv'
  OBVIOUS
<1>1. ASSUME NEW c \in Procs, NEW x \in Requests, Start(c, x) PROVE IInv'
  BY <1>1, StartKeeps
<1>2. ASSUME NEW c \in Procs, Load(c) PROVE IInv'
  BY <1>2, LoadKeeps
<1>3. ASSUME NEW c \in Procs, NEW p \in Packages,
             \/ Install(c, p) \/ UpdateNothing(c, p) \/ Update(c, p) \/ Activate(c, p)
             \/ Deactivate(c, p) \/ Uninstall(c, p) \/ Repair(c, p)
      PROVE  IInv'
  BY <1>3, InstallKeeps, UpdateNothingKeeps, UpdateKeeps, ActivateKeeps,
     DeactivateKeeps, UninstallKeeps, RepairKeeps
<1>4. ASSUME NEW c \in Procs, WriteAsset(c) \/ Unlink(c) \/ DeleteAsset(c) \/ Link(c)
      PROVE  IInv'
  BY <1>4, WriteAssetKeeps, UnlinkKeeps, DeleteAssetKeeps, LinkKeeps
<1>5. ASSUME NEW c \in Procs, Finish(c) PROVE IInv'
  BY <1>5, FinishKeeps
<1>6. ASSUME NEW c \in Procs, Interrupt(c) PROVE IInv'
  BY <1>6, InterruptKeeps
<1>7. ASSUME \/ \E p \in Packages : Damage(p) \/ Obstruct(p)
             \/ \E k \in Links : Occupy(k)
      PROVE  IInv'
  BY <1>7, OutsideKeeps
<1>8. CASE UNCHANGED vars
  BY <1>8 DEF vars, disk, bounds, IInv, TypeOK, Valid, ActiveAssets, Recorded
<1> QED
  BY <1>1, <1>2, <1>3, <1>4, <1>5, <1>6, <1>7, <1>8 DEF Next

LEMMA Invariance == Spec => []IInv
<1> QED
  BY InitSound, NextSound, PTL DEF Spec

\* Every variable of the command keeps its type, for any processes and failures.
THEOREM TypeCorrect == Spec => []TypeOK
<1>1. IInv => TypeOK
  BY DEF IInv
<1> QED
  BY <1>1, Invariance, PTL

\* The lockfile on disk always loads, and no command that got to its end is refused the
\* save (Load and Save both validate, lockfile.go:31 and 41): for any number of processes,
\* also where they overwrite each other's lockfile.
THEOREM NeverRefused == Spec => []SaveNeverRefused
<1>1. IInv => SaveNeverRefused
  <2> SUFFICES ASSUME IInv, NEW c \in Procs, Finished(c) PROVE Valid(run[c].work)
    BY DEF SaveNeverRefused, IInv
  <2> QED
    BY TurnsValid DEF Finished
<1> QED
  BY <1>1, Invariance, PTL

-----------------------------------------------------------------------------
(***************************************************************************)
(* What ls and verify say.  An activation is all of a version or nothing   *)
(* of it, since the symlinks of a package lie in one directory: a command  *)
(* that removes those in a directory removes all of them or none.          *)
(***************************************************************************)

\* The directory of a symlink that is still to be made.
Target(t, dir) == IF t.at = None THEN dir ELSE t.at.dir

\* All symlinks of package p, those to be made included, are in directory d.
AllIn(l, todo, dir, p, d) ==
    /\ \A a \in ActiveAssets(l, p) : l.link[a].dir = d
    /\ \A t \in todo : t.do = "link" /\ t.asset.package = p => Target(t, dir) = d

\* Every asset of the active version has its symlink, or will have.
AllActive(l, todo, p) ==
    \A a \in Recorded(l, p) : a.key = l.active[p] =>
        l.link[a] # None \/ \E t \in todo : t.do = "link" /\ t.asset = a

Whole(l, todo, dir) ==
    \A p \in Packages : AllActive(l, todo, p) /\ \E d \in Dirs \cup {None} : AllIn(l, todo, dir, p, d)

Wholes ==
    /\ Whole(lockfile, {}, None)
    /\ \A c \in Procs : run[c] # None => Whole(run[c].work, run[c].todo, run[c].cmd.dir)

LEMMA WholeWhenDone ==
    ASSUME NEW l, NEW dir, NEW other
    PROVE  Whole(l, {}, dir) <=> Whole(l, {}, other)
BY DEF Whole, AllActive, AllIn

\* Operations that make no symlinks have no part in it.
LEMMA WholeButForLinks ==
    ASSUME NEW l, NEW todo, NEW ops, NEW dir, \A t \in ops : t.do # "link"
    PROVE  Whole(l, todo \cup ops, dir) <=> Whole(l, todo, dir)
<1>1. \A p : AllActive(l, todo \cup ops, p) <=> AllActive(l, todo, p)
  BY DEF AllActive
<1>2. \A p, d : AllIn(l, todo \cup ops, dir, p, d) <=> AllIn(l, todo, dir, p, d)
  BY DEF AllIn
<1> QED
  BY <1>1, <1>2 DEF Whole

LEMMA EmptyIsWhole == \A dir : Whole(EmptyLockfile, {}, dir)
<1>1. \A p \in Packages : Recorded(EmptyLockfile, p) = {}
  BY DEF EmptyLockfile, Recorded
<1> QED
  BY <1>1 DEF Whole, AllActive, AllIn, ActiveAssets

\* A package that a plan leaves as it is.
LEMMA OthersWhole ==
    ASSUME NEW l, NEW todo, NEW dir, Whole(l, {}, dir),
           NEW m, NEW x \in Packages, m.active[x] = l.active[x],
           \A a \in Catalog : a.package = x => m.link[a] = l.link[a],
           \A t \in todo : t.do = "link" => t.asset.package # x
    PROVE  AllActive(m, todo, x) /\ \E d \in Dirs \cup {None} : AllIn(m, todo, dir, x, d)
<1>1. Recorded(m, x) = Recorded(l, x) /\ ActiveAssets(m, x) = ActiveAssets(l, x)
  BY DEF Recorded, ActiveAssets
<1>2. \A a \in Recorded(m, x) : a \in Catalog /\ a.package = x
  BY DEF Recorded
<1>3. ActiveAssets(m, x) \subseteq Recorded(m, x)
  BY DEF ActiveAssets
<1>4. PICK d \in Dirs \cup {None} : AllIn(l, {}, dir, x, d)
  BY DEF Whole
<1>5. AllIn(m, todo, dir, x, d)
  BY <1>1, <1>2, <1>3, <1>4 DEF AllIn
<1>6. AllActive(m, todo, x)
  BY <1>1, <1>2 DEF Whole, AllActive
<1> QED
  BY <1>5, <1>6

\* What deactivate and uninstall record is whole if the active version loses its symlinks
\* only with all of them.
LEMMA SomeActiveWhole ==
    ASSUME NEW l \in Lockfiles, Valid(l), NEW dir, Whole(l, {}, dir), NEW p \in Packages,
           NEW assets \in SUBSET Recorded(l, p),
           NEW link \in {None, Absent}, NEW todo, \A t \in todo : t.do # "link",
           \A a \in Recorded(l, p) : a.key = l.active[p] /\ a \notin assets =>
               \A b \in Recorded(l, p) : b.key = l.active[p] => b \notin assets
    PROVE  Whole(SomeActive(Recording(l, assets, link), p), todo, dir)
<1> DEFINE m == Recording(l, assets, link)
           n == SomeActive(m, p)
<1>1. /\ m \in Lockfiles /\ m.active = l.active
      /\ \A a \in Catalog : m.link[a] = IF a \in assets THEN link ELSE l.link[a]
  BY RecordingType
<1> HIDE DEF m
<1>2. ActiveAssets(m, p) \subseteq ActiveAssets(l, p) \ assets
  BY <1>1, ValuesAssumption, ActiveMeansLinked DEF ActiveAssets, Recorded
<1>3. \A a \in ActiveAssets(m, p) : a.key = l.active[p] /\ a.key \in Keys
  BY <1>2, CatalogFields DEF Valid, ActiveAssets, Recorded
<1>4. ChosenActive(m, p) = IF ActiveAssets(m, p) = {} THEN None ELSE l.active[p]
  <2>1. CASE ActiveAssets(m, p) = {}
    BY <2>1 DEF ChosenActive
  <2>2. CASE ActiveAssets(m, p) # {}
    BY <2>2, <1>1, <1>3, ChosenActiveKey
  <2> QED
    BY <2>1, <2>2
<1>5. /\ n.link = m.link /\ n.active[p] = ChosenActive(m, p)
      /\ \A x \in Packages \ {p} : n.active[x] = l.active[x]
  BY <1>1 DEF SomeActive, Lockfiles
<1>10. \A a \in assets : a.package = p
  BY DEF Recorded
<1> HIDE DEF n
<1>6. \A x : Recorded(n, x) = Recorded(m, x) /\ ActiveAssets(n, x) = ActiveAssets(m, x)
  BY <1>5 DEF Recorded, ActiveAssets
<1>7. AllActive(n, todo, p)
  <2> SUFFICES ASSUME NEW a \in Recorded(n, p), a.key = n.active[p] PROVE n.link[a] # None
    BY DEF AllActive
  <2>1. a \in Catalog /\ a.package = p /\ m.link[a] # Absent /\ a.key \in Keys
    BY <1>6, CatalogFields DEF Recorded
  <2>2. PICK b \in ActiveAssets(m, p) : TRUE
    BY <2>1, <1>4, <1>5, ValuesAssumption
  <2>3. a.key = l.active[p]
    BY <2>2, <1>4, <1>5
  <2>4. b \in Recorded(l, p) /\ b.key = l.active[p] /\ b \notin assets
    BY <2>2, <1>2, <1>3 DEF ActiveAssets
  <2>5. CASE a \in assets
    BY <2>3, <2>4, <2>5
  <2>6. CASE a \notin assets
    <3>1. m.link[a] = l.link[a] /\ a \in Recorded(l, p)
      BY <2>1, <2>6, <1>1 DEF Recorded
    <3> QED
      BY <3>1, <2>3, <1>5 DEF Whole, AllActive
  <2> QED
    BY <2>5, <2>6
<1>8. \E d \in Dirs \cup {None} : AllIn(n, todo, dir, p, d)
  <2>1. PICK d \in Dirs \cup {None} : AllIn(l, {}, dir, p, d)
    BY DEF Whole
  <2>2. \A a \in ActiveAssets(n, p) : n.link[a] = l.link[a] /\ a \in ActiveAssets(l, p)
    BY <1>1, <1>2, <1>5, <1>6 DEF ActiveAssets, Recorded
  <2> QED
    BY <2>1, <2>2 DEF AllIn
<1>9. \A x \in Packages \ {p} :
          AllActive(n, todo, x) /\ \E d \in Dirs \cup {None} : AllIn(n, todo, dir, x, d)
  <2> TAKE x \in Packages \ {p}
  <2>1. \A a \in Catalog : a.package = x => n.link[a] = l.link[a]
    BY <1>1, <1>5, <1>10
  <2> QED
    BY <2>1, <1>5, OthersWhole
<1> QED
  BY <1>7, <1>8, <1>9 DEF Whole, n, m

\* A plan whose result will be whole when it is worked off.
PlanWhole(plan, dir) == Whole(plan.lock, plan.ops, dir)

LEMMA DeactivatePlanWhole ==
    ASSUME NEW l \in Lockfiles, Valid(l), NEW p \in Packages, NEW dir \in Dirs \cup {None},
           Whole(l, {}, dir)
    PROVE  PlanWhole(DeactivatePlan(l, p, dir), dir)
<1> DEFINE old == {a \in ActiveAssets(l, p) : InDir(l.link[a], dir)}
<1>1. old \in SUBSET Recorded(l, p)
  BY DEF ActiveAssets
<1>2. \A t \in Unlinks(l, old) : t.do # "link"
  BY DEF Unlinks, Op
<1>3. \A a \in Recorded(l, p) : a.key = l.active[p] => a \in ActiveAssets(l, p)
  BY DEF Whole, AllActive, ActiveAssets
<1>4. \A a, b \in ActiveAssets(l, p) : l.link[a].dir = l.link[b].dir
  BY DEF Whole, AllIn
<1>5. \A a \in ActiveAssets(l, p) : l.link[a] \in Links
  BY ActiveMeansLinked DEF ActiveAssets, Recorded
<1>6. \A a \in Recorded(l, p) : a.key = l.active[p] /\ a \notin old =>
          \A b \in Recorded(l, p) : b.key = l.active[p] => b \notin old
  BY <1>3, <1>4, <1>5 DEF InDir
<1> HIDE DEF old
<1>7. Whole(SomeActive(Recording(l, old, None), p), Unlinks(l, old), dir)
  BY <1>1, <1>2, <1>6, SomeActiveWhole
<1>8. DeactivatePlan(l, p, dir) =
          [lock |-> SomeActive(Recording(l, old, None), p), ops |-> Unlinks(l, old)]
  BY DEF DeactivatePlan, old
<1> QED
  BY <1>7, <1>8 DEF PlanWhole

LEMMA UninstallPlanWhole ==
    ASSUME NEW l \in Lockfiles, Valid(l), NEW p \in Packages, NEW keys, NEW dir,
           Whole(l, {}, dir)
    PROVE  PlanWhole(UninstallPlan(l, p, keys, dir), dir)
<1> DEFINE gone == {a \in Recorded(l, p) : a.key \in keys}
           ops == Unlinks(l, {a \in gone : InDir(l.link[a], dir)})
                  \cup {Op("delete", a, None) : a \in gone}
<1>1. \A t \in ops : t.do # "link"
  BY DEF Unlinks, Op
<1>2. UninstallPlan(l, p, keys, dir) =
          [lock |-> SomeActive(Recording(l, gone, Absent), p), ops |-> ops]
  BY DEF UninstallPlan
<1> HIDE DEF ops
<1>3. Whole(SomeActive(Recording(l, gone, Absent), p), ops, dir)
  BY <1>1, SomeActiveWhole
<1> QED
  BY <1>2, <1>3 DEF PlanWhole

\* An activation makes a symlink for every asset, in the directory where those it keeps are.
LEMMA ActivatePlanWhole ==
    ASSUME NEW l \in Lockfiles, Valid(l), NEW p \in Packages, NEW k \in Keys,
           NEW dir \in Dirs, SameDir(l, p, dir), Whole(l, {}, dir)
    PROVE  PlanWhole(ActivatePlan(l, p, k, dir), dir)
<1> DEFINE old == {a \in ActiveAssets(l, p) : a.key # k /\ InDir(l.link[a], dir)}
           m == Recording(l, old, None)
           n == [m EXCEPT !.active[p] = k]
           makes == {Op("link", a, None) : a \in Version(l, p, k)}
           ops == Unlinks(l, old) \cup makes
<1>1. /\ m \in Lockfiles /\ m.active = l.active
      /\ \A a \in Catalog : m.link[a] = IF a \in old THEN None ELSE l.link[a]
  BY RecordingType
<1>2. \A t \in Unlinks(l, old) : t.do # "link"
  BY DEF Unlinks, Op
<1>3. \A t \in makes : t.asset.package = p /\ Target(t, dir) = dir
  BY DEF Op, Version, Recorded, Target
<1>4. \A a \in Version(l, p, k) : \E t \in ops : t.do = "link" /\ t.asset = a
  <2> TAKE a \in Version(l, p, k)
  <2>1. Op("link", a, None) \in ops
    OBVIOUS
  <2> QED
    BY <2>1 DEF Op
<1>5. ActivatePlan(l, p, k, dir) = [lock |-> n, ops |-> ops]
  BY DEF ActivatePlan
<1>6. \A a \in old : a \in Recorded(l, p)
  BY DEF ActiveAssets
<1>7. \A t \in ops : t.do = "link" => t.asset.package = p /\ Target(t, dir) = dir
  BY <1>2, <1>3
<1> HIDE DEF old, m, makes, ops
<1>8. /\ n.link = m.link /\ n.active[p] = k
      /\ \A x \in Packages \ {p} : n.active[x] = l.active[x]
  BY <1>1 DEF Lockfiles
<1> HIDE DEF n
<1>9. \A a \in Recorded(n, p) : a \in Recorded(l, p)
  BY <1>1, <1>6, <1>8 DEF Recorded
<1>10. AllActive(n, ops, p)
  BY <1>4, <1>8, <1>9 DEF AllActive, Version
<1>11. AllIn(n, ops, dir, p, dir)
  <2>1. \A a \in ActiveAssets(n, p) : a \in ActiveAssets(l, p) /\ n.link[a] = l.link[a]
    BY <1>1, <1>8, <1>9 DEF ActiveAssets, Recorded
  <2> QED
    BY <2>1, <1>7 DEF AllIn, SameDir
<1>12. \A x \in Packages \ {p} :
          AllActive(n, ops, x) /\ \E d \in Dirs \cup {None} : AllIn(n, ops, dir, x, d)
  <2> TAKE x \in Packages \ {p}
  <2>1. \A a \in Catalog : a.package = x => n.link[a] = l.link[a]
    BY <1>1, <1>6, <1>8 DEF Recorded
  <2> QED
    BY <2>1, <1>7, <1>8, OthersWhole
<1> QED
  BY <1>5, <1>10, <1>11, <1>12 DEF PlanWhole, Whole

\* What is installed is not active, and no version of which a part is installed is.
LEMMA InstallPlanWhole ==
    ASSUME NEW l \in Lockfiles, Valid(l), NEW p \in Packages, NEW k, NEW dir, Whole(l, {}, dir)
    PROVE  LET plan == InstallPlan(l, p, k) IN
           Whole(plan.lock, {}, dir) /\ PlanWhole(plan, dir)
<1> DEFINE plan == InstallPlan(l, p, k)
<1>1. CASE k \in InstalledKeys(l, p)
  BY <1>1 DEF InstallPlan, PlanWhole
<1>2. CASE k \notin InstalledKeys(l, p)
  <2> DEFINE m == Recording(l, Assets(p, k), None)
             writes == {Op("write", a, None) : a \in Assets(p, k)}
  <2>1. /\ m \in Lockfiles /\ m.active = l.active
        /\ \A a \in Catalog : m.link[a] = IF a \in Assets(p, k) THEN None ELSE l.link[a]
    BY RecordingType
  <2>2. plan = [lock |-> m, ops |-> writes]
    BY <1>2 DEF InstallPlan
  <2>3. \A t \in writes : t.do # "link"
    BY DEF Op
  <2> HIDE DEF m, writes
  <2>4. l.active[p] # k \/ l.active[p] = None
    BY <1>2 DEF Valid, ActiveAssets, InstalledKeys
  <2>5. \A a \in Catalog : a.package = p /\ a.key = l.active[p] => a \notin Assets(p, k)
    BY <2>4, CatalogFields, ValuesAssumption DEF Assets
  <2>6. \A a \in Recorded(m, p) : a.key = m.active[p] => m.link[a] # None
    BY <2>1, <2>5 DEF Whole, AllActive, Recorded
  <2>7. \A a \in ActiveAssets(m, p) : a \in ActiveAssets(l, p) /\ m.link[a] = l.link[a]
    BY <2>1 DEF ActiveAssets, Recorded
  <2>8. AllActive(m, {}, p) /\ \E d \in Dirs \cup {None} : AllIn(m, {}, dir, p, d)
    BY <2>6, <2>7 DEF AllActive, AllIn, Whole
  <2>9. \A x \in Packages \ {p} :
          AllActive(m, {}, x) /\ \E d \in Dirs \cup {None} : AllIn(m, {}, dir, x, d)
    <3> TAKE x \in Packages \ {p}
    <3>1. \A a \in Catalog : a.package = x => m.link[a] = l.link[a]
      BY <2>1 DEF Assets
    <3> QED
      BY <2>1, <3>1, OthersWhole
  <2>10. Whole(m, {}, dir)
    BY <2>8, <2>9 DEF Whole
  <2>11. Whole(m, writes, dir)
    BY <2>3, <2>10, WholeButForLinks, {} \cup writes = writes
  <2> QED
    BY <2>2, <2>10, <2>11 DEF PlanWhole
<1> QED
  BY <1>1, <1>2

\* A repair makes symlinks anew under the names they have.
LEMMA RepairPlanWhole ==
    ASSUME NEW l \in Lockfiles, Valid(l), NEW p \in Packages, NEW dir, Whole(l, {}, dir)
    PROVE  PlanWhole(RepairPlan(l, p, dir), dir)
<1> DEFINE k == ChosenActive(l, p)
           kept == Version(l, p, k)
           old == ActiveAssets(l, p) \ kept
           Expected(a) == IF l.link[a] # None THEN l.link[a] ELSE SymlinkPath(dir, a)
           wrong == {a \in kept : l.link[a] = None \/ AssetFault(l, a) = "ACTIVATION_BROKEN"}
           makes == {Op("link", a, Expected(a)) : a \in wrong}
           ops == Unlinks(l, old) \cup makes
           n == [link |-> [a \in Catalog |-> IF a \in kept THEN Expected(a)
                                             ELSE IF a \in old THEN None ELSE l.link[a]],
                 active |-> [l.active EXCEPT ![p] = k]]
<1>1. k = l.active[p]
  BY ChosenActiveOfValid
<1>2. \A a \in kept : a \in Recorded(l, p) /\ l.link[a] \in Links /\ Expected(a) = l.link[a]
  <2> TAKE a \in kept
  <2>1. a \in Recorded(l, p) /\ a.key = l.active[p]
    BY <1>1 DEF Version
  <2>2. l.link[a] # None
    BY <2>1 DEF Whole, AllActive
  <2> QED
    BY <2>1, <2>2 DEF Recorded, Lockfiles
<1>3. old = {}
  BY <1>1 DEF Valid, ActiveAssets, Version
<1>4. n.link = l.link
  BY <1>2, <1>3 DEF Lockfiles
<1>5. n.active = l.active
  BY <1>1 DEF Lockfiles
<1>6. \A t \in ops : t.do = "link" => t.asset \in kept /\ t.at = l.link[t.asset]
  BY <1>2 DEF Op, Unlinks
<1>7. RepairPlan(l, p, dir) = [lock |-> n, ops |-> ops]
  BY DEF RepairPlan
<1>8. \A t \in ops : t.do = "link" =>
          t.asset \in ActiveAssets(l, p) /\ Target(t, dir) = l.link[t.asset].dir
  <2> TAKE t \in ops
  <2> HAVE t.do = "link"
  <2>1. t.asset \in Recorded(l, p) /\ l.link[t.asset] \in Links /\ t.at = l.link[t.asset]
    BY <1>2, <1>6
  <2> QED
    BY <2>1, ValuesAssumption DEF ActiveAssets, Target
<1> HIDE DEF n, ops, makes, kept, old, k
<1>9. \A x : Recorded(n, x) = Recorded(l, x) /\ ActiveAssets(n, x) = ActiveAssets(l, x)
  BY <1>4 DEF Recorded, ActiveAssets
<1> SUFFICES ASSUME NEW x \in Packages
             PROVE  AllActive(n, ops, x) /\ \E d \in Dirs \cup {None} : AllIn(n, ops, dir, x, d)
  BY <1>7 DEF PlanWhole, Whole
<1>10. AllActive(n, ops, x)
  BY <1>4, <1>5, <1>9 DEF Whole, AllActive
<1>11. PICK d \in Dirs \cup {None} : AllIn(l, {}, dir, x, d)
  BY DEF Whole
<1>12. \A t \in ops : t.do = "link" /\ t.asset.package = x => t.asset \in ActiveAssets(l, x)
  BY <1>8 DEF ActiveAssets, Recorded
<1>13. AllIn(n, ops, dir, x, d)
  BY <1>4, <1>8, <1>9, <1>11, <1>12 DEF AllIn
<1> QED
  BY <1>10, <1>13

-----------------------------------------------------------------------------

\* A process's run changes, the lockfile does not.
LEMMA RunWholeStep ==
    ASSUME IInv, Wholes, NEW c \in Procs, NEW r,
           r # None => Whole(r.work, r.todo, r.cmd.dir),
           run' = [run EXCEPT ![c] = r], lockfile' = lockfile
    PROVE  Wholes'
<1>1. \A d \in Procs : run'[d] # None => Whole(run'[d].work, run'[d].todo, run'[d].cmd.dir)
  BY DEF Wholes, IInv, TypeOK
<1>2. Whole(lockfile', {}, None)
  BY DEF Wholes
<1> QED
  BY <1>1, <1>2 DEF Wholes, Whole, AllActive, AllIn, Target, ActiveAssets, Recorded

LEMMA AbandonWhole ==
    ASSUME IInv, Wholes, NEW c \in Procs, Abandon(c), lockfile' = lockfile
    PROVE  Wholes'
<1>1. run' = [run EXCEPT ![c] = None]
  BY DEF Abandon
<1> QED
  BY <1>1, RunWholeStep

LEMMA PerformWhole ==
    ASSUME IInv, Wholes, NEW c \in Procs, NEW p \in Packages, Turns(c, p),
           NEW plan, PlanWhole(plan, run[c].cmd.dir),
           NEW intent, NEW change, Perform(c, p, plan, intent, change)
    PROVE  Wholes'
<1> DEFINE r == run[c]
           s == [r EXCEPT !.work = plan.lock, !.left = @ \ {p}, !.todo = plan.ops,
                          !.changed = @ \/ change, !.touched[p] = intent]
<1>1. r \in Runs
  BY DEF Turns, IInv, TypeOK
<1>2. run' = [run EXCEPT ![c] = s] /\ lockfile' = lockfile
  BY DEF Perform, disk
<1>3. s.cmd = r.cmd /\ s.work = plan.lock /\ s.todo = plan.ops
  BY <1>1 DEF Runs
<1> HIDE DEF s
<1> QED
  BY <1>2, <1>3, RunWholeStep DEF PlanWhole

\* Between two packages a process has a whole lockfile in hand.
LEMMA TurnsWhole ==
    ASSUME IInv, Wholes, NEW c \in Procs, run[c] # None, run[c].todo = {}
    PROVE  Whole(run[c].work, {}, run[c].cmd.dir)
BY DEF Wholes

LEMMA StartLoadWhole ==
    ASSUME IInv, Wholes, NEW c \in Procs, Load(c) \/ \E x \in Requests : Start(c, x)
    PROVE  Wholes'
<1>1. ASSUME NEW x \in Requests, Start(c, x) PROVE Wholes'
  <2> DEFINE r == [cmd |-> x, loaded |-> FALSE, work |-> EmptyLockfile, left |-> {},
                   todo |-> {}, changed |-> FALSE, broken |-> {},
                   touched |-> [p \in Packages |-> None]]
  <2>1. run' = [run EXCEPT ![c] = r] /\ lockfile' = lockfile
    BY <1>1 DEF Start, disk
  <2>2. Whole(r.work, r.todo, r.cmd.dir)
    BY EmptyIsWhole
  <2> HIDE DEF r
  <2> QED
    BY <2>1, <2>2, RunWholeStep
<1>2. CASE Load(c)
  <2> DEFINE r == run[c]
             known == {p \in Scope(r.cmd) : Recorded(lockfile, p) # {}}
             left == IF r.cmd.kind = "install" THEN Scope(r.cmd) ELSE known
             s == [r EXCEPT !.loaded = TRUE, !.work = lockfile, !.left = left]
  <2>1. r \in Runs /\ r.todo = {} /\ lockfile' = lockfile
    BY <1>2 DEF Load, IInv, TypeOK, RunSound, disk
  <2>2. CASE Abandon(c)
    BY <2>1, <2>2, AbandonWhole
  <2>3. CASE run' = [run EXCEPT ![c] = s]
    <3>1. s.work = lockfile /\ s.todo = {}
      BY <2>1 DEF Runs
    <3> HIDE DEF s
    <3>2. Whole(lockfile, {}, s.cmd.dir)
      BY WholeWhenDone DEF Wholes
    <3> QED
      BY <2>1, <2>3, <3>1, <3>2, RunWholeStep
  <2> QED
    BY <1>2, <2>2, <2>3 DEF Load
<1> QED
  BY <1>1, <1>2

LEMMA InstallDetailWhole ==
    ASSUME IInv, Wholes, NEW c \in Procs, NEW p \in Packages, NEW k \in Keys,
           Turns(c, p), InstallDetail(c, p, k)
    PROVE  Wholes'
<1> DEFINE r == run[c]
           installing == InstallPlan(r.work, p, k)
           activating == ActivatePlan(installing.lock, p, k, r.cmd.dir)
           both == [activating EXCEPT !.ops = @ \cup installing.ops]
           intent == [kind |-> "install", keys |-> {k}, dir |-> r.cmd.dir]
<1>1. /\ r.work \in Lockfiles /\ Valid(r.work) /\ Whole(r.work, {}, r.cmd.dir)
      /\ r.cmd.dir \in Dirs \cup {None}
  BY TurnsValid, TurnsWhole DEF Turns
<1>2. Whole(installing.lock, {}, r.cmd.dir) /\ PlanWhole(installing, r.cmd.dir)
  BY <1>1, InstallPlanWhole
<1>3. /\ installing.lock \in Lockfiles /\ Valid(installing.lock)
      /\ \A t \in installing.ops : t.do # "link"
      /\ SameDir(r.work, p, r.cmd.dir) => SameDir(installing.lock, p, r.cmd.dir)
  BY <1>1, InstallPlanSound DEF PlanSound
<1>4. CASE Perform(c, p, installing, intent, installing.ops # {})
  BY <1>2, <1>4, PerformWhole
<1>5. CASE Refuse(c)
  BY <1>5, AbandonWhole DEF Refuse, disk
<1>6. CASE /\ r.cmd.dir # None /\ SameDir(r.work, p, r.cmd.dir)
           /\ Perform(c, p, both, intent, TRUE)
  <2>1. PlanWhole(activating, r.cmd.dir)
    BY <1>1, <1>2, <1>3, <1>6, ActivatePlanWhole
  <2>2. both.lock = activating.lock /\ both.ops = activating.ops \cup installing.ops
    BY DEF ActivatePlan
  <2> HIDE DEF both, activating, installing
  <2>3. Whole(activating.lock, activating.ops \cup installing.ops, r.cmd.dir)
    BY <1>3, <2>1, WholeButForLinks DEF PlanWhole
  <2>4. PlanWhole(both, r.cmd.dir)
    BY <2>2, <2>3 DEF PlanWhole
  <2> QED
    BY <1>6, <2>4, PerformWhole
<1> QED
  BY <1>4, <1>5, <1>6 DEF InstallDetail

LEMMA PackageWhole ==
    ASSUME IInv, Wholes, NEW c \in Procs, NEW p \in Packages,
           \/ Install(c, p) \/ UpdateNothing(c, p) \/ Update(c, p) \/ Activate(c, p)
           \/ Deactivate(c, p) \/ Uninstall(c, p) \/ Repair(c, p)
    PROVE  Wholes'
<1> DEFINE r == run[c]
<1>1. /\ Turns(c, p) /\ r # None /\ r \in Runs /\ r.todo = {}
      /\ r.work \in Lockfiles /\ Valid(r.work) /\ Whole(r.work, {}, r.cmd.dir)
      /\ r.cmd \in Requests /\ r.cmd.dir \in Dirs \cup {None}
  BY TurnsValid, TurnsWhole
     DEF Turns, Install, UpdateNothing, Update, Activate, Deactivate, Uninstall, Repair
<1>2. CASE Refuse(c)
  BY <1>2, AbandonWhole DEF Refuse, disk
<1>3. CASE Install(c, p)
  <2>1. r.cmd.version \in Keys
    BY <1>3, CatalogFields DEF Install, Assets
  <2> QED
    BY <1>1, <1>3, <2>1, InstallDetailWhole DEF Install
<1>4. CASE Update(c, p)
  BY <1>1, <1>4, InstallDetailWhole, CatalogFields DEF Update
<1>5. ASSUME NEW left, NEW broken,
             \/ run' = [run EXCEPT ![c] = [r EXCEPT !.left = left]]
             \/ run' = [run EXCEPT ![c] = [r EXCEPT !.left = left, !.broken = broken]],
             lockfile' = lockfile
      PROVE  Wholes'
  <2>1. PICK s : /\ run' = [run EXCEPT ![c] = s]
                 /\ s.work = r.work /\ s.todo = r.todo /\ s.cmd = r.cmd
    BY <1>1, <1>5 DEF Runs
  <2> QED
    BY <1>1, <1>5, <2>1, RunWholeStep, ZenonT(60)
<1>6. CASE UpdateNothing(c, p)
  BY <1>5, <1>6 DEF UpdateNothing, disk
<1>7. CASE Activate(c, p) /\ ~Refuse(c)
  <2>1. PICK k \in Meant(r.work, p, r.cmd.version) :
            /\ SameDir(r.work, p, r.cmd.dir)
            /\ Perform(c, p, ActivatePlan(r.work, p, k, r.cmd.dir),
                       [kind |-> "activate", keys |-> {k}, dir |-> r.cmd.dir], TRUE)
    BY <1>7 DEF Activate
  <2>2. k \in Keys
    BY CatalogFields DEF Meant, InstalledKeys, Recorded
  <2>3. r.cmd.dir \in Dirs
    BY <1>1, <1>7, RequestsAssumption DEF Activate
  <2> QED
    BY <1>1, <2>1, <2>2, <2>3, ActivatePlanWhole, PerformWhole
<1>8. CASE Deactivate(c, p)
  <2> DEFINE plan == DeactivatePlan(r.work, p, r.cmd.dir)
  <2>1. PlanWhole(plan, r.cmd.dir)
    BY <1>1, DeactivatePlanWhole
  <2>2. PICK intent, change : Perform(c, p, plan, intent, change)
    BY <1>8 DEF Deactivate
  <2> QED
    BY <1>1, <2>1, <2>2, PerformWhole
<1>9. CASE Uninstall(c, p) /\ ~Refuse(c)
  <2>1. PICK keys : Perform(c, p, UninstallPlan(r.work, p, keys, r.cmd.dir),
                      [kind |-> "uninstall", keys |-> keys, dir |-> r.cmd.dir], TRUE)
    BY <1>9 DEF Uninstall
  <2>2. PlanWhole(UninstallPlan(r.work, p, keys, r.cmd.dir), r.cmd.dir)
    BY <1>1, UninstallPlanWhole
  <2> QED
    BY <1>1, <2>1, <2>2, PerformWhole
<1>10. CASE Repair(c, p)
  <2>1. CASE Unrepairable(r.work, p, r.cmd.dir)
    <3>1. /\ run' = [run EXCEPT ![c] = [r EXCEPT !.left = @ \ {p}, !.broken = @ \cup {p}]]
          /\ lockfile' = lockfile
      BY <1>10, <2>1 DEF Repair, disk
    <3> QED
      BY <3>1, <1>5
  <2>2. CASE ~Unrepairable(r.work, p, r.cmd.dir)
    <3> DEFINE plan == RepairPlan(r.work, p, r.cmd.dir)
    <3>1. PlanWhole(plan, r.cmd.dir)
      BY <1>1, RepairPlanWhole
    <3>2. PICK intent, change : Perform(c, p, plan, intent, change)
      BY <1>10, <2>2 DEF Repair
    <3> QED
      BY <1>1, <3>1, <3>2, PerformWhole
  <2> QED
    BY <2>1, <2>2
<1> QED
  BY <1>2, <1>3, <1>4, <1>6, <1>7, <1>8, <1>9, <1>10

\* A symlink is made where it was to be made.
LEMMA LinkWhole ==
    ASSUME IInv, Wholes, NEW c \in Procs, Link(c)
    PROVE  Wholes'
<1>1. PICK t \in Ready(c, "link") :
        LET name == IF t.at # None THEN t.at ELSE SymlinkPath(run[c].cmd.dir, t.asset) IN
        run' = [run EXCEPT ![c].todo = @ \ {t}, ![c].work.link[t.asset] = name]
  BY DEF Link
<1> DEFINE r == run[c]
           dir == r.cmd.dir
           name == IF t.at # None THEN t.at ELSE SymlinkPath(dir, t.asset)
           l == r.work
           m == [l EXCEPT !.link = [l.link EXCEPT ![t.asset] = name]]
           s == [r EXCEPT !.todo = @ \ {t}, !.work = m]
           rest == r.todo \ {t}
<1>2. r # None /\ t \in r.todo /\ t.do = "link"
  BY DEF Ready
<1>3. r \in Runs /\ RunSound(r) /\ l \in Lockfiles /\ t \in Ops /\ Whole(l, r.todo, dir)
  BY <1>2 DEF IInv, TypeOK, Runs, Wholes
<1>4. t.asset \in Catalog /\ name \in Links /\ name.dir = Target(t, dir)
  <2>1. t.asset \in Catalog /\ t.at \in Links \cup {None}
    BY <1>3 DEF Ops
  <2>2. t.at = None => dir \in Dirs
    BY <1>2, <1>3 DEF RunSound, Sound
  <2>3. SymlinkPath(dir, t.asset).dir = dir
    BY DEF SymlinkPath
  <2> QED
    BY <2>1, <2>2, <2>3, SymlinkPathType DEF Target
<1>5. run' = [run EXCEPT ![c] = s] /\ lockfile' = lockfile
  BY <1>1, <1>3 DEF Link, IInv, TypeOK, Runs, Lockfiles
<1> HIDE DEF name
<1>6. m \in Lockfiles /\ m.active = l.active /\ m.link = [l.link EXCEPT ![t.asset] = name]
  BY <1>3, <1>4 DEF Lockfiles
<1>7. \A a \in Catalog : m.link[a] = IF a = t.asset THEN name ELSE l.link[a]
  BY <1>3, <1>6 DEF Lockfiles
<1> HIDE DEF m
<1>8. s.cmd = r.cmd /\ s.work = m /\ s.todo = rest
  BY <1>3 DEF Runs
<1> HIDE DEF s
<1>9. l.link[t.asset] # Absent
  BY <1>2, <1>3 DEF RunSound, Sound
<1>10. ASSUME NEW p \in Packages
       PROVE  AllActive(m, rest, p) /\ \E d \in Dirs \cup {None} : AllIn(m, rest, dir, p, d)
  <2>1. AllActive(m, rest, p)
    <3> SUFFICES ASSUME NEW a \in Recorded(m, p), a.key = m.active[p], m.link[a] = None
                 PROVE  \E u \in rest : u.do = "link" /\ u.asset = a
      BY DEF AllActive
    <3>1. a \in Catalog /\ a # t.asset
      BY <1>4, <1>7, ValuesAssumption DEF Recorded
    <3>2. a \in Recorded(l, p) /\ l.link[a] = None /\ a.key = l.active[p]
      BY <3>1, <1>6, <1>7 DEF Recorded
    <3>3. PICK u \in r.todo : u.do = "link" /\ u.asset = a
      BY <3>2, <1>3 DEF Whole, AllActive
    <3> QED
      BY <3>1, <3>3
  <2>2. PICK d \in Dirs \cup {None} : AllIn(l, r.todo, dir, p, d)
    BY <1>3 DEF Whole
  <2>3. ASSUME NEW a \in ActiveAssets(m, p) PROVE m.link[a].dir = d
    <3>1. a \in Catalog /\ a.package = p
      BY DEF ActiveAssets, Recorded
    <3>2. CASE a = t.asset
      BY <3>1, <3>2, <1>2, <1>4, <1>7, <2>2 DEF AllIn
    <3>3. CASE a # t.asset
      <4>1. a \in ActiveAssets(l, p)
        BY <3>1, <3>3, <1>7 DEF ActiveAssets, Recorded
      <4> QED
        BY <3>1, <3>3, <4>1, <1>7, <2>2 DEF AllIn
    <3> QED
      BY <3>2, <3>3
  <2>4. AllIn(m, rest, dir, p, d)
    BY <2>2, <2>3 DEF AllIn
  <2> QED
    BY <2>1, <2>4
<1>11. Whole(m, rest, dir)
  BY <1>10 DEF Whole
<1> QED
  BY <1>5, <1>8, <1>11, RunWholeStep

LEMMA OperationWhole ==
    ASSUME IInv, Wholes, NEW c \in Procs, WriteAsset(c) \/ Unlink(c) \/ DeleteAsset(c)
    PROVE  Wholes'
<1>1. PICK t \in run[c].todo : t.do # "link" /\ Done(c, t)
  BY DEF WriteAsset, Unlink, DeleteAsset, Ready
<1>2. run[c] # None /\ lockfile' = lockfile
  BY DEF WriteAsset, Unlink, DeleteAsset, Ready
<1> DEFINE r == run[c]
           s == [r EXCEPT !.todo = @ \ {t}]
<1>3. r \in Runs /\ run' = [run EXCEPT ![c] = s]
  BY <1>1, <1>2 DEF Done, IInv, TypeOK
<1>4. s.cmd = r.cmd /\ s.work = r.work /\ s.todo = r.todo \ {t}
  BY <1>3 DEF Runs
<1> HIDE DEF s
<1>5. Whole(r.work, (r.todo \ {t}) \cup {t}, r.cmd.dir)
  BY <1>1, <1>2, (r.todo \ {t}) \cup {t} = r.todo DEF Wholes
<1>6. Whole(r.work, r.todo \ {t}, r.cmd.dir)
  BY <1>1, <1>5, WholeButForLinks
<1> QED
  BY <1>2, <1>3, <1>4, <1>6, RunWholeStep

LEMMA FinishWhole ==
    ASSUME IInv, Wholes, NEW c \in Procs, Finish(c)
    PROVE  Wholes'
<1>1. run[c] # None /\ Whole(run[c].work, {}, None)
  BY TurnsWhole, WholeWhenDone DEF Finish, Finished
<1>2. CASE Abandon(c) /\ UNCHANGED lockfile
  BY <1>2, AbandonWhole
<1>3. CASE /\ lockfile' = IF run[c].changed THEN run[c].work ELSE lockfile
           /\ run' = [run EXCEPT ![c] = None]
  <2>1. Whole(lockfile', {}, None)
    BY <1>1, <1>3 DEF Wholes
  <2>2. \A d \in Procs : run'[d] # None => Whole(run'[d].work, run'[d].todo, run'[d].cmd.dir)
    BY <1>3 DEF Wholes, IInv, TypeOK
  <2> QED
    BY <2>1, <2>2 DEF Wholes, Whole, AllActive, AllIn, Target, ActiveAssets, Recorded
<1> QED
  BY <1>2, <1>3 DEF Finish

LEMMA NextWhole == IInv /\ Wholes /\ [Next]_vars => Wholes'
<1> SUFFICES ASSUME IInv, Wholes, [Next]_vars PROVE Wholes'
  OBVIOUS
<1>1. ASSUME NEW c \in Procs, NEW x \in Requests, Start(c, x) PROVE Wholes'
  BY <1>1, StartLoadWhole
<1>2. ASSUME NEW c \in Procs, Load(c) PROVE Wholes'
  BY <1>2, StartLoadWhole
<1>3. ASSUME NEW c \in Procs, NEW p \in Packages,
             \/ Install(c, p) \/ UpdateNothing(c, p) \/ Update(c, p) \/ Activate(c, p)
             \/ Deactivate(c, p) \/ Uninstall(c, p) \/ Repair(c, p)
      PROVE  Wholes'
  BY <1>3, PackageWhole
<1>4. ASSUME NEW c \in Procs, WriteAsset(c) \/ Unlink(c) \/ DeleteAsset(c) \/ Link(c)
      PROVE  Wholes'
  BY <1>4, OperationWhole, LinkWhole
<1>5. ASSUME NEW c \in Procs, Finish(c) PROVE Wholes'
  BY <1>5, FinishWhole
<1>6. ASSUME NEW c \in Procs, Interrupt(c) PROVE Wholes'
  BY <1>6, AbandonWhole DEF Interrupt
<1>7. CASE lockfile' = lockfile /\ run' = run
  BY <1>7 DEF Wholes, Whole, AllActive, AllIn, Target, ActiveAssets, Recorded
<1>8. ASSUME \/ \E p \in Packages : Damage(p) \/ Obstruct(p)
             \/ \E k \in Links : Occupy(k)
             \/ UNCHANGED vars
      PROVE  Wholes'
  BY <1>7, <1>8 DEF Damage, Obstruct, Occupy, vars, disk
<1> QED
  BY <1>1, <1>2, <1>3, <1>4, <1>5, <1>6, <1>8 DEF Next

LEMMA WholesAlways == Spec => []Wholes
<1>1. Init => Wholes
  BY EmptyIsWhole DEF Init, Wholes
<1> QED
  BY <1>1, NextWhole, Invariance, PTL DEF Spec

\* What verify finds in a file, by what the file holds.
LEMMA FaultOf ==
    ASSUME NEW l, NEW a, files[a] \in Contents
    PROVE  /\ AssetFault(l, a) \in {"LOCAL_FILE_MISSING", "LOCAL_FILE_HASH_MISMATCH"} <=>
                  files[a] \in {"missing", "partial"}
           /\ AssetFault(l, a) = "INTERNAL_ERROR" <=> files[a] = "unreadable"
           /\ AssetFault(l, a) = "ACTIVATION_BROKEN" <=>
                  files[a] = "good" /\ l.link[a] # None /\ links[l.link[a]] # a
           /\ AssetFault(l, a) = None <=>
                  files[a] = "good" /\ ~(l.link[a] # None /\ links[l.link[a]] # a)
<1>1. CASE files[a] = "missing"
  BY <1>1, ValuesAssumption DEF AssetFault
<1>2. CASE files[a] = "partial"
  BY <1>2, ValuesAssumption DEF AssetFault
<1>3. CASE files[a] = "unreadable"
  BY <1>3, ValuesAssumption DEF AssetFault
<1>4. CASE files[a] = "good"
  BY <1>4, ValuesAssumption DEF AssetFault
<1> QED
  BY <1>1, <1>2, <1>3, <1>4 DEF Contents

\* What verify finds in an installed asset is a broken activation only if the asset is
\* active and its symlink does not point to it, and is something if that is so.
LEMMA FaultOfActive ==
    ASSUME TypeOK, NEW p \in Packages, NEW a \in Recorded(lockfile, p)
    PROVE  /\ AssetFault(lockfile, a) = "ACTIVATION_BROKEN" =>
                  a \in ActiveAssets(lockfile, p) /\ links[lockfile.link[a]] # a
           /\ a \in ActiveAssets(lockfile, p) /\ links[lockfile.link[a]] # a =>
                  AssetFault(lockfile, a) # None
<1>1. files[a] \in Contents /\ lockfile.link[a] # Absent
  BY DEF TypeOK, Recorded
<1> QED
  BY <1>1, FaultOf, ValuesAssumption DEF ActiveAssets

\* The findings that have a code, as a formula about the assets.
LEMMA CodesOf ==
    ASSUME NEW p \in Packages, NEW dir \in Dirs
    PROVE  LET codes == {f.code : f \in Findings(lockfile, p, dir)} IN
           /\ \A a \in Recorded(lockfile, p) : AssetFault(lockfile, a) # None =>
                  AssetFault(lockfile, a) \in codes
           /\ \A a \in ActiveAssets(lockfile, p) : ~InDir(lockfile.link[a], dir) =>
                  "ACTIVATION_BROKEN" \in codes
           /\ \A code \in codes :
                  \/ \E a \in Recorded(lockfile, p) : code = AssetFault(lockfile, a)
                  \/ \E a \in ActiveAssets(lockfile, p) : ~InDir(lockfile.link[a], dir)
<1> DEFINE faults == {[asset |-> a, code |-> AssetFault(lockfile, a)] :
                          a \in {b \in Recorded(lockfile, p) : AssetFault(lockfile, b) # None}}
           strays == {[asset |-> a, code |-> "ACTIVATION_BROKEN"] :
                          a \in {b \in ActiveAssets(lockfile, p) :
                                     dir # None /\ ~InDir(lockfile.link[b], dir)}}
           codes == {f.code : f \in Findings(lockfile, p, dir)}
<1>1. Findings(lockfile, p, dir) = faults \cup strays
  BY DEF Findings
<1>2. ASSUME NEW a \in Recorded(lockfile, p), AssetFault(lockfile, a) # None
      PROVE  AssetFault(lockfile, a) \in codes
  <2>1. [asset |-> a, code |-> AssetFault(lockfile, a)] \in Findings(lockfile, p, dir)
    BY <1>1, <1>2
  <2> QED
    BY <2>1
<1>3. ASSUME NEW a \in ActiveAssets(lockfile, p), ~InDir(lockfile.link[a], dir)
      PROVE  "ACTIVATION_BROKEN" \in codes
  <2>1. [asset |-> a, code |-> "ACTIVATION_BROKEN"] \in Findings(lockfile, p, dir)
    BY <1>1, <1>3, ValuesAssumption
  <2> QED
    BY <2>1
<1>4. ASSUME NEW code \in codes
      PROVE  \/ \E a \in Recorded(lockfile, p) : code = AssetFault(lockfile, a)
             \/ \E a \in ActiveAssets(lockfile, p) : ~InDir(lockfile.link[a], dir)
  BY <1>1, <1>4
<1> QED
  BY <1>2, <1>3, <1>4

\* What ls and verify say of an activation agrees, for any number of processes, failures and
\* changes by others (docs/cli.md:164).
THEOREM LsAgreesWithVerifyHolds == Spec => []LsAgreesWithVerify
<1>1. IInv /\ Wholes => LsAgreesWithVerify
  <2> SUFFICES ASSUME IInv, Wholes, NEW p \in Packages, NEW dir \in Dirs
               PROVE  LET status == Status(lockfile, p, dir)
                          codes == {f.code : f \in Findings(lockfile, p, dir)} IN
                      /\ status = "active" => "ACTIVATION_BROKEN" \notin codes
                      /\ status = "broken" => codes # {}
                      /\ codes = {} /\ lockfile.active[p] # None => status = "active"
    BY DEF LsAgreesWithVerify
  <2> DEFINE l == lockfile
             status == Status(l, p, dir)
             codes == {f.code : f \in Findings(l, p, dir)}
             version == Version(l, p, l.active[p])
             matches == \A a \in version : LinkMatches(l, a, dir)
  <2>1. TypeOK /\ l \in Lockfiles /\ Valid(l) /\ Whole(l, {}, None) /\ dir # None
    BY ValuesAssumption DEF IInv, TypeOK, Wholes
  <2>2. version = ActiveAssets(l, p) \/ l.active[p] = None
    BY <2>1 DEF Whole, AllActive, Valid, Version, ActiveAssets
  <2>3. l.active[p] # None => version # {}
    BY <2>1, <2>2 DEF Valid
  <2>4. /\ status = "active" <=> l.active[p] # None /\ matches
        /\ status = "broken" <=> l.active[p] # None /\ ~matches
    BY <2>1, <2>3 DEF Status
  <2>5. \A a \in ActiveAssets(l, p) : l.link[a] \in Links /\ a \in Recorded(l, p)
    BY <2>1, ActiveMeansLinked DEF ActiveAssets, Recorded
  <2> HIDE DEF status, codes, version
  <2>6. ASSUME l.active[p] # None, matches PROVE "ACTIVATION_BROKEN" \notin codes
    <3>1. \A a \in ActiveAssets(l, p) : InDir(l.link[a], dir) /\ links[l.link[a]] = a
      BY <2>2, <2>6 DEF LinkMatches
    <3>2. \A a \in Recorded(l, p) : AssetFault(l, a) # "ACTIVATION_BROKEN"
      BY <2>1, <3>1, FaultOfActive
    <3> QED
      BY <3>1, <3>2, CodesOf DEF codes
  <2>7. ASSUME l.active[p] # None, ~matches PROVE codes # {}
    <3>1. PICK a \in ActiveAssets(l, p) : ~InDir(l.link[a], dir) \/ links[l.link[a]] # a
      BY <2>2, <2>5, <2>7 DEF LinkMatches
    <3>2. CASE ~InDir(l.link[a], dir)
      BY <3>2, CodesOf DEF codes
    <3>3. CASE links[l.link[a]] # a
      BY <2>1, <2>5, <3>3, FaultOfActive, CodesOf DEF codes
    <3> QED
      BY <3>1, <3>2, <3>3
  <2> QED
    BY <2>4, <2>6, <2>7 DEF status, codes
<1> QED
  BY <1>1, Invariance, WholesAlways, PTL

-----------------------------------------------------------------------------
(***************************************************************************)
(* What a repair reports.  It makes symlinks at the names the lockfile     *)
(* records, so it mends every asset only if no two assets have one name.   *)
(* That is so for one process at a time, if no version has two files with  *)
(* one name and one hash: then a symlink that has been made in an          *)
(* activation keeps its name from the assets that come after it.           *)
(***************************************************************************)

OneProcess == \A c, d \in Procs : c = d

BytesTellApart ==
    /\ \A a \in Catalog : a.sha # None
    /\ \A a, b \in Catalog :
           a.package = b.package /\ a.key = b.key /\ a.base = b.base /\ a.sha = b.sha => a = b

Shaped(l) ==
    \A a \in Catalog : l.link[a] \in Links =>
        /\ l.link[a].package = a.package /\ l.link[a].base = a.base
        /\ l.link[a].sha \in {None, a.sha}

\* The assets whose symlinks are to get a name when they are made, and have an old one
\* at most; the names of all others differ.
ToName(todo) == {t.asset : t \in {u \in todo : u.do = "link" /\ u.at = None}}

Distinct(l, renamed) ==
    \A a, b \in Catalog \ renamed : l.link[a] \in Links /\ l.link[a] = l.link[b] => a = b

\* While an activation makes symlinks, those it has made are there, and none is to go.
Activating(l, todo, where) ==
    \A t \in todo : t.do = "link" /\ t.at = None =>
        \A b \in ActiveAssets(l, t.asset.package) :
            /\ b.key = t.asset.key
            /\ \/ b \in ToName(todo)
               \/ where[l.link[b]] = b /\ \A u \in todo : u.do # "unlink"

Named(r, where) ==
    /\ Shaped(r.work) /\ Distinct(r.work, ToName(r.todo))
    /\ Activating(r.work, r.todo, where)
    /\ \A t \in r.todo : t.do = "link" =>
           IF t.at = None THEN r.cmd.kind \in {"install", "update", "activate"}
                          ELSE r.cmd.kind = "repair"

\* A package that a repair has had its turn with and did not leave broken.  It takes a file
\* that cannot be read for whole, and its symlink for right.
Mended(l, todo, p, content, where) ==
    \A a \in Recorded(l, p) :
        /\ content[a] \in {"good", "unreadable"}
        /\ content[a] = "good" /\ l.link[a] \in Links =>
               where[l.link[a]] = a \/ \E t \in todo : t.do = "link" /\ t.asset = a

Mending(r, content, where) ==
    r.cmd.kind = "repair" /\ r.loaded =>
        /\ \A t \in r.todo : t.do = "link" /\ t.at \in Links /\ t.at = r.work.link[t.asset]
        /\ \A p \in Scope(r.cmd) :
               p \in r.left \cup r.broken \/ Mended(r.work, r.todo, p, content, where)

Repairs ==
    /\ Shaped(lockfile) /\ Distinct(lockfile, {})
    /\ \A c \in Procs : run[c] # None => Named(run[c], links) /\ Mending(run[c], files, links)

LEMMA FewerNames ==
    ASSUME NEW l, NEW m, Shaped(l), Distinct(l, {}),
           \A a \in Catalog : m.link[a] = l.link[a] \/ m.link[a] \in {None, Absent}
    PROVE  Shaped(m) /\ \A renamed : Distinct(m, renamed)
<1>1. \A a \in Catalog : m.link[a] \in Links => m.link[a] = l.link[a]
  BY ValuesAssumption
<1> QED
  BY <1>1 DEF Shaped, Distinct

LEMMA ToNameOf ==
    ASSUME NEW todo, NEW a
    PROVE  a \in ToName(todo) <=> \E t \in todo : t.do = "link" /\ t.at = None /\ t.asset = a
BY DEF ToName

\* Operations that make no symlinks have no part in it.
LEMMA NoNames ==
    ASSUME NEW todo, \A t \in todo : t.do # "link" \/ t.at # None
    PROVE  ToName(todo) = {} /\ \A l, where : Activating(l, todo, where)
BY DEF ToName, Activating

\* What an activation sets out to do.
LEMMA ActivatePlanNames ==
    ASSUME NEW l \in Lockfiles, NEW p \in Packages, NEW k \in Keys, NEW dir \in Dirs,
           SameDir(l, p, dir), NEW more, \A t \in more : t.do = "write"
    PROVE  LET plan == ActivatePlan(l, p, k, dir) IN
           /\ \A a \in Catalog : plan.lock.link[a] = l.link[a] \/ plan.lock.link[a] = None
           /\ Activating(plan.lock, plan.ops \cup more, links)
<1> DEFINE old == {a \in ActiveAssets(l, p) : a.key # k /\ InDir(l.link[a], dir)}
           m == Recording(l, old, None)
           n == [m EXCEPT !.active[p] = k]
           makes == {Op("link", a, None) : a \in Version(l, p, k)}
           ops == Unlinks(l, old) \cup makes \cup more
<1>1. /\ m \in Lockfiles /\ m.active = l.active
      /\ \A a \in Catalog : m.link[a] = IF a \in old THEN None ELSE l.link[a]
  BY RecordingType
<1>2. \A t \in Unlinks(l, old) : t.do = "unlink"
  BY DEF Unlinks, Op
<1>3. \A t \in makes : t.do = "link" /\ t.asset.package = p /\ t.asset.key = k
  BY DEF Op, Version, Recorded
<1>4. \A a \in Version(l, p, k) : \E t \in ops : t.do = "link" /\ t.at = None /\ t.asset = a
  <2> TAKE a \in Version(l, p, k)
  <2>1. Op("link", a, None) \in ops
    OBVIOUS
  <2> QED
    BY <2>1 DEF Op
<1>5. ActivatePlan(l, p, k, dir) = [lock |-> n, ops |-> Unlinks(l, old) \cup makes]
  BY DEF ActivatePlan
<1>6. \A a \in ActiveAssets(l, p) : a \in Catalog /\ a.package = p /\ (a \notin old => a.key = k)
  <2> TAKE a \in ActiveAssets(l, p)
  <2>1. a \in Catalog /\ a.package = p /\ l.link[a] \in Links
    BY ActiveMeansLinked DEF ActiveAssets, Recorded
  <2> QED
    BY <2>1 DEF SameDir, InDir
<1> HIDE DEF old, m, makes
<1>7. n.link = m.link
  BY <1>1 DEF Lockfiles
<1> HIDE DEF n
<1>8. ASSUME NEW b \in ActiveAssets(n, p)
      PROVE  b.key = k /\ b \in ToName(ops)
  <2>1. b \in Catalog /\ b.package = p /\ b \notin old /\ l.link[b] \notin {None, Absent}
    BY <1>1, <1>7 DEF ActiveAssets, Recorded
  <2>2. b \in ActiveAssets(l, p)
    BY <2>1 DEF ActiveAssets, Recorded
  <2>3. b \in Version(l, p, k)
    BY <2>1, <2>2, <1>6 DEF Version, ActiveAssets
  <2> QED
    BY <2>3, <1>4, <1>6, <2>1, <2>2, ToNameOf
<1> HIDE DEF ops
<1>9. Activating(n, ops, links)
  <2>1. \A t \in ops : t.do = "link" => t.asset.package = p /\ t.asset.key = k
    BY <1>2, <1>3 DEF ops
  <2> QED
    BY <1>8, <2>1 DEF Activating
<1> QED
  BY <1>1, <1>5, <1>7, <1>9 DEF ops


\* A repair keeps every name, and makes the symlinks that are not there.
LEMMA RepairPlanMends ==
    ASSUME NEW l \in Lockfiles, Valid(l), NEW p \in Packages, NEW dir, Whole(l, {}, dir),
           ~Unrepairable(l, p, dir), TypeOK
    PROVE  LET plan == RepairPlan(l, p, dir) IN
           /\ plan.lock.link = l.link
           /\ \A t \in plan.ops : t.do = "link" /\ t.at \in Links /\ t.at = l.link[t.asset]
           /\ Mended(plan.lock, plan.ops, p, files, links)
<1> DEFINE k == ChosenActive(l, p)
           kept == Version(l, p, k)
           old == ActiveAssets(l, p) \ kept
           Expected(a) == IF l.link[a] # None THEN l.link[a] ELSE SymlinkPath(dir, a)
           wrong == {a \in kept : l.link[a] = None \/ AssetFault(l, a) = "ACTIVATION_BROKEN"}
           makes == {Op("link", a, Expected(a)) : a \in wrong}
           ops == Unlinks(l, old) \cup makes
           n == [link |-> [a \in Catalog |-> IF a \in kept THEN Expected(a)
                                             ELSE IF a \in old THEN None ELSE l.link[a]],
                 active |-> [l.active EXCEPT ![p] = k]]
<1>1. k = l.active[p]
  BY ChosenActiveOfValid
<1>2. \A a \in kept : a \in Recorded(l, p) /\ l.link[a] \in Links /\ Expected(a) = l.link[a]
  <2> TAKE a \in kept
  <2>1. a \in Recorded(l, p) /\ a.key = l.active[p]
    BY <1>1 DEF Version
  <2>2. l.link[a] # None
    BY <2>1 DEF Whole, AllActive
  <2> QED
    BY <2>1, <2>2 DEF Recorded, Lockfiles
<1>3. old = {}
  BY <1>1 DEF Valid, ActiveAssets, Version
<1>4. n.link = l.link
  BY <1>2, <1>3 DEF Lockfiles
<1>5. ops = makes
  BY <1>3 DEF Unlinks
<1>6. \A t \in makes : t.do = "link" /\ t.at \in Links /\ t.at = l.link[t.asset]
  BY <1>2 DEF Op
<1>7. \A a \in wrong : \E t \in makes : t.do = "link" /\ t.asset = a
  <2> TAKE a \in wrong
  <2>1. Op("link", a, Expected(a)) \in makes
    OBVIOUS
  <2> QED
    BY <2>1 DEF Op
<1>8. RepairPlan(l, p, dir) = [lock |-> n, ops |-> ops]
  BY DEF RepairPlan
<1>9. ASSUME NEW a \in Recorded(l, p)
      PROVE  /\ files[a] \in {"good", "unreadable"}
             /\ files[a] = "good" /\ l.link[a] \in Links =>
                    links[l.link[a]] = a \/ a \in wrong
  <2>1. files[a] \in Contents /\ files[a] \notin {"missing", "partial"}
    BY FaultOf DEF Unrepairable, Recorded, TypeOK
  <2>2. l.link[a] \in Links => a \in ActiveAssets(l, p)
    BY ActiveMeansLinked DEF Recorded
  <2>3. l.link[a] \in Links => a \in kept
    BY <2>2, <1>3
  <2>4. CASE files[a] = "good" /\ l.link[a] \in Links
    BY <2>1, <2>3, <2>4, FaultOf, ValuesAssumption
  <2> QED
    BY <2>1, <2>4 DEF Contents
<1> HIDE DEF n, ops, makes, wrong, kept, old, k
<1>10. Recorded(n, p) = Recorded(l, p)
  BY <1>4 DEF Recorded
<1>11. Mended(n, ops, p, files, links)
  BY <1>4, <1>5, <1>7, <1>9, <1>10 DEF Mended
<1> QED
  BY <1>4, <1>5, <1>6, <1>8, <1>11

-----------------------------------------------------------------------------

\* The one process's run changes, the lockfile does not.
LEMMA RunRepairs ==
    ASSUME OneProcess, IInv, Repairs, NEW c \in Procs, NEW r,
           r # None => Named(r, links') /\ Mending(r, files', links'),
           run' = [run EXCEPT ![c] = r], lockfile' = lockfile
    PROVE  Repairs'
<1>1. \A d \in Procs : run'[d] # None =>
          Named(run'[d], links') /\ Mending(run'[d], files', links')
  BY DEF OneProcess, IInv, TypeOK
<1>2. Shaped(lockfile') /\ Distinct(lockfile', {})
  BY DEF Repairs
<1> QED
  BY <1>1, <1>2
     DEF Repairs, Shaped, Distinct, Named, ToName, Activating, Mending, Mended, Recorded,
         ActiveAssets, Scope

LEMMA AbandonRepairs ==
    ASSUME OneProcess, IInv, Repairs, NEW c \in Procs, Abandon(c), lockfile' = lockfile
    PROVE  Repairs'
<1>1. run' = [run EXCEPT ![c] = None]
  BY DEF Abandon
<1> QED
  BY <1>1, RunRepairs

\* Between two packages all names differ.
LEMMA TurnsNamed ==
    ASSUME Repairs, NEW c \in Procs, run[c] # None, run[c].todo = {}
    PROVE  Shaped(run[c].work) /\ Distinct(run[c].work, {})
BY NoNames DEF Repairs, Named

LEMMA PerformRepairs ==
    ASSUME OneProcess, IInv, Repairs, NEW c \in Procs, NEW p \in Packages, Turns(c, p),
           run[c].cmd.kind # "repair", NEW plan,
           \A a \in Catalog :
               plan.lock.link[a] = run[c].work.link[a] \/ plan.lock.link[a] \in {None, Absent},
           Activating(plan.lock, plan.ops, links),
           \A t \in plan.ops : t.do = "link" =>
               t.at = None /\ run[c].cmd.kind \in {"install", "update", "activate"},
           NEW intent, NEW change, Perform(c, p, plan, intent, change)
    PROVE  Repairs'
<1> DEFINE r == run[c]
           s == [r EXCEPT !.work = plan.lock, !.left = @ \ {p}, !.todo = plan.ops,
                          !.changed = @ \/ change, !.touched[p] = intent]
<1>1. r \in Runs
  BY DEF Turns, IInv, TypeOK
<1>2. run' = [run EXCEPT ![c] = s] /\ lockfile' = lockfile /\ links' = links
  BY DEF Perform, disk
<1>3. s.cmd = r.cmd /\ s.work = plan.lock /\ s.todo = plan.ops
  BY <1>1 DEF Runs
<1>4. Shaped(r.work) /\ Distinct(r.work, {})
  BY TurnsNamed DEF Turns
<1>5. Shaped(plan.lock) /\ Distinct(plan.lock, ToName(plan.ops))
  BY <1>4, FewerNames
<1> HIDE DEF s
<1>6. Named(s, links) /\ Mending(s, files', links)
  BY <1>3, <1>5 DEF Named, Mending
<1> QED
  BY <1>2, <1>6, RunRepairs

LEMMA StartLoadRepairs ==
    ASSUME OneProcess, IInv, Repairs, NEW c \in Procs, Load(c) \/ \E x \in Requests : Start(c, x)
    PROVE  Repairs'
<1>1. ASSUME NEW x \in Requests, Start(c, x) PROVE Repairs'
  <2> DEFINE r == [cmd |-> x, loaded |-> FALSE, work |-> EmptyLockfile, left |-> {},
                   todo |-> {}, changed |-> FALSE, broken |-> {},
                   touched |-> [p \in Packages |-> None]]
  <2>1. run' = [run EXCEPT ![c] = r] /\ lockfile' = lockfile
    BY <1>1 DEF Start, disk
  <2>2. Shaped(EmptyLockfile) /\ Distinct(EmptyLockfile, {})
    BY ValuesAssumption DEF EmptyLockfile, Shaped, Distinct
  <2>3. Named(r, links') /\ Mending(r, files', links')
    BY <2>2, NoNames DEF Named, Mending
  <2> HIDE DEF r
  <2> QED
    BY <2>1, <2>3, RunRepairs
<1>2. CASE Load(c)
  <2> DEFINE r == run[c]
             known == {p \in Scope(r.cmd) : Recorded(lockfile, p) # {}}
             left == IF r.cmd.kind = "install" THEN Scope(r.cmd) ELSE known
             s == [r EXCEPT !.loaded = TRUE, !.work = lockfile, !.left = left]
  <2>1. r \in Runs /\ r.todo = {} /\ lockfile' = lockfile
    BY <1>2 DEF Load, IInv, TypeOK, RunSound, disk
  <2>2. CASE Abandon(c)
    BY <2>1, <2>2, AbandonRepairs
  <2>3. CASE run' = [run EXCEPT ![c] = s]
    <3>1. s.work = lockfile /\ s.todo = {} /\ s.left = left /\ s.cmd = r.cmd
      BY <2>1 DEF Runs
    <3> HIDE DEF s
    <3>2. Named(s, links')
      BY <3>1, NoNames DEF Repairs, Named
    <3>3. \A p \in Scope(s.cmd) : p \in left \/ Recorded(lockfile, p) = {}
      BY <3>1
    <3>4. Mending(s, files', links')
      BY <3>1, <3>3 DEF Mending, Mended
    <3> QED
      BY <2>1, <2>3, <3>2, <3>4, RunRepairs
  <2> QED
    BY <1>2, <2>2, <2>3 DEF Load
<1> QED
  BY <1>1, <1>2


LEMMA InstallDetailRepairs ==
    ASSUME OneProcess, IInv, Repairs, NEW c \in Procs, NEW p \in Packages, NEW k \in Keys,
           Turns(c, p), InstallDetail(c, p, k), run[c].cmd.kind \in {"install", "update"}
    PROVE  Repairs'
<1> DEFINE r == run[c]
           installing == InstallPlan(r.work, p, k)
           activating == ActivatePlan(installing.lock, p, k, r.cmd.dir)
           both == [activating EXCEPT !.ops = @ \cup installing.ops]
           intent == [kind |-> "install", keys |-> {k}, dir |-> r.cmd.dir]
<1>1. r.work \in Lockfiles /\ Valid(r.work) /\ r.cmd.dir \in Dirs \cup {None}
  BY TurnsValid DEF Turns
<1>2. /\ installing.lock \in Lockfiles
      /\ SameDir(r.work, p, r.cmd.dir) => SameDir(installing.lock, p, r.cmd.dir)
  BY <1>1, InstallPlanSound DEF PlanSound
<1>3. \A t \in installing.ops : t.do = "write"
  BY DEF InstallPlan, Op
<1>4. \A a \in Catalog :
          installing.lock.link[a] = r.work.link[a] \/ installing.lock.link[a] = None
  BY <1>1, RecordingType DEF InstallPlan
<1>5. CASE Perform(c, p, installing, intent, installing.ops # {})
  <2>1. Activating(installing.lock, installing.ops, links)
    BY <1>3, NoNames
  <2> QED
    BY <1>3, <1>4, <1>5, <2>1, PerformRepairs
<1>6. CASE Refuse(c)
  BY <1>6, AbandonRepairs DEF Refuse, disk
<1>7. CASE /\ r.cmd.dir # None /\ SameDir(r.work, p, r.cmd.dir)
           /\ Perform(c, p, both, intent, TRUE)
  <2>1. /\ \A a \in Catalog : activating.lock.link[a] = installing.lock.link[a]
                              \/ activating.lock.link[a] = None
        /\ Activating(activating.lock, activating.ops \cup installing.ops, links)
    BY <1>1, <1>2, <1>3, <1>7, ActivatePlanNames
  <2>2. both.lock = activating.lock /\ both.ops = activating.ops \cup installing.ops
    BY DEF ActivatePlan
  <2>3. \A t \in activating.ops : t.do = "link" => t.at = None
    BY DEF ActivatePlan, Unlinks, Op
  <2> HIDE DEF both, activating, installing
  <2> QED
    BY <1>3, <1>4, <1>7, <2>1, <2>2, <2>3, PerformRepairs
<1> QED
  BY <1>5, <1>6, <1>7 DEF InstallDetail

LEMMA RepairRepairs ==
    ASSUME OneProcess, IInv, Wholes, Repairs, NEW c \in Procs, NEW p \in Packages, Repair(c, p)
    PROVE  Repairs'
<1> DEFINE r == run[c]
           plan == RepairPlan(r.work, p, r.cmd.dir)
<1>1. /\ Turns(c, p) /\ r # None /\ r \in Runs /\ r.todo = {} /\ r.loaded
      /\ r.cmd.kind = "repair" /\ r.work \in Lockfiles /\ Valid(r.work)
      /\ Whole(r.work, {}, r.cmd.dir)
  BY TurnsValid, TurnsWhole DEF Repair, Turns
<1>2. Shaped(r.work) /\ Distinct(r.work, {}) /\ Mending(r, files, links)
  BY <1>1, TurnsNamed DEF Repairs
<1>3. lockfile' = lockfile /\ files' = files /\ links' = links
  BY DEF Repair, Perform, disk
<1>4. CASE Unrepairable(r.work, p, r.cmd.dir)
  <2> DEFINE s == [r EXCEPT !.left = @ \ {p}, !.broken = @ \cup {p}]
  <2>1. run' = [run EXCEPT ![c] = s]
    BY <1>1, <1>4 DEF Repair, IInv, TypeOK
  <2>2. /\ s.cmd = r.cmd /\ s.loaded = r.loaded /\ s.work = r.work /\ s.todo = r.todo
        /\ s.left = r.left \ {p} /\ s.broken = r.broken \cup {p}
    BY <1>1 DEF Runs
  <2> HIDE DEF s
  <2>3. Named(s, links) /\ Mending(s, files, links)
    BY <1>1, <1>2, <2>2, NoNames DEF Named, Mending
  <2> QED
    BY <1>3, <2>1, <2>3, RunRepairs
<1>5. CASE ~Unrepairable(r.work, p, r.cmd.dir)
  <2>1. PICK intent, change : Perform(c, p, plan, intent, change)
    BY <1>5 DEF Repair
  <2> DEFINE s == [r EXCEPT !.work = plan.lock, !.left = @ \ {p}, !.todo = plan.ops,
                            !.changed = @ \/ change, !.touched[p] = intent]
  <2>2. run' = [run EXCEPT ![c] = s]
    BY <2>1 DEF Perform
  <2>3. /\ s.cmd = r.cmd /\ s.loaded = r.loaded /\ s.work = plan.lock /\ s.todo = plan.ops
        /\ s.left = r.left \ {p} /\ s.broken = r.broken
    BY <1>1 DEF Runs
  <2> HIDE DEF s
  <2>4. /\ plan.lock.link = r.work.link
        /\ \A t \in plan.ops : t.do = "link" /\ t.at \in Links /\ t.at = r.work.link[t.asset]
        /\ Mended(plan.lock, plan.ops, p, files, links)
    BY <1>1, <1>5, RepairPlanMends DEF IInv
  <2> HIDE DEF plan
  <2>5. \A t \in plan.ops : t.at # None
    BY <2>4, ValuesAssumption
  <2>6. Named(s, links)
    <3>1. Shaped(plan.lock) /\ Distinct(plan.lock, {})
      BY <1>2, <2>4 DEF Shaped, Distinct
    <3> QED
      BY <1>1, <2>3, <2>5, <3>1, NoNames DEF Named
  <2>7. ASSUME NEW x, Mended(r.work, {}, x, files, links)
        PROVE  Mended(plan.lock, plan.ops, x, files, links)
    BY <2>4, <2>7 DEF Mended, Recorded
  <2>8. Mending(s, files, links)
    BY <1>1, <1>2, <2>3, <2>4, <2>7 DEF Mending
  <2> QED
    BY <1>3, <2>2, <2>6, <2>8, RunRepairs
<1> QED
  BY <1>4, <1>5

\* What a deactivation or an uninstall records of symlinks.
LEMMA RecordingLinks ==
    ASSUME NEW l \in Lockfiles, NEW assets, NEW link \in {None, Absent}, NEW p \in Packages
    PROVE  \A a \in Catalog :
               LET m == SomeActive(Recording(l, assets, link), p) IN
               m.link[a] = l.link[a] \/ m.link[a] = link
<1> DEFINE m == Recording(l, assets, link)
<1>1. m \in Lockfiles /\ \A a \in Catalog : m.link[a] = IF a \in assets THEN link ELSE l.link[a]
  BY RecordingType
<1> HIDE DEF m
<1>2. SomeActive(m, p).link = m.link
  BY <1>1 DEF SomeActive, Lockfiles
<1> QED
  BY <1>1, <1>2 DEF m

LEMMA PackageRepairs ==
    ASSUME OneProcess, IInv, Wholes, Repairs, NEW c \in Procs, NEW p \in Packages,
           \/ Install(c, p) \/ UpdateNothing(c, p) \/ Update(c, p) \/ Activate(c, p)
           \/ Deactivate(c, p) \/ Uninstall(c, p) \/ Repair(c, p)
    PROVE  Repairs'
<1> DEFINE r == run[c]
<1>1. /\ Turns(c, p) /\ r # None /\ r \in Runs /\ r.todo = {}
      /\ r.work \in Lockfiles /\ Valid(r.work)
      /\ r.cmd \in Requests /\ r.cmd.dir \in Dirs \cup {None}
  BY TurnsValid
     DEF Turns, Install, UpdateNothing, Update, Activate, Deactivate, Uninstall, Repair
<1>2. CASE Refuse(c)
  BY <1>2, AbandonRepairs DEF Refuse, disk
<1>3. CASE Install(c, p)
  <2>1. r.cmd.version \in Keys
    BY <1>3, CatalogFields DEF Install, Assets
  <2> QED
    BY <1>1, <1>3, <2>1, InstallDetailRepairs DEF Install
<1>4. CASE Update(c, p)
  BY <1>1, <1>4, InstallDetailRepairs, CatalogFields DEF Update
<1>5. CASE UpdateNothing(c, p)
  <2> DEFINE s == [r EXCEPT !.left = @ \ {p}]
  <2>1. run' = [run EXCEPT ![c] = s] /\ lockfile' = lockfile /\ links' = links
    BY <1>5 DEF UpdateNothing, disk
  <2>2. s.work = r.work /\ s.todo = r.todo /\ s.cmd = r.cmd /\ r.cmd.kind = "update"
    BY <1>1, <1>5 DEF Runs, UpdateNothing
  <2> HIDE DEF s
  <2>3. Named(s, links) /\ Mending(s, files', links)
    BY <1>1, <2>2 DEF Repairs, Named, Mending
  <2> QED
    BY <2>1, <2>3, RunRepairs
<1>6. CASE Activate(c, p) /\ ~Refuse(c)
  <2>1. PICK k \in Meant(r.work, p, r.cmd.version) :
            /\ SameDir(r.work, p, r.cmd.dir)
            /\ Perform(c, p, ActivatePlan(r.work, p, k, r.cmd.dir),
                       [kind |-> "activate", keys |-> {k}, dir |-> r.cmd.dir], TRUE)
    BY <1>6 DEF Activate
  <2>2. k \in Keys
    BY CatalogFields DEF Meant, InstalledKeys, Recorded
  <2>3. r.cmd.dir \in Dirs /\ r.cmd.kind = "activate"
    BY <1>1, <1>6, RequestsAssumption DEF Activate
  <2> DEFINE plan == ActivatePlan(r.work, p, k, r.cmd.dir)
  <2>4. /\ \A a \in Catalog : plan.lock.link[a] = r.work.link[a] \/ plan.lock.link[a] = None
        /\ Activating(plan.lock, plan.ops \cup {}, links)
    BY <1>1, <2>1, <2>2, <2>3, ActivatePlanNames
  <2>5. \A t \in plan.ops : t.do = "link" => t.at = None
    BY DEF ActivatePlan, Unlinks, Op
  <2>6. plan.ops \cup {} = plan.ops
    OBVIOUS
  <2> HIDE DEF plan
  <2>7. Activating(plan.lock, plan.ops, links)
    BY <2>4, <2>6
  <2> QED
    BY <1>1, <2>1, <2>3, <2>4, <2>5, <2>7, PerformRepairs DEF plan
<1>7. ASSUME NEW plan, NEW intent, NEW change, Perform(c, p, plan, intent, change),
             r.cmd.kind # "repair", \A t \in plan.ops : t.do # "link",
             \A a \in Catalog :
                 plan.lock.link[a] = r.work.link[a] \/ plan.lock.link[a] \in {None, Absent}
      PROVE  Repairs'
  <2>1. Activating(plan.lock, plan.ops, links)
    BY <1>7, NoNames
  <2> QED
    BY <1>1, <1>7, <2>1, PerformRepairs
<1>8. CASE Deactivate(c, p)
  <2> DEFINE plan == DeactivatePlan(r.work, p, r.cmd.dir)
  <2>1. PICK intent, change : Perform(c, p, plan, intent, change)
    BY <1>8 DEF Deactivate
  <2>2. \A a \in Catalog : plan.lock.link[a] = r.work.link[a] \/ plan.lock.link[a] = None
    <3> DEFINE old == {a \in ActiveAssets(r.work, p) : InDir(r.work.link[a], r.cmd.dir)}
    <3>1. plan.lock = SomeActive(Recording(r.work, old, None), p)
      BY DEF DeactivatePlan
    <3> HIDE DEF old
    <3> QED
      BY <1>1, <3>1, RecordingLinks
  <2>3. \A t \in plan.ops : t.do # "link"
    BY DEF DeactivatePlan, Unlinks, Op
  <2> HIDE DEF plan
  <2> QED
    BY <1>7, <1>8, <2>1, <2>2, <2>3 DEF Deactivate
<1>9. CASE Uninstall(c, p) /\ ~Refuse(c)
  <2>1. PICK keys : Perform(c, p, UninstallPlan(r.work, p, keys, r.cmd.dir),
                      [kind |-> "uninstall", keys |-> keys, dir |-> r.cmd.dir], TRUE)
    BY <1>9 DEF Uninstall
  <2> DEFINE plan == UninstallPlan(r.work, p, keys, r.cmd.dir)
  <2>2. \A a \in Catalog : plan.lock.link[a] = r.work.link[a] \/ plan.lock.link[a] = Absent
    <3> DEFINE gone == {a \in Recorded(r.work, p) : a.key \in keys}
    <3>1. plan.lock = SomeActive(Recording(r.work, gone, Absent), p)
      BY DEF UninstallPlan
    <3> HIDE DEF gone
    <3> QED
      BY <1>1, <3>1, RecordingLinks
  <2>3. \A t \in plan.ops : t.do # "link"
    BY DEF UninstallPlan, Unlinks, Op
  <2>4. PICK intent, change : Perform(c, p, plan, intent, change)
    BY <2>1
  <2> HIDE DEF plan
  <2> QED
    BY <1>7, <1>9, <2>2, <2>3, <2>4 DEF Uninstall
<1>10. CASE Repair(c, p)
  BY <1>10, RepairRepairs
<1> QED
  BY <1>2, <1>3, <1>4, <1>5, <1>6, <1>8, <1>9, <1>10


-----------------------------------------------------------------------------

\* A new symlink of an activation gets a name that no other asset of the package has.
LEMMA NewName ==
    ASSUME BytesTellApart, IInv, NEW l \in Lockfiles, NEW todo \in SUBSET Ops, NEW t \in todo,
           t.do = "link", t.at = None, Shaped(l), Activating(l, todo, links), NEW dir \in Dirs,
           NEW b \in Catalog, b \notin ToName(todo), l.link[b] = SymlinkPath(dir, t.asset)
    PROVE  b = t.asset
<1> DEFINE x == t.asset
           plain == [dir |-> dir, package |-> x.package, base |-> x.base, sha |-> None]
           name == SymlinkPath(dir, x)
<1>1. x \in Catalog /\ name \in Links
  BY SymlinkPathType DEF Ops
<1>2. /\ name.package = x.package /\ name.base = x.base
      /\ \/ links[plain] \in {None, x} /\ name = plain
         \/ name.sha = x.sha
  BY DEF SymlinkPath
<1>3. b.package = x.package /\ b.base = x.base /\ name.sha \in {None, b.sha}
  BY <1>1, <1>2 DEF Shaped
<1>4. b \in ActiveAssets(l, x.package)
  BY <1>1, <1>3, CatalogFields, ActiveMeansLinked
<1>5. b.key = x.key /\ links[name] = b
  BY <1>4 DEF Activating
<1>6. CASE links[plain] \in {None, x} /\ name = plain
  BY <1>5, <1>6, ValuesAssumption
<1>7. CASE name.sha = x.sha
  BY <1>1, <1>3, <1>5, <1>7 DEF BytesTellApart
<1> QED
  BY <1>2, <1>6, <1>7

\* A symlink is made: for an activation ...
LEMMA ActivationLinkNamed ==
    ASSUME BytesTellApart, IInv, NEW c \in Procs, NEW t \in Ready(c, "link"), t.at = None,
           run[c] # None, Named(run[c], links), RunSound(run[c]), NEW dir \in Dirs,
           NEW name, name = SymlinkPath(dir, t.asset),
           links' = [links EXCEPT ![name] = t.asset], NEW m \in Lockfiles,
           \A a \in Catalog : m.link[a] = IF a = t.asset THEN name ELSE run[c].work.link[a]
    PROVE  LET rest == run[c].todo \ {t} IN
           Shaped(m) /\ Distinct(m, ToName(rest)) /\ Activating(m, rest, links')
<1> DEFINE r == run[c]
           l == r.work
           todo == r.todo
           rest == todo \ {t}
           x == t.asset
<1>1. /\ r \in Runs /\ l \in Lockfiles /\ todo \in SUBSET Ops /\ t \in todo /\ t.do = "link"
      /\ x \in Catalog /\ name \in Links
  <2>1. r \in Runs /\ t \in todo /\ t.do = "link"
    BY DEF Ready, IInv, TypeOK
  <2>2. l \in Lockfiles /\ todo \in SUBSET Ops
    BY <2>1 DEF Runs
  <2> QED
    BY <2>1, <2>2, SymlinkPathType DEF Ops
<1>2. /\ Shaped(l) /\ Distinct(l, ToName(todo)) /\ Activating(l, todo, links)
      /\ r.cmd.kind \in {"install", "update", "activate"}
  BY <1>1 DEF Named
<1>3. \A u \in todo : u.do # "unlink"
  <2> SUFFICES ASSUME NEW u \in todo, u.do = "unlink" PROVE FALSE
    OBVIOUS
  <2>1. Before(r.cmd.kind, u, t)
    BY <1>1, <1>2 DEF Before, Phase
  <2> QED
    BY <2>1 DEF Ready
<1>4. \A b \in Catalog : b \notin ToName(todo) /\ l.link[b] = name => b = x
  BY <1>1, <1>2, NewName
<1>5. name.package = x.package /\ name.base = x.base /\ name.sha \in {None, x.sha}
  BY DEF SymlinkPath
<1>6. \A b : b \in ToName(todo) => b = x \/ b \in ToName(rest)
  BY DEF ToName
<1>7. links'[name] = x /\ \A n \in Links : n # name => links'[n] = links[n]
  BY <1>1 DEF IInv, TypeOK
<1>8. \A a \in Catalog : m.link[a] = IF a = x THEN name ELSE l.link[a]
  OBVIOUS
<1>9. Shaped(m)
  BY <1>2, <1>5, <1>8 DEF Shaped
<1>10. Distinct(m, ToName(rest))
  <2> SUFFICES ASSUME NEW a \in Catalog \ ToName(rest), NEW b \in Catalog \ ToName(rest),
                      m.link[a] \in Links, m.link[a] = m.link[b]
               PROVE  a = b
    BY DEF Distinct
  <2>1. CASE a = x \/ b = x
    BY <2>1, <1>4, <1>6, <1>8
  <2>2. CASE a # x /\ b # x
    BY <2>2, <1>2, <1>6, <1>8 DEF Distinct
  <2> QED
    BY <2>1, <2>2
<1>11. Activating(m, rest, links')
  <2> SUFFICES ASSUME NEW u \in rest, u.do = "link", u.at = None,
                      NEW b \in ActiveAssets(m, u.asset.package)
               PROVE  b.key = u.asset.key /\ (b \in ToName(rest) \/ links'[m.link[b]] = b)
    BY <1>3 DEF Activating
  <2>1. b \in Catalog /\ b.package = u.asset.package
    BY DEF ActiveAssets, Recorded
  <2>2. CASE b = x
    <3>1. b.key = u.asset.key
      BY <1>1, <2>1, <2>2 DEF RunSound, Sound
    <3> QED
      BY <1>7, <1>8, <2>1, <2>2, <3>1
  <2>3. CASE b # x
    <3>1. m.link[b] = l.link[b] /\ b \in ActiveAssets(l, u.asset.package)
      BY <1>8, <2>1, <2>3 DEF ActiveAssets, Recorded
    <3>2. b.key = u.asset.key /\ (b \in ToName(todo) \/ links[l.link[b]] = b)
      BY <1>2, <3>1 DEF Activating
    <3>3. l.link[b] \in Links
      BY <1>1, <2>1, <3>1, CatalogFields, ActiveMeansLinked
    <3> QED
      BY <1>4, <1>6, <1>7, <2>1, <2>3, <3>1, <3>2, <3>3
  <2> QED
    BY <2>2, <2>3
<1> QED
  BY <1>9, <1>10, <1>11

\* ... or for a repair.
LEMMA RepairLinkMends ==
    ASSUME IInv, NEW c \in Procs, run[c] # None, NEW t \in run[c].todo, t.do = "link",
           t.at # None, Named(run[c], links), Mending(run[c], files, links), RunSound(run[c]),
           NEW m, m.link = run[c].work.link, links' = [links EXCEPT ![t.at] = t.asset],
           files' = files, NEW s, s.cmd = run[c].cmd, s.loaded = run[c].loaded, s.work = m,
           s.todo = run[c].todo \ {t}, s.left = run[c].left, s.broken = run[c].broken,
           run[c].work.link[t.asset] = t.at
    PROVE  Named(s, links') /\ Mending(s, files', links')
<1> DEFINE r == run[c]
           l == r.work
           rest == r.todo \ {t}
<1>1. r.todo \in SUBSET Ops /\ t.asset \in Catalog /\ t.at \in Links
  <2>1. r \in Runs
    BY DEF IInv, TypeOK
  <2> QED
    BY <2>1 DEF Runs, Ops
<1>2. r.cmd.kind = "repair" /\ \A u \in r.todo : u.do # "link" \/ u.at # None
  BY DEF Named
<1>3. Shaped(l) /\ Distinct(l, {})
  BY <1>2, NoNames DEF Named
<1>4. Named(s, links')
  <2>1. Shaped(m) /\ Distinct(m, {})
    BY <1>3 DEF Shaped, Distinct
  <2> QED
    BY <1>2, <2>1, NoNames DEF Named
<1>5. links'[t.at] = t.asset /\ \A n \in Links : n # t.at => links'[n] = links[n]
  BY <1>1 DEF IInv, TypeOK
<1>6. ASSUME NEW x, Mended(l, r.todo, x, files, links)
      PROVE  Mended(m, rest, x, files, links')
  <2> SUFFICES ASSUME NEW a \in Recorded(m, x)
               PROVE  /\ files[a] \in {"good", "unreadable"}
                      /\ files[a] = "good" /\ m.link[a] \in Links => links'[m.link[a]] = a
                             \/ \E u \in rest : u.do = "link" /\ u.asset = a
    BY DEF Mended
  <2>1. a \in Catalog /\ a \in Recorded(l, x)
    BY DEF Recorded
  <2>2. CASE a = t.asset
    BY <1>5, <1>6, <2>1, <2>2 DEF Mended
  <2>3. CASE a # t.asset
    <3>1. l.link[a] \in Links => l.link[a] # t.at
      BY <1>1, <1>3, <2>1, <2>3 DEF Distinct
    <3> QED
      BY <1>5, <1>6, <2>1, <2>3, <3>1 DEF Mended
  <2> QED
    BY <2>2, <2>3
<1>7. Mending(s, files', links')
  BY <1>6 DEF Mending
<1> QED
  BY <1>4, <1>7


LEMMA LinkRepairs ==
    ASSUME OneProcess, BytesTellApart, IInv, Repairs, NEW c \in Procs, Link(c)
    PROVE  Repairs'
<1>1. PICK t \in Ready(c, "link") :
        LET name == IF t.at # None THEN t.at ELSE SymlinkPath(run[c].cmd.dir, t.asset) IN
        /\ links' = [links EXCEPT ![name] = t.asset]
        /\ run' = [run EXCEPT ![c].todo = @ \ {t}, ![c].work.link[t.asset] = name]
  BY DEF Link
<1> DEFINE r == run[c]
           dir == r.cmd.dir
           l == r.work
           name == IF t.at # None THEN t.at ELSE SymlinkPath(dir, t.asset)
           m == [l EXCEPT !.link = [l.link EXCEPT ![t.asset] = name]]
           s == [r EXCEPT !.todo = @ \ {t}, !.work = m]
<1>2. r # None /\ t \in r.todo /\ t.do = "link"
  BY DEF Ready
<1>3. r \in Runs /\ RunSound(r) /\ l \in Lockfiles /\ t \in Ops
  BY <1>2 DEF IInv, TypeOK, Runs
<1>4. t.asset \in Catalog /\ name \in Links /\ (t.at = None => dir \in Dirs)
  <2>1. t.asset \in Catalog /\ t.at \in Links \cup {None}
    BY <1>3 DEF Ops
  <2>2. t.at = None => dir \in Dirs
    BY <1>2, <1>3 DEF RunSound, Sound
  <2> QED
    BY <2>1, <2>2, SymlinkPathType
<1>5. /\ run' = [run EXCEPT ![c] = s] /\ lockfile' = lockfile /\ files' = files
      /\ links' = [links EXCEPT ![name] = t.asset]
  BY <1>1, <1>3 DEF Link, IInv, TypeOK, Runs, Lockfiles
<1>6. name = IF t.at # None THEN t.at ELSE SymlinkPath(dir, t.asset)
  OBVIOUS
<1> HIDE DEF name
<1>7. m \in Lockfiles /\ m.link = [l.link EXCEPT ![t.asset] = name]
  BY <1>3, <1>4 DEF Lockfiles
<1>8. \A a \in Catalog : m.link[a] = IF a = t.asset THEN name ELSE l.link[a]
  BY <1>3, <1>7 DEF Lockfiles
<1> HIDE DEF m
<1>9. /\ s.cmd = r.cmd /\ s.loaded = r.loaded /\ s.work = m /\ s.todo = r.todo \ {t}
      /\ s.left = r.left /\ s.broken = r.broken
  BY <1>3 DEF Runs
<1> HIDE DEF s
<1>10. Named(r, links) /\ Mending(r, files, links)
  BY <1>2 DEF Repairs
<1>11. CASE t.at = None
  <2>1. /\ Shaped(m) /\ Distinct(m, ToName(r.todo \ {t}))
        /\ Activating(m, r.todo \ {t}, links')
    <3>1. name = SymlinkPath(dir, t.asset) /\ dir \in Dirs /\ t.at = None /\ r # None
      BY <1>2, <1>4, <1>6, <1>11
    <3>2. links' = [links EXCEPT ![name] = t.asset] /\ m \in Lockfiles
      BY <1>5, <1>7
    <3>3. /\ run[c] # None /\ Named(run[c], links) /\ RunSound(run[c])
          /\ \A a \in Catalog : m.link[a] = IF a = t.asset THEN name ELSE run[c].work.link[a]
      BY <1>3, <1>8, <1>10, <3>1
    <3>4. LET rest == run[c].todo \ {t} IN
          Shaped(m) /\ Distinct(m, ToName(rest)) /\ Activating(m, rest, links')
      <4> HIDE DEF r, l
      <4> QED
        BY <3>1, <3>2, <3>3, ActivationLinkNamed
    <3> QED
      BY <3>4
  <2>2. r.cmd.kind # "repair"
    BY <1>2, <1>10, <1>11 DEF Named
  <2>3. Named(s, links') /\ Mending(s, files', links')
    BY <1>9, <1>10, <2>1, <2>2 DEF Named, Mending
  <2> QED
    BY <1>5, <2>3, RunRepairs
<1>12. CASE t.at # None
  <2>1. r.cmd.kind = "repair" /\ r.loaded
    BY <1>2, <1>3, <1>10, <1>12 DEF Named, RunSound
  <2>2. name = t.at /\ l.link[t.asset] = t.at
    BY <1>2, <1>6, <1>10, <1>12, <2>1 DEF Mending
  <2>3. m.link = l.link
    BY <1>3, <1>7, <2>2 DEF Lockfiles
  <2>4. Named(s, links') /\ Mending(s, files', links')
    BY <1>2, <1>3, <1>5, <1>9, <1>10, <1>12, <2>2, <2>3, RepairLinkMends
  <2> QED
    BY <1>5, <2>4, RunRepairs
<1> QED
  BY <1>11, <1>12

\* No repair writes, unlinks or deletes, and a symlink that an activation removes is not
\* one it has made.
LEMMA OperationRepairs ==
    ASSUME OneProcess, IInv, Repairs, NEW c \in Procs,
           WriteAsset(c) \/ Unlink(c) \/ DeleteAsset(c)
    PROVE  Repairs'
<1>1. PICK t \in run[c].todo : /\ Done(c, t) /\ t.do # "link"
                               /\ links' = links \/ t.do = "unlink"
  BY DEF WriteAsset, Unlink, DeleteAsset, Ready
<1>2. run[c] # None /\ lockfile' = lockfile
  BY DEF WriteAsset, Unlink, DeleteAsset, Ready
<1> DEFINE r == run[c]
           rest == r.todo \ {t}
           s == [r EXCEPT !.todo = @ \ {t}]
<1>3. r \in Runs /\ RunSound(r) /\ run' = [run EXCEPT ![c] = s]
  BY <1>1, <1>2 DEF Done, IInv, TypeOK
<1>4. s.cmd = r.cmd /\ s.loaded = r.loaded /\ s.work = r.work /\ s.todo = rest
  BY <1>3 DEF Runs
<1> HIDE DEF s
<1>5. Named(r, links) /\ Mending(r, files, links)
  BY <1>2 DEF Repairs
<1>6. r.cmd.kind # "repair"
  BY <1>1, <1>3, <1>5 DEF Mending, RunSound
<1>7. ToName(rest) = ToName(r.todo)
  BY <1>1 DEF ToName
<1>8. Activating(r.work, rest, links')
  BY <1>1, <1>5, <1>7 DEF Named, Activating
<1>9. Named(s, links') /\ Mending(s, files', links')
  BY <1>4, <1>5, <1>6, <1>7, <1>8 DEF Named, Mending
<1> QED
  BY <1>2, <1>3, <1>9, RunRepairs

LEMMA FinishRepairs ==
    ASSUME OneProcess, IInv, Repairs, NEW c \in Procs, Finish(c)
    PROVE  Repairs'
<1>1. Shaped(run[c].work) /\ Distinct(run[c].work, {})
  BY TurnsNamed DEF Finish, Finished
<1>2. CASE Abandon(c) /\ UNCHANGED lockfile
  BY <1>2, AbandonRepairs
<1>3. CASE /\ lockfile' = IF run[c].changed THEN run[c].work ELSE lockfile
           /\ run' = [run EXCEPT ![c] = None]
  <2>1. Shaped(lockfile') /\ Distinct(lockfile', {})
    BY <1>1, <1>3 DEF Repairs
  <2>2. \A d \in Procs : run'[d] = None
    BY <1>3 DEF OneProcess, IInv, TypeOK
  <2> QED
    BY <2>1, <2>2 DEF Repairs, Shaped, Distinct
<1> QED
  BY <1>2, <1>3 DEF Finish

LEMMA NextRepairs ==
    ASSUME OneProcess, BytesTellApart, IInv, Wholes, Repairs, [Next]_vars
    PROVE  Repairs'
<1>1. ASSUME NEW c \in Procs, NEW x \in Requests, Start(c, x) PROVE Repairs'
  BY <1>1, StartLoadRepairs
<1>2. ASSUME NEW c \in Procs, Load(c) PROVE Repairs'
  BY <1>2, StartLoadRepairs
<1>3. ASSUME NEW c \in Procs, NEW p \in Packages,
             \/ Install(c, p) \/ UpdateNothing(c, p) \/ Update(c, p) \/ Activate(c, p)
             \/ Deactivate(c, p) \/ Uninstall(c, p) \/ Repair(c, p)
      PROVE  Repairs'
  BY <1>3, PackageRepairs
<1>4. ASSUME NEW c \in Procs, WriteAsset(c) \/ Unlink(c) \/ DeleteAsset(c) PROVE Repairs'
  BY <1>4, OperationRepairs
<1>5. ASSUME NEW c \in Procs, Link(c) PROVE Repairs'
  BY <1>5, LinkRepairs
<1>6. ASSUME NEW c \in Procs, Finish(c) PROVE Repairs'
  BY <1>6, FinishRepairs
<1>7. ASSUME NEW c \in Procs, Interrupt(c) PROVE Repairs'
  BY <1>7, AbandonRepairs DEF Interrupt
<1>8. ASSUME \/ \E p \in Packages : Damage(p) \/ Obstruct(p)
             \/ \E k \in Links : Occupy(k)
      PROVE  Repairs'
  <2>1. Quiet /\ run' = run /\ lockfile' = lockfile
    BY <1>8 DEF Damage, Obstruct, Occupy
  <2> QED
    BY <2>1 DEF Quiet, Repairs, Shaped, Distinct
<1>9. CASE UNCHANGED vars
  BY <1>9 DEF vars, disk, Repairs, Shaped, Distinct, Named, ToName, Activating, Mending,
              Mended, Recorded, ActiveAssets, Scope
<1> QED
  BY <1>1, <1>2, <1>3, <1>4, <1>5, <1>6, <1>7, <1>8, <1>9 DEF Next

\* What verify reports after a repair that reports success, in whatever directory: a file
\* that cannot be read, a symlink recorded in another directory, and nothing else
\* (service_repair.go:47 and 58, docs/cli.md:164,170), for one process at a time, any
\* catalogue whose versions have no two files with one name and equal hashes, any failures
\* and any outside damage before it.
THEOREM VerifyAfterRepairHolds == OneProcess /\ BytesTellApart => (Spec => []VerifyAfterRepair)
<1> SUFFICES ASSUME OneProcess, BytesTellApart PROVE Spec => []VerifyAfterRepair
  OBVIOUS
<1>1. Init => Repairs
  BY ValuesAssumption DEF Init, Repairs, EmptyLockfile, Shaped, Distinct
<1>2. IInv /\ Wholes /\ Repairs /\ [Next]_vars => Repairs'
  BY NextRepairs
<1>3. IInv /\ Repairs => VerifyAfterRepair
  <2> SUFFICES ASSUME IInv, Repairs, NEW c \in Procs, Finished(c),
                      run[c].cmd.kind = "repair", run[c].broken = {},
                      NEW p \in Scope(run[c].cmd), NEW dir \in Dirs \cup {None}
               PROVE  Findings(run[c].work, p, dir) = Overlooked(run[c].work, p, dir)
    BY DEF VerifyAfterRepair
  <2> DEFINE l == run[c].work
             faults == {[asset |-> a, code |-> AssetFault(l, a)] :
                            a \in {b \in Recorded(l, p) : AssetFault(l, b) # None}}
             unread == {[asset |-> a, code |-> "INTERNAL_ERROR"] :
                            a \in {b \in Recorded(l, p) : files[b] = "unreadable"}}
             away == {b \in ActiveAssets(l, p) : dir # None /\ ~InDir(l.link[b], dir)}
             elsewhere == {b \in ActiveAssets(l, p) : dir # None /\ l.link[b].dir # dir}
  <2>1. Mended(l, {}, p, files, links)
    BY DEF Finished, Repairs, Mending
  <2>2. l \in Lockfiles
    BY DEF Finished, IInv, TypeOK, Runs
  <2>3. \A a \in Recorded(l, p) :
            IF files[a] = "unreadable" THEN AssetFault(l, a) = "INTERNAL_ERROR"
                                       ELSE AssetFault(l, a) = None
    <3> TAKE a \in Recorded(l, p)
    <3>1. l.link[a] \in Links \cup {None}
      BY <2>2 DEF Recorded, Lockfiles
    <3>2. files[a] \in Contents
      BY DEF Recorded, IInv, TypeOK
    <3>3. files[a] \in {"good", "unreadable"}
          /\ (files[a] = "good" /\ l.link[a] \in Links => links[l.link[a]] = a)
      BY <2>1 DEF Mended
    <3> QED
      BY <3>1, <3>2, <3>3, FaultOf
  <2>4. faults = unread
    BY <2>3, ValuesAssumption
  <2>5. away = elsewhere
    <3>1. \A b \in ActiveAssets(l, p) : l.link[b] \in Links
      BY <2>2, ValuesAssumption DEF Lockfiles, ActiveAssets, Recorded
    <3> QED
      BY <3>1 DEF InDir
  <2>6. Findings(l, p, dir) =
            faults \cup {[asset |-> a, code |-> "ACTIVATION_BROKEN"] : a \in away}
    BY DEF Findings
  <2>7. Overlooked(l, p, dir) =
            unread \cup {[asset |-> a, code |-> "ACTIVATION_BROKEN"] : a \in elsewhere}
    BY DEF Overlooked
  <2> QED
    BY <2>4, <2>5, <2>6, <2>7
<1> QED
  BY <1>1, <1>2, <1>3, Invariance, WholesAlways, PTL DEF Spec

=============================================================================
