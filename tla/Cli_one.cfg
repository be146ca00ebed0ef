\* One user, one command at a time, one of them interrupted, two outside changes.
CONSTANTS
    p = p
    q = q
    here = here
    there = there
    None = None
    Absent = Absent
    All = All
    Foreign = Foreign
    Mixed = Mixed
    Damaged = Damaged
    Catalog <- Fonts
    Rank <- Order
    Dirs = {here, there}
    Procs = {c1}
    Requests <- ManyRequests
    MaxCommands = 3
    MaxInterrupts = 1
    MaxDamage = 2
SPECIFICATION Spec
CHECK_DEADLOCK FALSE
INVARIANTS TypeOK SaveNeverRefused CompletedAgrees NeverTwoVersions NoDanglingLink VerifyAfterRepair LsAgreesWithVerify
