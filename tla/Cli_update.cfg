\* One user, nothing interrupted, nothing damaged: an update of all packages.
CONSTANTS
    p = p
    q = q
    here = here
    there = there
    None = None
    Absent = Absent
    All = All
    Foreign = Foreign
    Mixed = Mixed
    Damaged = Damaged
    Catalog <- Fonts
    Rank <- Order
    Dirs = {here, there}
    Procs = {c1}
    Requests <- FewRequests
    MaxCommands = 3
    MaxInterrupts = 0
    MaxDamage = 0
SPECIFICATION Spec
CHECK_DEADLOCK FALSE
INVARIANT ActiveIffLinked
