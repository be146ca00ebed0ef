------------------------------ MODULE FileState ------------------------------
(***************************************************************************)
(* The file private-state store (state.FileStore): server processes that   *)
(* share one state file.  A call takes the process's mutex, creates the    *)
(* lock file exclusively (or tries again until its context is done), loads *)
(* the file, writes a temporary file and renames it over the state file,   *)
(* removes the lock file and leaves the mutex.                             *)
(*                                                                         *)
(* The mutex dies with its process; the lock file does not.                *)
(***************************************************************************)
EXTENDS PrivateState, Naturals

CONSTANTS
    Callers,        \* goroutines that call the store
    Servers,        \* server processes that share the state file
    Home,           \* caller -> its server process
    MaxCalls,       \* bound: calls in a behaviour
    MaxFaults,      \* bound: file operations that report an error
    MaxCrashes      \* bound: crashes of a server process

ASSUME HomeAssumption == Home \in [Callers -> Servers]
ASSUME NoneAssumption ==
    None \notin Calls /\ None \notin Answers \cup {"error"} /\ None \notin Callers
ASSUME BoundsAssumption == MaxCalls \in Nat /\ MaxFaults \in Nat /\ MaxCrashes \in Nat

VARIABLES
    stateFile,      \* content of state.json
    lockFile,       \* TRUE iff state.json.lock exists
    mutex,          \* server -> the caller that holds FileStore.mu, or None
    pc,             \* caller -> what it does next
    call,           \* caller -> the call it executes, or None
    current,        \* caller -> the state it has loaded
    result,         \* caller -> the error value it will return, or None if still open
    invoked, faults, crashes

shared == <<stateFile, lockFile, mutex>>
private == <<pc, call, current, result>>
bounds == <<invoked, faults, crashes>>
vars == <<shared, private, bounds>>

Steps == {"idle", "lock", "acquire", "load", "save", "release", "unlock"}

TypeOK ==
    /\ stateFile \in States
    /\ lockFile \in BOOLEAN
    /\ mutex \in [Servers -> Callers \cup {None}]
    /\ pc \in [Callers -> Steps]
    /\ call \in [Callers -> Calls \cup {None}]
    /\ \A c \in Callers : call[c] = None <=> pc[c] = "idle"
    /\ current \in [Callers -> States]
    /\ result \in [Callers -> Answers \cup {"error", None}]
    /\ \A c \in Callers : result[c] # None <=> pc[c] \in {"release", "unlock"}
    /\ invoked \in Nat /\ faults \in Nat /\ crashes \in Nat

Init ==
    /\ stateFile = NoState
    /\ lockFile = FALSE
    /\ mutex = [s \in Servers |-> None]
    /\ pc = [c \in Callers |-> "idle"]
    /\ call = [c \in Callers |-> None]
    /\ current = [c \in Callers |-> NoState]
    /\ result = [c \in Callers |-> None]
    /\ invoked = 0 /\ faults = 0 /\ crashes = 0

Goto(c, step) == pc' = [pc EXCEPT ![c] = step]

\* The call's error value is settled; what the caller holds it gives back next.
Settle(c, value, step) ==
    /\ result' = [result EXCEPT ![c] = value]
    /\ Goto(c, step)

Fault == faults < MaxFaults /\ faults' = faults + 1

-----------------------------------------------------------------------------

Invoke(c, x) ==
    /\ pc[c] = "idle"
    /\ invoked < MaxCalls
    /\ invoked' = invoked + 1
    /\ call' = [call EXCEPT ![c] = x]
    /\ Goto(c, "lock")
    /\ UNCHANGED <<shared, current, result, faults, crashes>>

LockMutex(c) ==
    /\ pc[c] = "lock"
    /\ mutex[Home[c]] = None
    /\ mutex' = [mutex EXCEPT ![Home[c]] = c]
    /\ Goto(c, "acquire")
    /\ UNCHANGED <<stateFile, lockFile, call, current, result, bounds>>

\* Mutant of AcquireLock: the lock file is opened without O_EXCL.
AcquireLockShared(c) ==
    /\ pc[c] = "acquire"
    /\ lockFile' = TRUE
    /\ Goto(c, "load")
    /\ UNCHANGED <<stateFile, mutex, call, current, result, bounds>>

AcquireLock(c) ==
    /\ pc[c] = "acquire"
    /\ ~lockFile
    /\ lockFile' = TRUE
    /\ Goto(c, "load")
    /\ UNCHANGED <<stateFile, mutex, call, current, result, bounds>>

\* Mutant of GiveUp: the early return skips the deferred unlock of the mutex.
GiveUpKeepingMutex(c) ==
    /\ pc[c] = "acquire"
    /\ lockFile
    /\ call' = [call EXCEPT ![c] = None]
    /\ Goto(c, "idle")
    /\ UNCHANGED <<shared, current, result, bounds>>

\* The lock file exists and the context is done: the client has gone.
GiveUp(c) ==
    /\ pc[c] = "acquire"
    /\ lockFile
    /\ Settle(c, "error", "unlock")
    /\ UNCHANGED <<shared, call, current, bounds>>

\* The state directory or the lock file cannot be created.
AcquireError(c) ==
    /\ pc[c] = "acquire"
    /\ Fault
    /\ Settle(c, "error", "unlock")
    /\ UNCHANGED <<shared, call, current, invoked, crashes>>

\* Mutant of Load: a state loaded by an earlier call is used again.
LoadCached(c) ==
    LET found == IF current[c] = NoState THEN stateFile ELSE current[c] IN
    /\ pc[c] = "load"
    /\ current' = [current EXCEPT ![c] = found]
    /\ LET value == Answer(found, call[c]) IN
       IF value = "nil" /\ After(found, call[c]) # found
       THEN Goto(c, "save") /\ UNCHANGED result
       ELSE Settle(c, value, "release")
    /\ UNCHANGED <<shared, call, bounds>>

\* Mutant of Load: a call settled at once skips the removal of the lock file.
LoadKeepsLock(c) ==
    /\ pc[c] = "load"
    /\ current' = [current EXCEPT ![c] = stateFile]
    /\ LET value == Answer(stateFile, call[c]) IN
       IF value = "nil" /\ After(stateFile, call[c]) # stateFile
       THEN Goto(c, "save") /\ UNCHANGED result
       ELSE Settle(c, value, "unlock")
    /\ UNCHANGED <<shared, call, bounds>>

\* The state file is read.  A call that changes nothing is settled at once.
Load(c) ==
    /\ pc[c] = "load"
    /\ current' = [current EXCEPT ![c] = stateFile]
    /\ LET value == Answer(stateFile, call[c]) IN
       IF value = "nil" /\ After(stateFile, call[c]) # stateFile
       THEN Goto(c, "save") /\ UNCHANGED result
       ELSE Settle(c, value, "release")
    /\ UNCHANGED <<shared, call, bounds>>

\* The new state is renamed over the file: a reader sees the old or the new one.
Save(c) ==
    /\ pc[c] = "save"
    /\ stateFile' = After(current[c], call[c])
    /\ Settle(c, "nil", "release")
    /\ UNCHANGED <<lockFile, mutex, call, current, bounds>>

\* Reading, decoding, writing or renaming fails: the state file stays as it is.
FileError(c) ==
    /\ pc[c] \in {"load", "save"}
    /\ Fault
    /\ Settle(c, "error", "release")
    /\ UNCHANGED <<shared, call, current, invoked, crashes>>

\* The lock file is removed; an error of the removal is ignored.
Release(c) ==
    /\ pc[c] = "release"
    /\ Goto(c, "unlock")
    /\ \/ lockFile' = FALSE /\ UNCHANGED faults
       \/ UNCHANGED lockFile /\ Fault
    /\ UNCHANGED <<stateFile, mutex, call, current, result, invoked, crashes>>

\* Mutant of UnlockMutex: the error value of a call is left for the next one.
UnlockMutexKeepingResult(c) ==
    /\ pc[c] = "unlock"
    /\ mutex' = [mutex EXCEPT ![Home[c]] = None]
    /\ call' = [call EXCEPT ![c] = None]
    /\ Goto(c, "idle")
    /\ UNCHANGED <<stateFile, lockFile, current, result, bounds>>

UnlockMutex(c) ==
    /\ pc[c] = "unlock"
    /\ mutex' = [mutex EXCEPT ![Home[c]] = None]
    /\ call' = [call EXCEPT ![c] = None]
    /\ result' = [result EXCEPT ![c] = None]
    /\ Goto(c, "idle")
    /\ UNCHANGED <<stateFile, lockFile, current, bounds>>

\* A server process stops and starts again.
Crash(s) ==
    LET lost == {c \in Callers : Home[c] = s} IN
    /\ crashes < MaxCrashes
    /\ crashes' = crashes + 1
    /\ mutex' = [mutex EXCEPT ![s] = None]
    /\ pc' = [c \in Callers |-> IF c \in lost THEN "idle" ELSE pc[c]]
    /\ call' = [c \in Callers |-> IF c \in lost THEN None ELSE call[c]]
    /\ result' = [c \in Callers |-> IF c \in lost THEN None ELSE result[c]]
    /\ UNCHANGED <<stateFile, lockFile, current, invoked, faults>>

-----------------------------------------------------------------------------

\* The steps a caller takes of itself; GiveUp waits for its client to leave.
CallerStep(c) ==
    \/ AcquireLock(c) \/ Load(c) \/ Save(c) \/ Release(c) \/ UnlockMutex(c)

Next ==
    \/ \E c \in Callers :
        \/ \E x \in Calls : Invoke(c, x)
        \/ LockMutex(c) \/ CallerStep(c)
        \/ GiveUp(c) \/ AcquireError(c) \/ FileError(c)
    \/ \E s \in Servers : Crash(s)

Spec == Init /\ [][Next]_vars

\* A goroutine that can run does run.  sync.Mutex hands the mutex over to a waiter
\* that starves; the lock file, polled, gives no such guarantee.
LiveSpec ==
    Spec /\ \A c \in Callers : WF_vars(CallerStep(c)) /\ SF_vars(LockMutex(c))

-----------------------------------------------------------------------------

Holding(c) == pc[c] \in {"load", "save", "release"}

\* The callers of all processes load and save one at a time, and while one does the
\* lock file is there; so what it has loaded is what it replaces.
LockProtects ==
    /\ \A c, d \in Callers : Holding(c) /\ Holding(d) => c = d
    /\ \A c \in Callers : Holding(c) => lockFile
    /\ \A c \in Callers : pc[c] = "save" => current[c] = stateFile

\* A reserved token identifier and a package binding are never forgotten or changed,
\* whichever processes write, fail or crash (docs/quickstart.md:192).
NothingForgotten ==
    [][/\ stateFile.usedJTI \subseteq stateFile'.usedJTI
       /\ \A p \in PackageIDs : stateFile.bindings[p] # None =>
              stateFile'.bindings[p] = stateFile.bindings[p]]_vars

\* The store behaves like one that serves each call at one moment (see StateStore).
Atomic == INSTANCE StateStore WITH state <- stateFile, pending <- call, answer <- result
ImplementsStateStore == Atomic!Spec

\* The lock file of a caller that is gone.  Nothing in the code removes it.
StaleLock == lockFile /\ \A c \in Callers : ~Holding(c)

\* When calls stop coming, every call returns, or a stale lock file is what it waits
\* for: the mutex and the lock file never make callers wait for each other forever.
ReturnsUnlessStale ==
    \A c \in Callers : (pc[c] # "idle") ~> (pc[c] = "idle" \/ StaleLock)

\* A lock file is stale only once a process has crashed or a file operation failed.
StaleLockExplained == StaleLock => crashes > 0 \/ faults > 0
=============================================================================
