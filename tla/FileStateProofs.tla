--------------------------- MODULE FileStateProofs ---------------------------
(***************************************************************************)
(* Theorems about FileState for any number of processes, callers, calls,   *)
(* failing file operations and crashes: the lock file excludes, nothing is *)
(* forgotten, and the file store implements the atomic StateStore.         *)
(***************************************************************************)
EXTENDS FileState, TLAPS

LEMMA AnswerType ==
    ASSUME NEW s \in States, NEW x \in Calls
    PROVE  Answer(s, x) \in Answers
BY DEF Answer, Answers

LEMMA AfterType ==
    ASSUME NEW s \in States, NEW x \in Calls
    PROVE  After(s, x) \in States
<1>1. CASE x \in ReserveCalls
  BY <1>1 DEF After, States, ReserveCalls
<1>2. CASE x \notin ReserveCalls
  BY <1>2 DEF After, States, Calls, BindCalls
<1> QED
  BY <1>1, <1>2

LEMMA NoStateType == NoState \in States
BY DEF NoState, States

\* What a call that is answered nil adds to the state, nothing else changes.
LEMMA AfterKeeps ==
    ASSUME NEW s \in States, NEW x \in Calls, Answer(s, x) = "nil"
    PROVE  /\ s.usedJTI \subseteq After(s, x).usedJTI
           /\ \A p \in PackageIDs : s.bindings[p] # None =>
                  After(s, x).bindings[p] = s.bindings[p]
<1>1. CASE x \in ReserveCalls
  BY <1>1 DEF After, States, ReserveCalls
<1>2. CASE x \in BindCalls /\ x \notin ReserveCalls
  BY <1>2 DEF After, Answer, States, BindCalls
<1> QED
  BY <1>1, <1>2 DEF Calls

\* A call goes on to save only if it is to be answered nil.
SavesNil == \A c \in Callers : pc[c] = "save" => Answer(current[c], call[c]) = "nil"

Inv == TypeOK /\ LockProtects /\ SavesNil

LEMMA TypeStep == TypeOK /\ [Next]_vars => TypeOK'
<1> SUFFICES ASSUME TypeOK, [Next]_vars
             PROVE  TypeOK'
  OBVIOUS
<1> USE NoneAssumption, HomeAssumption
    DEF TypeOK, Goto, Settle, Fault, shared, private, bounds, Steps
<1>1. ASSUME NEW c \in Callers, NEW x \in Calls, Invoke(c, x)
      PROVE  TypeOK'
  BY <1>1 DEF Invoke
<1>2. ASSUME NEW c \in Callers, LockMutex(c)
      PROVE  TypeOK'
  BY <1>2 DEF LockMutex
<1>3. ASSUME NEW c \in Callers, AcquireLock(c)
      PROVE  TypeOK'
  BY <1>3 DEF AcquireLock
<1>4. ASSUME NEW c \in Callers, Load(c)
      PROVE  TypeOK'
  <2>1. Answer(stateFile, call[c]) \in Answers
    BY <1>4, AnswerType DEF Load
  <2> QED
    BY <1>4, <2>1 DEF Load
<1>5. ASSUME NEW c \in Callers, Save(c)
      PROVE  TypeOK'
  <2>1. After(current[c], call[c]) \in States
    BY <1>5, AfterType DEF Save
  <2> QED
    BY <1>5, <2>1 DEF Save, Answers
<1>6. ASSUME NEW c \in Callers, Release(c)
      PROVE  TypeOK'
  <2>1. lockFile' \in BOOLEAN /\ faults' \in Nat
    <3>1. CASE lockFile' = FALSE /\ UNCHANGED faults
      BY <3>1
    <3>2. CASE UNCHANGED lockFile /\ Fault
      BY <3>2
    <3> QED
      BY <1>6, <3>1, <3>2 DEF Release
  <2>2. pc' = [pc EXCEPT ![c] = "unlock"] /\ pc[c] = "release"
    BY <1>6 DEF Release
  <2>3. pc' \in [Callers -> Steps] /\ \A d \in Callers : result[d] # None <=>
          pc'[d] \in {"release", "unlock"}
    BY <2>2
  <2>4. \A d \in Callers : call[d] = None <=> pc'[d] = "idle"
    BY <2>2
  <2> QED
    BY <1>6, <2>1, <2>3, <2>4 DEF Release
<1>7. ASSUME NEW c \in Callers, UnlockMutex(c)
      PROVE  TypeOK'
  BY <1>7 DEF UnlockMutex
<1>8. ASSUME NEW c \in Callers, GiveUp(c) \/ AcquireError(c) \/ FileError(c)
      PROVE  TypeOK'
  BY <1>8 DEF GiveUp, AcquireError, FileError
<1>9. ASSUME NEW s \in Servers, Crash(s)
      PROVE  TypeOK'
  BY <1>9 DEF Crash
<1>10. CASE UNCHANGED vars
  BY <1>10 DEF vars
<1> QED
  BY <1>1, <1>2, <1>3, <1>4, <1>5, <1>6, <1>7, <1>8, <1>9, <1>10 DEF Next, CallerStep

LEMMA LockStep == Inv /\ [Next]_vars => LockProtects' /\ SavesNil'
<1> SUFFICES ASSUME Inv, [Next]_vars
             PROVE  LockProtects' /\ SavesNil'
  OBVIOUS
<1> USE DEF Inv, TypeOK, LockProtects, SavesNil, Holding, Goto, Settle, shared
<1>1. ASSUME NEW c \in Callers, NEW x \in Calls, Invoke(c, x)
      PROVE  LockProtects' /\ SavesNil'
  BY <1>1 DEF Invoke
<1>2. ASSUME NEW c \in Callers, LockMutex(c)
      PROVE  LockProtects' /\ SavesNil'
  BY <1>2 DEF LockMutex
<1>3. ASSUME NEW c \in Callers, AcquireLock(c)
      PROVE  LockProtects' /\ SavesNil'
  BY <1>3 DEF AcquireLock
<1>4. ASSUME NEW c \in Callers, Load(c)
      PROVE  LockProtects' /\ SavesNil'
  BY <1>4 DEF Load
<1>5. ASSUME NEW c \in Callers, Save(c)
      PROVE  LockProtects' /\ SavesNil'
  BY <1>5 DEF Save
<1>6. ASSUME NEW c \in Callers, Release(c)
      PROVE  LockProtects' /\ SavesNil'
  BY <1>6 DEF Release
<1>7. ASSUME NEW c \in Callers, UnlockMutex(c)
      PROVE  LockProtects' /\ SavesNil'
  BY <1>7 DEF UnlockMutex
<1>8. ASSUME NEW c \in Callers, GiveUp(c) \/ AcquireError(c) \/ FileError(c)
      PROVE  LockProtects' /\ SavesNil'
  BY <1>8 DEF GiveUp, AcquireError, FileError
<1>9. ASSUME NEW s \in Servers, Crash(s)
      PROVE  LockProtects' /\ SavesNil'
  BY <1>9 DEF Crash
<1>10. CASE UNCHANGED vars
  BY <1>10 DEF vars, private
<1> QED
  BY <1>1, <1>2, <1>3, <1>4, <1>5, <1>6, <1>7, <1>8, <1>9, <1>10 DEF Next, CallerStep

LEMMA InitInv == Init => Inv
<1>1. Init => TypeOK
  <2> SUFFICES ASSUME Init
               PROVE  TypeOK
    OBVIOUS
  <2>1. /\ stateFile \in States /\ lockFile \in BOOLEAN
        /\ current \in [Callers -> States]
    BY NoStateType DEF Init
  <2>2. pc \in [Callers -> Steps] /\ mutex \in [Servers -> Callers \cup {None}]
    BY DEF Init, Steps
  <2>3. call \in [Callers -> Calls \cup {None}]
    BY DEF Init
  <2>4. result \in [Callers -> Answers \cup {"error", None}]
    BY DEF Init
  <2>5. \A c \in Callers : pc[c] = "idle" /\ call[c] = None /\ result[c] = None
    BY DEF Init
  <2> QED
    BY <2>1, <2>2, <2>3, <2>4, <2>5 DEF Init, TypeOK
<1> QED
  BY <1>1 DEF Init, Inv, LockProtects, SavesNil, Holding

LEMMA InvStep == Inv /\ [Next]_vars => Inv'
BY TypeStep, LockStep DEF Inv

\* The state file, the locks and the callers' local state keep their types: a call
\* is in progress exactly while its caller is not idle, and its error value is
\* settled exactly while what it holds is given back.
THEOREM FileTypeCorrect == Spec => []TypeOK
<1>1. Inv => TypeOK
  BY DEF Inv
<1> QED
  BY <1>1, InitInv, InvStep, PTL DEF Spec

\* Callers of all processes load and save one at a time, and what a caller has
\* loaded is what it replaces, even where processes crash holding the lock.
THEOREM LockProtectsHolds == Spec => []LockProtects
<1>1. Inv => LockProtects
  BY DEF Inv
<1> QED
  BY <1>1, InitInv, InvStep, PTL DEF Spec

\* While nothing has failed or crashed, whoever took the lock file still holds it.
LEMMA StaleLockStep == Inv /\ StaleLockExplained /\ [Next]_vars => StaleLockExplained'
<1> SUFFICES ASSUME Inv, StaleLockExplained, [Next]_vars,
                    lockFile', \A c \in Callers : ~Holding(c)'
             PROVE  crashes' > 0 \/ faults' > 0
  BY DEF StaleLockExplained, StaleLock
<1> USE DEF Inv, TypeOK, StaleLockExplained, StaleLock, Holding, Goto, Settle, Fault
<1>1. ASSUME NEW c \in Callers, NEW x \in Calls, Invoke(c, x)
      PROVE  crashes' > 0 \/ faults' > 0
  BY <1>1 DEF Invoke, shared
<1>2. ASSUME NEW c \in Callers, LockMutex(c)
      PROVE  crashes' > 0 \/ faults' > 0
  BY <1>2 DEF LockMutex, bounds
<1>3. ASSUME NEW c \in Callers, AcquireLock(c) \/ Load(c) \/ Save(c)
      PROVE  FALSE
  BY <1>3 DEF AcquireLock, Load, Save
<1>4. ASSUME NEW c \in Callers, Release(c) \/ AcquireError(c) \/ FileError(c)
      PROVE  crashes' > 0 \/ faults' > 0
  <2>1. Fault
    <3>1. CASE Release(c)
      <4>1. lockFile' # FALSE
        OBVIOUS
      <4> QED
        BY <3>1, <4>1 DEF Release
    <3>2. CASE AcquireError(c) \/ FileError(c)
      BY <3>2 DEF AcquireError, FileError
    <3> QED
      BY <1>4, <3>1, <3>2
  <2> QED
    BY <2>1
<1>5. ASSUME NEW c \in Callers, UnlockMutex(c) \/ GiveUp(c)
      PROVE  crashes' > 0 \/ faults' > 0
  BY <1>5 DEF UnlockMutex, GiveUp, shared, bounds
<1>6. ASSUME NEW s \in Servers, Crash(s)
      PROVE  crashes' > 0
  BY <1>6 DEF Crash
<1>7. CASE UNCHANGED vars
  BY <1>7 DEF vars, shared, private, bounds
<1> QED
  BY <1>1, <1>2, <1>3, <1>4, <1>5, <1>6, <1>7 DEF Next, CallerStep

\* A lock file that nobody holds is left only by a crash or a failed operation: calls
\* that end normally, refused or given up ones too, never leave it behind.
THEOREM StaleLockExplainedHolds == Spec => []StaleLockExplained
<1>1. Init => StaleLockExplained
  BY DEF Init, StaleLockExplained, StaleLock
<1> QED
  BY <1>1, StaleLockStep, InitInv, InvStep, PTL DEF Spec

\* A reserved token identifier and a package binding are never forgotten.
THEOREM NothingForgottenHolds == Spec => NothingForgotten
<1> DEFINE Keeps ==
        /\ stateFile.usedJTI \subseteq stateFile'.usedJTI
        /\ \A p \in PackageIDs : stateFile.bindings[p] # None =>
               stateFile'.bindings[p] = stateFile.bindings[p]
<1>1. Inv /\ [Next]_vars => [Keeps]_vars
  <2> SUFFICES ASSUME Inv, [Next]_vars
               PROVE  Keeps
    OBVIOUS
  <2>1. stateFile' = stateFile \/ \E c \in Callers : Save(c)
    BY DEF Next, CallerStep, Invoke, LockMutex, AcquireLock, Load, Release, UnlockMutex,
           GiveUp, AcquireError, FileError, Crash, vars, shared
  <2>2. ASSUME NEW c \in Callers, Save(c)
        PROVE  Keeps
    <3>1. /\ current[c] = stateFile /\ stateFile' = After(stateFile, call[c])
          /\ stateFile \in States /\ call[c] \in Calls /\ Answer(stateFile, call[c]) = "nil"
      BY <2>2 DEF Save, Inv, TypeOK, LockProtects, SavesNil
    <3> QED
      BY <3>1, AfterKeeps
  <2> QED
    BY <2>1, <2>2
<1> QED
  BY <1>1, InitInv, InvStep, PTL DEF Spec, NothingForgotten

\* StateStore is instantiated with this module's own constants.
LEMMA SameInterface ==
    /\ Atomic!NoState = NoState /\ Atomic!Calls = Calls
    /\ \A s, x : Atomic!Answer(s, x) = Answer(s, x) /\ Atomic!After(s, x) = After(s, x)
BY DEF Atomic!NoState, NoState, Atomic!Calls, Calls, Atomic!ReserveCalls, ReserveCalls,
       Atomic!BindCalls, BindCalls, Atomic!Answer, Answer, Atomic!After, After

\* The file store behaves like one that serves each call at one moment: a call that
\* changes nothing when it loads the file, one that does when it saves it.
THEOREM FileStoreAtomic == Spec => ImplementsStateStore
<1>1. Init => Atomic!Init
  BY SameInterface DEF Init, Atomic!Init
<1>2. Inv /\ [Next]_vars => [Atomic!Next]_<<stateFile, call, result>>
  <2> SUFFICES ASSUME Inv, Next
               PROVE  Atomic!Next \/ UNCHANGED <<stateFile, call, result>>
    BY DEF vars, shared, private
  <2> USE DEF Inv, TypeOK, Goto, Settle, shared
  <2>1. ASSUME NEW c \in Callers, NEW x \in Calls, Invoke(c, x)
        PROVE  Atomic!Invoke(c, x)
    BY <2>1 DEF Invoke, Atomic!Invoke
  <2>2. ASSUME NEW c \in Callers, LockMutex(c) \/ AcquireLock(c) \/ Release(c)
        PROVE  UNCHANGED <<stateFile, call, result>>
    BY <2>2 DEF LockMutex, AcquireLock, Release
  <2>3. ASSUME NEW c \in Callers, Load(c)
        PROVE  Atomic!Serve(c) \/ UNCHANGED <<stateFile, call, result>>
    BY <2>3, SameInterface DEF Load, Atomic!Serve
  <2>4. ASSUME NEW c \in Callers, Save(c)
        PROVE  Atomic!Serve(c)
    BY <2>4, SameInterface, NoneAssumption DEF Save, Atomic!Serve, LockProtects, SavesNil
  <2>5. ASSUME NEW c \in Callers, GiveUp(c) \/ AcquireError(c) \/ FileError(c)
        PROVE  Atomic!FailCall(c)
    BY <2>5 DEF GiveUp, AcquireError, FileError, Atomic!FailCall
  <2>6. ASSUME NEW c \in Callers, UnlockMutex(c)
        PROVE  Atomic!Return(c)
    BY <2>6 DEF UnlockMutex, Atomic!Return
  <2>7. ASSUME NEW s \in Servers, Crash(s)
        PROVE  Atomic!CutOff({c \in Callers : Home[c] = s})
    BY <2>7 DEF Crash, Atomic!CutOff
  <2> QED
    BY <2>1, <2>2, <2>3, <2>4, <2>5, <2>6, <2>7, SameInterface DEF Next, CallerStep, Atomic!Next
<1> QED
  BY <1>1, <1>2, InitInv, InvStep, PTL DEF Spec, ImplementsStateStore, Atomic!Spec
=============================================================================
