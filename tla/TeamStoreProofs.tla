-------------------------- MODULE TeamStoreProofs ---------------------------
(* Proofs about TeamStore, for any number of calls, tasks, jobs and        *)
(* retries: its steps are steps of FileLock, whose lock files have owners  *)
(* and exclude until one of them is stale; what its files hold is typed;   *)
(* and it implements TaskBoard as long as nobody shares a lock.            *)
EXTENDS TeamStore, SharedFacts, FiniteSetTheorems, TLAPS

-----------------------------------------------------------------------------
(* The inductive invariant of FileLock.  A holder's lock file is its own,  *)
(* and nobody is about to remove it: that is what a lock loses once a file *)
(* of it has been stale.                                                   *)

HoldersOwn ==
    \A l \in Locks \ aged : \A c \in Callers :
        path[c] = l => /\ at[c] # "remove"
                       /\ at[c] \in {"body", "release"} => lockFile[l] = c

LockInv == LockTypeOK /\ LocksHaveOwners /\ HoldersOwn /\ overlapped \subseteq aged

LEMMA LockInitInv == LockInit => LockInv
<1> SUFFICES ASSUME LockInit PROVE LockInv
    OBVIOUS
<1> USE FileLockAssumption DEF LockInit
<1>1. LockTypeOK
    BY DEF LockTypeOK, Ats
<1>2. LocksHaveOwners /\ HoldersOwn /\ overlapped \subseteq aged
    BY DEF LocksHaveOwners, HoldersOwn
<1> QED
    BY <1>1, <1>2 DEF LockInv

\* A step of one caller that leaves the lock files alone and does not enter or leave.
LEMMA WalkInv ==
    ASSUME LockInv, NEW c \in Callers, NEW where \in {"exists", "stat", "create", "done"},
           at[c] \in {"exists", "stat", "create"}, Goto(c, where),
           left' \in [Callers -> 0..MaxRetries],
           \A d \in Callers : at'[d] # "done" => left'[d] > 0,
           UNCHANGED <<lockFile, stale, path, aged, overlapped>>
    PROVE  LockInv'
<1> USE FileLockAssumption DEF LockInv, LockTypeOK, Goto, Ats
<1>1. LockTypeOK'
    OBVIOUS
<1>2. LocksHaveOwners'
    BY DEF LocksHaveOwners
<1>3. HoldersOwn'
    BY DEF HoldersOwn
<1> QED
    BY <1>1, <1>2, <1>3

LEMMA RetryInv ==
    ASSUME LockInv, NEW c \in Callers, at[c] \in {"stat", "create"}, Retry(c),
           UNCHANGED <<lockFile, stale, path, aged, overlapped>>
    PROVE  LockInv'
<1>1. left[c] \in 1..MaxRetries
    BY FileLockAssumption DEF LockInv, LockTypeOK
<1>2. left' \in [Callers -> 0..MaxRetries]
    BY <1>1, FileLockAssumption DEF Retry, LockInv, LockTypeOK
<1>3. \A d \in Callers : at'[d] # "done" => left'[d] > 0
    BY <1>1, FileLockAssumption DEF Retry, Goto, LockInv, LockTypeOK
<1>4. Goto(c, "done") \/ Goto(c, "exists")
    BY DEF Retry
<1>5. CASE Goto(c, "done")
    BY <1>2, <1>3, <1>5, WalkInv
<1>6. CASE Goto(c, "exists")
    BY <1>2, <1>3, <1>6, WalkInv
<1> QED
    BY <1>4, <1>5, <1>6

LEMMA LockStepInv ==
    ASSUME LockInv, LockNext
    PROVE  LockInv'
<1> USE FileLockAssumption DEF LockInv
<1>1. ASSUME NEW c \in Callers, Exists(c) PROVE LockInv'
    <2>1. /\ at[c] = "exists" /\ UNCHANGED <<lockFile, stale, path, left, aged, overlapped>>
          /\ left' \in [Callers -> 0..MaxRetries]
          /\ \A d \in Callers : at'[d] # "done" => left'[d] > 0
        BY <1>1 DEF Exists, LockTypeOK, Goto
    <2>2. Goto(c, "create") \/ Goto(c, "stat")
        BY <1>1 DEF Exists
    <2>3. CASE Goto(c, "create")
        BY <2>1, <2>3, WalkInv
    <2>4. CASE Goto(c, "stat")
        BY <2>1, <2>4, WalkInv
    <2> QED
        BY <2>2, <2>3, <2>4
<1>2. ASSUME NEW c \in Callers, Stat(c) PROVE LockInv'
    <2>1. path[c] \in Locks
        BY <1>2 DEF Stat, LockTypeOK
    <2>2. CASE lockFile[path[c]] = None
        BY <1>2, <2>2, RetryInv DEF Stat
    <2>3. CASE lockFile[path[c]] # None /\ ~stale[path[c]]
        <3>1. /\ at[c] = "stat" /\ Goto(c, "create")
              /\ UNCHANGED <<lockFile, stale, path, left, aged, overlapped>>
            BY <1>2, <2>3 DEF Stat
        <3>2. /\ left' \in [Callers -> 0..MaxRetries]
              /\ \A d \in Callers : at'[d] # "done" => left'[d] > 0
            BY <3>1 DEF LockTypeOK, Goto
        <3> QED
            BY <3>1, <3>2, WalkInv
    <2>4. CASE lockFile[path[c]] # None /\ stale[path[c]]
        <3>1. path[c] \in aged
            BY <2>1, <2>4 DEF LockTypeOK
        <3>2. Goto(c, "remove") /\ UNCHANGED <<lockFile, stale, path, left, aged, overlapped>>
            BY <1>2, <2>4 DEF Stat
        <3>3. LockTypeOK'
            BY <1>2, <3>2 DEF Stat, LockTypeOK, Goto, Ats
        <3>4. LocksHaveOwners' /\ HoldersOwn'
            BY <1>2, <3>1, <3>2 DEF Stat, LocksHaveOwners, HoldersOwn, LockTypeOK, Goto
        <3> QED
            BY <3>2, <3>3, <3>4
    <2> QED
        BY <2>1, <2>2, <2>3, <2>4 DEF LockTypeOK
<1>3. ASSUME NEW c \in Callers, RemoveStale(c) PROVE LockInv'
    <2>1. path[c] \in Locks /\ path[c] \in aged
        BY <1>3 DEF RemoveStale, LockTypeOK, HoldersOwn
    <2>2. LockTypeOK'
        BY <1>3, <2>1 DEF RemoveStale, Unlink, LockTypeOK, Goto, Ats
    <2>3. LocksHaveOwners'
        BY <1>3, <2>1 DEF RemoveStale, Unlink, LockTypeOK, Goto, LocksHaveOwners
    <2>4. HoldersOwn'
        BY <1>3, <2>1 DEF RemoveStale, Unlink, LockTypeOK, Goto, HoldersOwn
    <2> QED
        BY <1>3, <2>2, <2>3, <2>4 DEF RemoveStale
<1>4. ASSUME NEW c \in Callers, CreateLock(c) PROVE LockInv'
    <2>1. path[c] \in Locks
        BY <1>4 DEF CreateLock, LockTypeOK
    <2>2. CASE lockFile[path[c]] # None
        BY <1>4, <2>2, RetryInv DEF CreateLock
    <2>3. CASE lockFile[path[c]] = None
        <3>1. /\ lockFile' = [lockFile EXCEPT ![path[c]] = c] /\ Goto(c, "body")
              /\ UNCHANGED <<stale, path, left, aged>>
              /\ overlapped' = IF Holders(path[c]) = {} THEN overlapped
                               ELSE overlapped \cup {path[c]}
            BY <1>4, <2>3 DEF CreateLock
        <3>2. path[c] \notin aged => Holders(path[c]) = {}
            BY <2>1, <2>3 DEF HoldersOwn, Holders, LockTypeOK
        <3>3. overlapped' \subseteq aged'
            BY <3>1, <3>2
        <3>4. LockTypeOK'
            BY <1>4, <2>1, <3>1, <3>3 DEF LockTypeOK, Goto, Ats, CreateLock
        <3>5. LocksHaveOwners'
            BY <1>4, <2>1, <3>1 DEF LockTypeOK, Goto, LocksHaveOwners, CreateLock
        <3>6. HoldersOwn'
            BY <2>1, <3>1, <3>2 DEF LockTypeOK, Goto, HoldersOwn, Holders
        <3> QED
            BY <3>3, <3>4, <3>5, <3>6
    <2> QED
        BY <2>2, <2>3
<1>5. ASSUME NEW c \in Callers, Leave(c) PROVE LockInv'
    <2>1. LockTypeOK'
        BY <1>5 DEF Leave, LockTypeOK, Goto, Ats
    <2>2. LocksHaveOwners' /\ HoldersOwn'
        BY <1>5 DEF Leave, LockTypeOK, Goto, LocksHaveOwners, HoldersOwn
    <2> QED
        BY <1>5, <2>1, <2>2 DEF Leave
<1>6. ASSUME NEW c \in Callers, Release(c) PROVE LockInv'
    <2>1. path[c] \in Locks
        BY <1>6 DEF Release, LockTypeOK
    <2>2. LockTypeOK'
        BY <1>6, <2>1 DEF Release, Unlink, LockTypeOK, Goto, Ats
    <2>3. LocksHaveOwners'
        BY <1>6, <2>1 DEF Release, Unlink, LockTypeOK, Goto, LocksHaveOwners
    <2>4. HoldersOwn'
        BY <1>6, <2>1 DEF Release, Unlink, LockTypeOK, Goto, HoldersOwn
    <2> QED
        BY <1>6, <2>2, <2>3, <2>4 DEF Release
<1>7. ASSUME NEW c \in Callers, Die(c) PROVE LockInv'
    <2>1. LockTypeOK'
        BY <1>7 DEF Die, LockTypeOK, Goto, Ats
    <2>2. LocksHaveOwners' /\ HoldersOwn'
        BY <1>7 DEF Die, LockTypeOK, Goto, LocksHaveOwners, HoldersOwn
    <2> QED
        BY <1>7, <2>1, <2>2 DEF Die
<1>8. ASSUME NEW c \in Callers, Decline(c) PROVE LockInv'
    <2>1. LockTypeOK'
        BY <1>8 DEF Decline, LockTypeOK, Goto, Ats
    <2>2. LocksHaveOwners' /\ HoldersOwn'
        BY <1>8 DEF Decline, LockTypeOK, Goto, LocksHaveOwners, HoldersOwn
    <2> QED
        BY <1>8, <2>1, <2>2 DEF Decline
<1>9. ASSUME NEW c \in Callers, NEW l \in Locks, Ask(c, l) PROVE LockInv'
    <2>1. LockTypeOK'
        BY <1>9 DEF Ask, LockTypeOK, Goto, Ats
    <2>2. LocksHaveOwners' /\ HoldersOwn'
        BY <1>9 DEF Ask, LockTypeOK, Goto, LocksHaveOwners, HoldersOwn
    <2> QED
        BY <1>9, <2>1, <2>2 DEF Ask
<1>10. ASSUME NEW l \in Locks, Age(l) PROVE LockInv'
    <2>1. LockTypeOK'
        BY <1>10 DEF Age, LockTypeOK
    <2>2. LocksHaveOwners' /\ HoldersOwn' /\ overlapped' \subseteq aged'
        BY <1>10 DEF Age, LocksHaveOwners, HoldersOwn
    <2> QED
        BY <2>1, <2>2
<1> QED
    BY <1>1, <1>2, <1>3, <1>4, <1>5, <1>6, <1>7, <1>8, <1>9, <1>10 DEF LockNext, Acquire

LEMMA LockInvStutters == LockInv /\ UNCHANGED lockVars => LockInv'
    BY DEF LockInv, LockTypeOK, LocksHaveOwners, HoldersOwn, lockVars

\* A lock without stale files has one holder at most: the owner of its file.
LEMMA LockInvExcludes == LockInv => ExclusiveUntilStale
<1> SUFFICES ASSUME LockInv PROVE ExclusiveUntilStale
    OBVIOUS
<1>1. ASSUME NEW l \in Locks \ aged PROVE Cardinality(Holders(l)) <= 1
    <2>1. Holders(l) \subseteq {lockFile[l]}
        BY <1>1 DEF LockInv, HoldersOwn, Holders
    <2>2. IsFiniteSet({lockFile[l]}) /\ Cardinality({lockFile[l]}) = 1
        BY FS_Singleton
    <2>3. Cardinality(Holders(l)) <= Cardinality({lockFile[l]})
        BY <2>1, <2>2, FS_Subset
    <2> QED
        BY <2>2, <2>3
<1> QED
    BY <1>1 DEF LockInv, ExclusiveUntilStale

-----------------------------------------------------------------------------
(* The steps of TeamStore are steps of FileLock.                           *)

JobsTyped == job \in [Callers -> Offered \cup {None}]

LEMMA JobFile ==
    ASSUME NEW j \in Offered
    PROVE  j.file \in Locks
    BY TeamStoreAssumption DEF Files, Board!Jobs, Board!Files

LEMMA InitJobs == Init => JobsTyped
    BY DEF Init, JobsTyped

LEMMA SectionLocks ==
    ASSUME NEW c \in Callers, Section(c)
    PROVE  (Leave(c) \/ UNCHANGED lockVars) /\ UNCHANGED job
<1>1. CASE ReadFile(c)
    BY <1>1 DEF ReadFile, Return, Prepare
<1>2. CASE ChooseId(c)
    BY <1>2 DEF ChooseId, Prepare
<1>3. CASE Remove(c)
    BY <1>3 DEF Remove, Return
<1>4. CASE Truncate(c)
    BY <1>4 DEF Truncate, Becomes
<1>5. CASE Write(c)
    BY <1>5 DEF Write, Becomes, Return
<1>6. CASE HookEnds(c)
    BY <1>6 DEF HookEnds, Return
<1>7. CASE ReadDir(c)
    BY <1>7 DEF ReadDir
<1>8. CASE Scan(c)
    BY <1>8 DEF Scan, Prepare, Return
<1> QED
    BY <1>1, <1>2, <1>3, <1>4, <1>5, <1>6, <1>7, <1>8 DEF Section

LEMMA StepLocks ==
    ASSUME JobsTyped, [Next]_vars
    PROVE  [LockNext]_lockVars /\ JobsTyped'
<1>1. ASSUME NEW c \in Callers, Begin(c) PROVE LockNext /\ UNCHANGED job
    <2>1. job[c] \in Offered
        BY <1>1 DEF Begin, JobsTyped
    <2>2. Decline(c) \/ Ask(c, job[c].file)
        BY <1>1 DEF Begin
    <2> QED
        BY <1>1, <2>1, <2>2, JobFile DEF LockNext, Begin
<1>2. ASSUME NEW c \in Callers, Lock(c) PROVE LockNext /\ UNCHANGED job
    BY <1>2 DEF Lock, LockNext
<1>3. ASSUME NEW c \in Callers, Unlock(c) PROVE LockNext /\ UNCHANGED job
    BY <1>3 DEF Unlock, LockNext, bodyVars
<1>4. ASSUME NEW c \in Callers, Section(c) PROVE [LockNext]_lockVars /\ UNCHANGED job
    BY <1>4, SectionLocks DEF LockNext
<1>5. ASSUME NEW c \in Callers, Killed(c) PROVE LockNext /\ UNCHANGED job
    BY <1>5 DEF Killed, LockNext
<1>6. ASSUME NEW c \in Callers, NEW j \in Offered, Call(c, j)
      PROVE  UNCHANGED lockVars /\ JobsTyped'
    BY <1>6 DEF Call, JobsTyped
<1>7. ASSUME NEW l \in Locks, GetsOld(l) PROVE LockNext /\ UNCHANGED job
    BY <1>7 DEF GetsOld, LockNext, bodyVars
<1>8. CASE UNCHANGED vars
    BY <1>8 DEF vars, bodyVars, JobsTyped
<1>9. CASE Next
    BY <1>9, <1>1, <1>2, <1>3, <1>4, <1>5, <1>6, <1>7 DEF Next, JobsTyped
<1> QED
    BY <1>8, <1>9

LEMMA LocksInvariant == Spec => [](LockInv /\ JobsTyped)
<1>1. Init => LockInv /\ JobsTyped
    BY LockInitInv, InitJobs DEF Init
<1>2. LockInv /\ JobsTyped /\ [Next]_vars => (LockInv /\ JobsTyped)'
    BY StepLocks, LockStepInv, LockInvStutters
<1> QED
    BY <1>1, <1>2, PTL DEF Spec

(* Mutual exclusion, for lock.ts and what tasks.ts and messaging.ts do     *)
(* under its locks: two calls are in a section at once only after the lock *)
(* has had a stale file.                                                   *)
THEOREM LocksExclude == Spec => []ExclusiveUntilStale
    BY LocksInvariant, LockInvExcludes, PTL

(* No lock file is left behind but by a process that was killed: the       *)
(* finally of withLock() is reached on every way out of a section.         *)
THEOREM LockFilesAreOwned == Spec => []LocksHaveOwners
<1>1. LockInv => LocksHaveOwners
    BY DEF LockInv
<1> QED
    BY <1>1, LocksInvariant, PTL

-----------------------------------------------------------------------------
(* Where a call is, and what its section knows there.                      *)

Steps == {"start", "scan", "truncate", "write", "hook"}

\* What a section that rewrites a file has checked.
Ready(c, j, l) ==
    /\ l.target \in Files
    /\ \/ j.op = "create" /\ l.target \in TaskIds /\ l.seen = Absent
       \/ /\ j.op = "reset" /\ l.target \in TaskIds
          /\ l.seen \notin {Absent, Torn} /\ l.seen.owned
       \/ /\ j.op \notin {"create", "reset", "list", "read"} /\ l.target = j.file
          /\ ~Board!Throws(j, l.seen)
          /\ j.op = "receive" => Board!Reply(c, j, l.seen) # <<>>

Placed(c, j, a, p, l, r) ==
    /\ a # "idle" => j # None
    /\ a \notin {"idle", "done"} => p = j.file
    /\ a # "body" => l = Start
    /\ a \notin {"release", "done", "dead"} /\ l.step # "hook" => r = None
    /\ l = [step |-> l.step, target |-> l.target, seen |-> l.seen, todo |-> l.todo]
    /\ l.step \in Steps
    /\ l.step = "scan" => j.op \in {"list", "reset"}
    /\ l.todo \subseteq TaskIds
    /\ l.step \in {"truncate", "write"} => Ready(c, j, l)

AllPlaced ==
    /\ file = [f \in Files |-> file[f]]
    /\ reply = [c \in Callers |-> reply[c]]
    /\ local = [c \in Callers |-> local[c]]
    /\ crossed \in BOOLEAN
    /\ \A c \in Callers : Placed(c, job[c], at[c], path[c], local[c], reply[c])

LEMMA StartPlaced ==
    ASSUME NEW c, NEW j, NEW a, NEW p, NEW r, a # "idle" => j # None,
           a \notin {"idle", "done"} => p = j.file,
           a \notin {"release", "done", "dead"} => r = None
    PROVE  Placed(c, j, a, p, Start, r)
BY DEF Placed, Start, Steps

LEMMA InitPlaced == Init => AllPlaced
<1> SUFFICES ASSUME Init PROVE AllPlaced
    OBVIOUS
<1>1. /\ file = [f \in Files |-> file[f]]
      /\ reply = [c \in Callers |-> reply[c]]
      /\ local = [c \in Callers |-> local[c]]
      /\ crossed = FALSE
    BY DEF Init
<1>2. ASSUME NEW c \in Callers PROVE Placed(c, job[c], at[c], path[c], local[c], reply[c])
    <2>1. at[c] = "idle" /\ local[c] = Start /\ reply[c] = None
        BY DEF Init, LockInit
    <2> QED
        BY <2>1, StartPlaced
<1> QED
    BY <1>1, <1>2 DEF AllPlaced

\* A step of one call that leaves the files, and what the sections know.
LEMMA CallPlaced ==
    ASSUME AllPlaced, LockTypeOK, NEW c \in Callers, NEW a, at' = [at EXCEPT ![c] = a],
           UNCHANGED <<file, job, local>>, crossed' \in BOOLEAN,
           reply' = [r \in Callers |-> reply'[r]],
           \A d \in Callers : d # c => reply'[d] = reply[d] /\ path'[d] = path[d],
           Placed(c, job[c], a, path'[c], local[c], reply'[c])
    PROVE  AllPlaced'
<1>1. \A d \in Callers : at'[d] = IF d = c THEN a ELSE at[d]
    BY DEF LockTypeOK
<1>2. ASSUME NEW d \in Callers PROVE Placed(d, job'[d], at'[d], path'[d], local'[d], reply'[d])
    <2>1. CASE d = c
        BY <1>1, <2>1
    <2>2. CASE d # c
        BY <1>1, <2>2 DEF AllPlaced
    <2> QED
        BY <2>1, <2>2
<1> QED
    BY <1>2 DEF AllPlaced

LEMMA BeginPlaced ==
    ASSUME AllPlaced, LockTypeOK, NEW c \in Callers, Begin(c)
    PROVE  AllPlaced'
<1>1. at[c] = "idle" /\ job[c] # None /\ local[c] = Start /\ reply[c] = None
    BY DEF Begin, Ask, Decline, AllPlaced, Placed, Start
<1>2. UNCHANGED <<file, job, local>> /\ crossed' \in BOOLEAN
    BY DEF Begin, AllPlaced
<1>3. CASE Ask(c, job[c].file) /\ UNCHANGED reply
    <2>1. path'[c] = job[c].file /\ \A d \in Callers : d # c => path'[d] = path[d]
        BY <1>3 DEF Ask, LockTypeOK
    <2>2. Placed(c, job[c], "exists", path'[c], local[c], reply'[c])
        BY <1>1, <1>3, <2>1, StartPlaced
    <2> QED
        BY <1>2, <1>3, <2>1, <2>2, CallPlaced DEF Ask, Goto, AllPlaced
<1>4. CASE Decline(c) /\ \E r : reply' = [reply EXCEPT ![c] = r]
    <2>1. reply' = [d \in Callers |-> reply'[d]] /\ \A d \in Callers : d # c => reply'[d] = reply[d]
        BY <1>4 DEF AllPlaced
    <2>2. Placed(c, job[c], "done", path'[c], local[c], reply'[c])
        BY <1>1, StartPlaced
    <2> QED
        BY <1>2, <1>4, <2>1, <2>2, CallPlaced DEF Decline, Goto
<1> QED
    BY <1>3, <1>4 DEF Begin

LEMMA LockPlaced ==
    ASSUME AllPlaced, LockTypeOK, NEW c \in Callers, Lock(c)
    PROVE  AllPlaced'
<1>1. PICK a \in {"exists", "stat", "remove", "create", "body", "done"} : at' = [at EXCEPT ![c] = a]
    BY DEF Lock, Acquire, Exists, Stat, RemoveStale, CreateLock, Retry, Goto
<1>2. at[c] \in {"exists", "stat", "remove", "create"} /\ path' = path
    BY DEF Lock, Acquire, Exists, Stat, RemoveStale, CreateLock
<1>3. local[c] = Start /\ reply[c] = None /\ job[c] # None /\ path[c] = job[c].file
    BY <1>2 DEF AllPlaced, Placed, Start
<1>4. at'[c] = a
    BY <1>1 DEF LockTypeOK
<1>5. /\ reply' = [d \in Callers |-> reply'[d]]
      /\ \A d \in Callers : d # c => reply'[d] = reply[d]
      /\ a # "done" => reply'[c] = None
    BY <1>3, <1>4 DEF Lock, AllPlaced
<1>6. UNCHANGED <<file, job, local>> /\ crossed' \in BOOLEAN
    BY DEF Lock, AllPlaced
<1>7. Placed(c, job[c], a, path'[c], local[c], reply'[c])
    BY <1>2, <1>3, <1>5, StartPlaced
<1> QED
    BY <1>1, <1>2, <1>5, <1>6, <1>7, CallPlaced

LEMMA UnlockPlaced ==
    ASSUME AllPlaced, LockTypeOK, NEW c \in Callers, Unlock(c)
    PROVE  AllPlaced'
<1>1. at[c] = "release" /\ at' = [at EXCEPT ![c] = "done"] /\ path' = path
      /\ UNCHANGED <<file, job, local, reply, crossed>>
    BY DEF Unlock, Release, Goto, bodyVars
<1>2. local[c] = Start /\ job[c] # None
    BY <1>1 DEF AllPlaced, Placed
<1>3. Placed(c, job[c], "done", path'[c], local[c], reply'[c])
    BY <1>2, StartPlaced
<1> QED
    BY <1>1, <1>3, CallPlaced DEF AllPlaced

LEMMA KilledPlaced ==
    ASSUME AllPlaced, LockTypeOK, NEW c \in Callers, Killed(c)
    PROVE  AllPlaced'
<1>1. /\ at' = [at EXCEPT ![c] = "dead"] /\ local' = [local EXCEPT ![c] = Start]
      /\ at[c] \in {"body", "release"} /\ UNCHANGED <<file, job, path, reply, crossed>>
    BY DEF Killed, Die, Goto
<1>2. \A d \in Callers : /\ at'[d] = IF d = c THEN "dead" ELSE at[d]
                         /\ local'[d] = IF d = c THEN Start ELSE local[d]
    BY <1>1 DEF LockTypeOK, AllPlaced
<1>3. local' = [d \in Callers |-> local'[d]]
    BY <1>1, <1>2 DEF AllPlaced
<1>4. Placed(c, job[c], "dead", path[c], Start, reply[c])
    <2>1. job[c] # None /\ path[c] = job[c].file
        BY <1>1 DEF AllPlaced, Placed
    <2> QED
        BY <2>1, StartPlaced
<1>5. ASSUME NEW d \in Callers PROVE Placed(d, job'[d], at'[d], path'[d], local'[d], reply'[d])
    BY <1>1, <1>2, <1>4 DEF AllPlaced
<1> QED
    BY <1>1, <1>3, <1>5 DEF AllPlaced

LEMMA AskedPlaced ==
    ASSUME AllPlaced, JobsTyped, NEW c \in Callers, NEW j \in Offered, Call(c, j)
    PROVE  AllPlaced'
<1>1. /\ job[c] = None /\ \A d \in Callers : job'[d] = IF d = c THEN j ELSE job[d]
      /\ UNCHANGED <<file, at, path, local, reply, crossed>>
    BY DEF Call, JobsTyped, lockVars
<1>2. at[c] = "idle" /\ local[c] = Start /\ reply[c] = None
    BY <1>1 DEF AllPlaced, Placed, Start
<1>3. Placed(c, j, at[c], path[c], local[c], reply[c])
    BY <1>2, StartPlaced
<1>4. ASSUME NEW d \in Callers PROVE Placed(d, job'[d], at'[d], path'[d], local'[d], reply'[d])
    BY <1>1, <1>3 DEF AllPlaced
<1> QED
    BY <1>1, <1>4 DEF AllPlaced

\* What one section may do to its own knowledge.
Moves(c, a, l, r) ==
    /\ at' = [at EXCEPT ![c] = a] /\ path' = path /\ job' = job
    /\ local' = [local EXCEPT ![c] = l] /\ reply' = [reply EXCEPT ![c] = r]

LEMMA MovesFacts ==
    ASSUME AllPlaced, LockTypeOK, NEW c \in Callers, NEW a, NEW l, NEW r, Moves(c, a, l, r)
    PROVE  /\ at'[c] = a /\ local'[c] = l /\ reply'[c] = r
           /\ \A d \in Callers : d # c => at'[d] = at[d] /\ local'[d] = local[d] /\ reply'[d] = reply[d]
           /\ local' = [d \in Callers |-> local'[d]] /\ reply' = [d \in Callers |-> reply'[d]]
           /\ path' = path /\ job' = job
BY DEF AllPlaced, LockTypeOK, Moves

LEMMA MovesPlaced ==
    ASSUME AllPlaced, LockTypeOK, NEW c \in Callers, NEW a, NEW l, NEW r, Moves(c, a, l, r),
           Placed(c, job[c], a, path[c], l, r),
           file' = [f \in Files |-> file'[f]], crossed' \in BOOLEAN
    PROVE  AllPlaced'
<1>1. /\ at'[c] = a /\ local'[c] = l /\ reply'[c] = r
      /\ \A d \in Callers : d # c => at'[d] = at[d] /\ local'[d] = local[d] /\ reply'[d] = reply[d]
      /\ local' = [d \in Callers |-> local'[d]] /\ reply' = [d \in Callers |-> reply'[d]]
      /\ path' = path /\ job' = job
    BY MovesFacts
<1>2. ASSUME NEW d \in Callers PROVE Placed(d, job'[d], at'[d], path'[d], local'[d], reply'[d])
    <2>1. CASE d = c
        BY <1>1, <2>1
    <2>2. CASE d # c
        BY <1>1, <2>2 DEF AllPlaced
    <2> QED
        BY <2>1, <2>2
<1> QED
    BY <1>1, <1>2 DEF AllPlaced

\* The steps of a section, as moves.
LEMMA ReturnMoves ==
    ASSUME AllPlaced, LockTypeOK, NEW c \in Callers, NEW r, Return(c, r), UNCHANGED job
    PROVE  at[c] = "body" /\ Moves(c, "release", Start, r)
BY DEF Return, Leave, Goto, Moves

LEMMA StayMoves ==
    ASSUME AllPlaced, LockTypeOK, NEW c \in Callers, at[c] = "body", NEW l,
           local' = [local EXCEPT ![c] = l], UNCHANGED <<lockVars, job, reply>>
    PROVE  Moves(c, "body", l, reply[c])
BY DEF AllPlaced, LockTypeOK, Moves, lockVars

PrepareLocal(f, doc, rest) == [step |-> "truncate", target |-> f, seen |-> doc, todo |-> rest]
WithStep(l, where) == [step |-> where, target |-> l.target, seen |-> l.seen, todo |-> l.todo]
WithTodo(l, where, todo) == [step |-> where, target |-> l.target, seen |-> l.seen, todo |-> todo]

LEMMA PrepareMoves ==
    ASSUME AllPlaced, LockTypeOK, NEW c \in Callers, at[c] = "body", NEW f, NEW doc, NEW rest,
           Prepare(c, f, doc, rest), UNCHANGED job
    PROVE  Moves(c, "body", PrepareLocal(f, doc, rest), reply[c])
BY StayMoves DEF Prepare, PrepareLocal

LEMMA StepIs ==
    ASSUME AllPlaced, NEW c \in Callers, NEW where
    PROVE  [local EXCEPT ![c].step = where] = [local EXCEPT ![c] = WithStep(local[c], where)]
<1>1. local[c] = [step |-> local[c].step, target |-> local[c].target,
                  seen |-> local[c].seen, todo |-> local[c].todo]
    BY DEF AllPlaced, Placed
<1>2. [local[c] EXCEPT !.step = where] = WithStep(local[c], where)
    BY <1>1 DEF WithStep
<1> QED
    BY <1>2

LEMMA TodoIs ==
    ASSUME AllPlaced, NEW c \in Callers, NEW todo
    PROVE  [local EXCEPT ![c].todo = todo] = [local EXCEPT ![c] = WithTodo(local[c], local[c].step, todo)]
<1>1. local[c] = [step |-> local[c].step, target |-> local[c].target,
                  seen |-> local[c].seen, todo |-> local[c].todo]
    BY DEF AllPlaced, Placed
<1>2. [local[c] EXCEPT !.todo = todo] = WithTodo(local[c], local[c].step, todo)
    BY <1>1 DEF WithTodo
<1> QED
    BY <1>2

LEMMA TodoAndStepIs ==
    ASSUME AllPlaced, NEW c \in Callers, NEW todo, NEW where
    PROVE  [local EXCEPT ![c].todo = todo, ![c].step = where]
              = [local EXCEPT ![c] = WithTodo(local[c], where, todo)]
<1>1. local[c] = [step |-> local[c].step, target |-> local[c].target,
                  seen |-> local[c].seen, todo |-> local[c].todo]
    BY DEF AllPlaced, Placed
<1> DEFINE m == [local[c] EXCEPT !.todo = todo]
<1>2. m = WithTodo(local[c], local[c].step, todo)
    BY <1>1 DEF WithTodo
<1>3. m = [step |-> local[c].step, target |-> local[c].target,
           seen |-> local[c].seen, todo |-> todo]
    BY <1>2 DEF WithTodo
<1> HIDE DEF m
<1>4. [m EXCEPT !.step = where] = WithTodo(local[c], where, todo)
    BY <1>3 DEF WithTodo
<1> QED
    BY <1>4 DEF AllPlaced, m

LEMMA NextIdIsFree == NextId \in TaskIds => file[NextId] = Absent
<1> SUFFICES ASSUME NextId \in TaskIds, file[NextId] # Absent PROVE FALSE
    OBVIOUS
<1>1. Cardinality(TaskIds) \in Nat /\ Existing \subseteq 1..Cardinality(TaskIds)
    BY TeamStoreAssumption, FS_CardinalityType DEF Existing
<1>2. NextId \in Existing
    BY DEF Existing
<1>3. NextId = Max(Existing) + 1
    BY <1>2 DEF NextId
<1>4. Max(Existing) \in Existing /\ \A y \in Existing : y <= Max(Existing)
    BY <1>1, <1>2, MaxFacts
<1>5. Max(Existing) \in 1..Cardinality(TaskIds)
    BY <1>1, <1>4
<1>6. Max(Existing) \in Nat
    BY <1>1, <1>5
<1> QED
    BY <1>2, <1>3, <1>4, <1>6

\* The job of a section, and where it stands.
LEMMA InSection ==
    ASSUME AllPlaced, JobsTyped, NEW c \in Callers, at[c] = "body"
    PROVE  /\ job[c] \in Offered /\ job[c].file \in Locks /\ path[c] = job[c].file
           /\ local[c].step # "hook" => reply[c] = None
<1>1. job[c] # None /\ path[c] = job[c].file /\ (local[c].step # "hook" => reply[c] = None)
    BY DEF AllPlaced, Placed
<1> QED
    BY <1>1, JobFile DEF JobsTyped

LEMMA SectionPlaced ==
    ASSUME AllPlaced, LockTypeOK, JobsTyped, NEW c \in Callers, Section(c)
    PROVE  AllPlaced'
<1> DEFINE j == job[c]
           l == local[c]
<1>0. at[c] = "body"
    BY DEF Section, ReadFile, ChooseId, Remove, Truncate, Write, HookEnds, ReadDir, Scan, In
<1>1. /\ j \in Offered /\ j.file \in Locks /\ path[c] = j.file
      /\ l.step # "hook" => reply[c] = None
    BY <1>0, InSection
<1>2. Placed(c, j, "body", path[c], l, reply[c]) /\ j # None
    BY <1>0, <1>1, TeamStoreAssumption DEF AllPlaced
<1>3. ASSUME NEW r PROVE Placed(c, j, "release", path[c], Start, r)
    BY <1>1, <1>2, StartPlaced
<1>4. file' = [f \in Files |-> file'[f]] /\ crossed' \in BOOLEAN
    BY DEF Section, ReadFile, ChooseId, Remove, Truncate, Write, HookEnds, ReadDir, Scan, AllPlaced
<1>5. ASSUME NEW r, Return(c, r), UNCHANGED job PROVE AllPlaced'
    BY <1>3, <1>4, <1>5, ReturnMoves, MovesPlaced
<1>6. ASSUME NEW m, Moves(c, "body", m, reply[c]), Placed(c, j, "body", path[c], m, reply[c])
      PROVE  AllPlaced'
    BY <1>4, <1>6, MovesPlaced
<1>7. CASE ReadFile(c)
    <2>1. CASE \E r : Return(c, r)
        BY <1>5, <1>7, <2>1 DEF ReadFile
    <2>2. CASE ~\E r : Return(c, r)
        <3> DEFINE m == PrepareLocal(j.file, file[j.file], {})
        <3>1. /\ j.file \in Files /\ l.step = "start"
              /\ ~Board!Throws(j, file[j.file]) /\ j.op # "read"
              /\ j.op = "receive" => Board!Reply(c, j, file[j.file]) # <<>>
              /\ Prepare(c, j.file, file[j.file], {}) /\ UNCHANGED job
            BY <1>7, <2>2 DEF ReadFile, In
        <3>2. Moves(c, "body", m, reply[c])
            BY <1>0, <3>1, PrepareMoves
        <3>3. j.op \notin {"create", "reset", "list"}
            BY <1>1, <3>1, TeamStoreAssumption DEF Files, Board!Jobs, Board!Files
        <3>4. Placed(c, j, "body", path[c], m, reply[c])
            BY <1>1, <1>2, <3>1, <3>3 DEF Placed, PrepareLocal, Ready, Steps
        <3> QED
            BY <1>6, <3>2, <3>4
    <2> QED
        BY <2>1, <2>2
<1>8. CASE ChooseId(c)
    <2> DEFINE m == PrepareLocal(NextId, Absent, {})
    <2>1. /\ j.op = "create" /\ l.step = "start" /\ NextId \in TaskIds /\ NextId \in Files
          /\ Prepare(c, NextId, Absent, {}) /\ UNCHANGED job
        BY <1>8 DEF ChooseId, In, Files, Board!Files
    <2>2. Moves(c, "body", m, reply[c])
        BY <1>0, <2>1, PrepareMoves
    <2>3. Placed(c, j, "body", path[c], m, reply[c])
        BY <1>1, <1>2, <2>1 DEF Placed, PrepareLocal, Ready, Steps
    <2> QED
        BY <1>6, <2>2, <2>3
<1>9. CASE Remove(c)
    BY <1>5, <1>9 DEF Remove
<1>10. CASE Truncate(c)
    <2> DEFINE m == WithStep(l, "write")
    <2>1. l.step = "truncate" /\ UNCHANGED <<lockVars, job, reply>>
          /\ local' = [local EXCEPT ![c] = m]
        BY <1>10, StepIs DEF Truncate, In, Becomes
    <2>2. Moves(c, "body", m, reply[c])
        BY <1>0, <2>1, StayMoves
    <2>3. Placed(c, j, "body", path[c], m, reply[c])
        BY <1>2, <2>1 DEF Placed, WithStep, Ready, Steps
    <2> QED
        BY <1>6, <2>2, <2>3
<1>11. CASE Write(c)
    <2>1. CASE \E r : Return(c, r)
        BY <1>5, <1>11, <2>1 DEF Write
    <2>2. CASE j.op = "reset" /\ Becomes(c, "scan") /\ UNCHANGED reply
        <3> DEFINE m == WithStep(l, "scan")
        <3>1. l.step = "write" /\ UNCHANGED <<lockVars, job, reply>>
              /\ local' = [local EXCEPT ![c] = m]
            BY <1>11, <2>2, StepIs DEF Write, In, Becomes
        <3>2. Moves(c, "body", m, reply[c])
            BY <1>0, <3>1, StayMoves
        <3>3. Placed(c, j, "body", path[c], m, reply[c])
            BY <1>2, <2>2, <3>1 DEF Placed, WithStep, Steps
        <3> QED
            BY <1>6, <3>2, <3>3
    <2>3. CASE Becomes(c, "hook") /\ \E r : reply' = [reply EXCEPT ![c] = r]
        <3> DEFINE m == WithStep(l, "hook")
        <3>1. PICK r : reply' = [reply EXCEPT ![c] = r]
            BY <2>3
        <3>2. l.step = "write" /\ UNCHANGED <<lockVars, job>>
              /\ local' = [local EXCEPT ![c] = m]
            BY <1>11, <2>3, StepIs DEF Write, In, Becomes
        <3>3. Moves(c, "body", m, r)
            BY <1>0, <3>1, <3>2 DEF Moves, lockVars, LockTypeOK
        <3>4. Placed(c, j, "body", path[c], m, r)
            BY <1>2, <3>2 DEF Placed, WithStep, Steps
        <3> QED
            BY <1>4, <3>3, <3>4, MovesPlaced
    <2> QED
        BY <1>11, <2>1, <2>2, <2>3 DEF Write
<1>12. CASE HookEnds(c)
    BY <1>5, <1>12 DEF HookEnds
<1>13. CASE ReadDir(c)
    <2> DEFINE m == WithTodo(l, "scan", Existing)
    <2>1. /\ l.step = "start" /\ UNCHANGED <<lockVars, job, reply>> /\ j.op \in {"list", "reset"}
          /\ local' = [local EXCEPT ![c] = m]
        BY <1>13, TodoAndStepIs DEF ReadDir, In
    <2>2. Moves(c, "body", m, reply[c])
        BY <1>0, <2>1, StayMoves
    <2>3. Existing \subseteq TaskIds
        BY DEF Existing
    <2>4. Placed(c, j, "body", path[c], m, reply[c])
        BY <1>2, <2>1, <2>3 DEF Placed, WithTodo, Steps
    <2> QED
        BY <1>6, <2>2, <2>4
<1>14. CASE Scan(c)
    <2>0. l.step = "scan" /\ l.todo \subseteq TaskIds /\ UNCHANGED job /\ j.op \in {"list", "reset"}
        BY <1>2, <1>14 DEF Scan, In, Placed
    <2>1. CASE \E r : Return(c, r)
        BY <1>5, <2>0, <2>1
    <2>2. CASE \E id \in l.todo : /\ file[id] \notin {Absent, Torn} /\ j.op = "reset" /\ file[id].owned
                                  /\ Prepare(c, id, file[id], l.todo \ {id})
        <3>1. PICK id \in l.todo : /\ file[id] \notin {Absent, Torn} /\ j.op = "reset" /\ file[id].owned
                                   /\ Prepare(c, id, file[id], l.todo \ {id})
            BY <2>2
        <3> DEFINE m == PrepareLocal(id, file[id], l.todo \ {id})
        <3>2. Moves(c, "body", m, reply[c])
            BY <1>0, <2>0, <3>1, PrepareMoves
        <3>3. id \in TaskIds /\ id \in Files /\ l.todo \ {id} \subseteq TaskIds
            BY <2>0 DEF Files, Board!Files
        <3>4. Placed(c, j, "body", path[c], m, reply[c])
            BY <1>1, <1>2, <2>0, <3>1, <3>3 DEF Placed, PrepareLocal, Ready, Steps
        <3> QED
            BY <1>6, <3>2, <3>4
    <2>3. CASE \E id \in l.todo : /\ local' = [local EXCEPT ![c].todo = l.todo \ {id}]
                                  /\ UNCHANGED <<lockVars, reply>>
        <3>1. PICK id \in l.todo : /\ local' = [local EXCEPT ![c].todo = l.todo \ {id}]
                                   /\ UNCHANGED <<lockVars, reply>>
            BY <2>3
        <3> DEFINE m == WithTodo(l, l.step, l.todo \ {id})
        <3>2. local' = [local EXCEPT ![c] = m]
            BY <3>1, TodoIs
        <3>3. Moves(c, "body", m, reply[c])
            BY <1>0, <2>0, <3>1, <3>2, StayMoves
        <3>4. Placed(c, j, "body", path[c], m, reply[c])
            BY <1>2, <2>0 DEF Placed, WithTodo, Steps
        <3> QED
            BY <1>6, <3>3, <3>4
    <2> QED
        BY <1>14, <2>1, <2>2, <2>3 DEF Scan
<1> QED
    BY <1>7, <1>8, <1>9, <1>10, <1>11, <1>12, <1>13, <1>14 DEF Section

-----------------------------------------------------------------------------
(* As long as no lock has two holders and no reset crosses another call,   *)
(* a file that is being rewritten is what its one writer knows.            *)

Holding(a) == a \in {"body", "release"}
Writing(l) == l.step \in {"truncate", "write"}

Alone ==
    \A c, d \in Callers : Holding(at[c]) /\ Holding(at[d]) /\ path[c] = path[d] => c = d

Uncrossed ==
    \A c, d \in Callers :
        Writing(local[c]) /\ job[c].op = "reset" /\ Holding(at[d]) => path[d] # local[c].target

Fresh ==
    /\ \A c \in Callers : local[c].step = "truncate" => file[local[c].target] = local[c].seen
    /\ \A c \in Callers : local[c].step = "write" => file[local[c].target] = Torn
    /\ \A c, d \in Callers :
          Writing(local[c]) /\ Writing(local[d]) /\ local[c].target = local[d].target => c = d

Apart ==
    /\ overlapped = {} => Alone
    /\ ~crossed => Uncrossed
    /\ overlapped = {} /\ ~crossed => Fresh

StoreInv == LockInv /\ JobsTyped /\ AllPlaced /\ Apart

LEMMA InitApart == Init => Apart
<1> SUFFICES ASSUME Init PROVE Apart
    OBVIOUS
<1>1. \A c \in Callers : at[c] = "idle" /\ local[c].step = "start"
    BY DEF Init, LockInit, Start
<1> QED
    BY <1>1 DEF Apart, Alone, Uncrossed, Fresh, Holding, Writing

\* Who writes holds the lock of the job's file, and knows what it writes over.
LEMMA WriterFacts ==
    ASSUME AllPlaced, JobsTyped, NEW c \in Callers, Writing(local[c])
    PROVE  /\ at[c] = "body" /\ path[c] = job[c].file /\ Ready(c, job[c], local[c])
           /\ job[c] \in Offered /\ local[c].target \in Files
<1>1. Placed(c, job[c], at[c], path[c], local[c], reply[c])
    BY DEF AllPlaced
<1>2. at[c] = "body"
    BY <1>1 DEF Placed, Writing, Start
<1>3. path[c] = job[c].file /\ Ready(c, job[c], local[c]) /\ job[c] # None
    BY <1>1, <1>2 DEF Placed, Writing
<1>4. job[c] \in Offered
    BY <1>3 DEF JobsTyped
<1> QED
    BY <1>2, <1>3, <1>4 DEF Ready

\* A writer that does not work under the directory's lock has found its file.
LEMMA FileWriterFound ==
    ASSUME AllPlaced, JobsTyped, NEW c \in Callers, Writing(local[c]), job[c].file # Dir
    PROVE  /\ local[c].target = job[c].file /\ local[c].seen # Torn
           /\ local[c].target \in TaskIds => local[c].seen # Absent
<1>1. Ready(c, job[c], local[c]) /\ job[c] \in Board!Jobs
    BY WriterFacts, TeamStoreAssumption
<1>2. /\ job[c].op \notin {"create", "reset", "list", "read"}
      /\ local[c].target = job[c].file /\ ~Board!Throws(job[c], local[c].seen)
    BY <1>1 DEF Ready, Board!Jobs
<1>3. job[c].file \in TaskIds => job[c].op \notin {"append", "receive", "create"}
    BY <1>1, <1>2, TeamStoreAssumption DEF Board!Jobs
<1> QED
    BY <1>2, <1>3 DEF Board!Throws

LEMMA DirJobs ==
    ASSUME NEW j \in Offered
    PROVE  /\ j.op \in {"create", "list", "reset"} <=> j.file = Dir
           /\ j.file \in Files => j.file # Dir
           /\ j.op \notin {"append", "receive", "create", "list", "reset"} => j.file \in TaskIds
           /\ j.op \in {"append", "receive"} => j.file = Inbox
    BY TeamStoreAssumption DEF Board!Jobs, Files, Board!Files

\* A section begins to write where nobody writes.
LEMMA NobodyWrites ==
    ASSUME AllPlaced, JobsTyped, Alone, Fresh, NEW c \in Callers, at[c] = "body", ~Writing(local[c]),
           NEW f \in Files, NEW d \in Callers, Writing(local[d]), local[d].target = f,
           \/ job[c].file = f /\ ~Board!Throws(job[c], file[f]) /\ Uncrossed
           \/ job[c].file = Dir /\ file[f] = Absent /\ f \in TaskIds
           \/ job[c].file = Dir /\ file[f] \notin {Absent, Torn} /\ path[d] # f
    PROVE  FALSE
<1>1. /\ at[d] = "body" /\ path[d] = job[d].file /\ Ready(d, job[d], local[d])
      /\ job[d] \in Offered
    BY WriterFacts
<1>2. c # d /\ path[c] = job[c].file /\ job[c] \in Offered
    BY InSection
<1>3. path[c] # path[d]
    BY <1>1, <1>2 DEF Alone, Holding
<1>4. file[f] \in {local[d].seen, Torn}
    BY DEF Fresh, Writing
<1>5. CASE job[d].file # Dir
    <2>1. local[d].target = job[d].file /\ local[d].seen # Torn /\ (f \in TaskIds => local[d].seen # Absent)
        BY <1>5, FileWriterFound
    <2> QED
        BY <1>1, <1>2, <1>3, <1>4, <2>1, TeamStoreAssumption
<1>6. CASE job[d].file = Dir
    <2>1. job[c].file = f /\ ~Board!Throws(job[c], file[f]) /\ Uncrossed
        BY <1>1, <1>2, <1>3, <1>6
    <2>2. job[d].op \in {"create", "reset", "list"}
        BY <1>1, <1>6, DirJobs
    <2>3. CASE job[d].op = "reset"
        BY <1>2, <2>1, <2>3 DEF Uncrossed, Holding
    <2>4. CASE job[d].op # "reset"
        <3>1. local[d].seen = Absent /\ f \in TaskIds
            BY <1>1, <2>2, <2>4 DEF Ready
        <3>2. file[f] \in {Absent, Torn}
            BY <1>4, <3>1
        <3>3. job[c].op \notin {"append", "receive", "create"}
            BY <1>2, <2>1, <3>1, DirJobs, TeamStoreAssumption
        <3> QED
            BY <2>1, <3>2, <3>3 DEF Board!Throws
    <2> QED
        BY <2>3, <2>4
<1> QED
    BY <1>5, <1>6

\* What a step keeps: who holds held before, who writes wrote the same before.
LEMMA AloneKept ==
    ASSUME Alone, \A d \in Callers : Holding(at'[d]) => Holding(at[d]) /\ path'[d] = path[d]
    PROVE  Alone'
BY DEF Alone

LEMMA UncrossedKept ==
    ASSUME Uncrossed, \A d \in Callers : Holding(at'[d]) => Holding(at[d]) /\ path'[d] = path[d],
           \A d \in Callers : Writing(local'[d]) /\ job'[d].op = "reset" =>
               Writing(local[d]) /\ job[d].op = "reset" /\ local'[d].target = local[d].target
    PROVE  Uncrossed'
BY DEF Uncrossed

LEMMA UncrossedNow ==
    ASSUME AllPlaced', ~Crossing'
    PROVE  Uncrossed'
<1>1. ASSUME NEW c \in Callers, NEW d \in Callers, Writing(local'[c]), job'[c].op = "reset",
             Holding(at'[d]), path'[d] = local'[c].target
      PROVE  FALSE
    <2>1. at'[c] = "body" /\ local'[c].step \in {"truncate", "write"}
        BY <1>1 DEF AllPlaced, Placed, Writing, Start
    <2>2. d \in Holders(local[c].target)'
        BY <1>1 DEF Holders, Holding
    <2> QED
        BY <1>1, <2>1, <2>2 DEF Crossing, In
<1> QED
    BY <1>1 DEF Uncrossed

LEMMA FreshKept ==
    ASSUME Fresh, file' = file, \A d \in Callers : Writing(local'[d]) => local'[d] = local[d]
    PROVE  Fresh'
<1>1. \A d \in Callers : local'[d].step \in {"truncate", "write"} => local'[d] = local[d]
    BY DEF Writing
<1> QED
    BY <1>1 DEF Fresh, Writing

LEMMA QuietApart ==
    ASSUME Apart, overlapped \subseteq overlapped', crossed => crossed', file' = file,
           \A d \in Callers : Holding(at'[d]) => Holding(at[d]) /\ path'[d] = path[d],
           \A d \in Callers : Writing(local'[d]) => local'[d] = local[d] /\ job'[d] = job[d]
    PROVE  Apart'
<1>1. overlapped' = {} => Alone'
    BY AloneKept DEF Apart
<1>2. ~crossed' => Uncrossed'
    BY UncrossedKept DEF Apart
<1>3. overlapped' = {} /\ ~crossed' => Fresh'
    BY FreshKept DEF Apart
<1> QED
    BY <1>1, <1>2, <1>3 DEF Apart

LEMMA LockApart ==
    ASSUME LockTypeOK, AllPlaced, AllPlaced', Apart, NEW c \in Callers, Lock(c)
    PROVE  Apart'
<1>1. /\ UNCHANGED <<file, job, local, path>> /\ crossed' = (crossed \/ Crossing')
      /\ overlapped \subseteq overlapped'
    BY DEF Lock, Acquire, Exists, Stat, RemoveStale, CreateLock
<1>2. CASE ~Holding(at'[c])
    <2>1. \A d \in Callers : d # c => at'[d] = at[d]
        BY DEF Lock, Acquire, Exists, Stat, RemoveStale, CreateLock, Retry, Goto, LockTypeOK
    <2> QED
        BY <1>1, <1>2, <2>1, QuietApart
<1>3. CASE Holding(at'[c])
    <2>1. /\ at' = [at EXCEPT ![c] = "body"] /\ path[c] \in Locks
          /\ overlapped' = IF Holders(path[c]) = {} THEN overlapped
                           ELSE overlapped \cup {path[c]}
        BY <1>3 DEF Lock, Acquire, Exists, Stat, RemoveStale, CreateLock, Retry, Goto, LockTypeOK, Holding
    <2>2. overlapped' = {} => Alone'
        <3> SUFFICES ASSUME overlapped' = {} PROVE Alone'
            OBVIOUS
        <3>1. Holders(path[c]) = {} /\ Alone
            BY <2>1 DEF Apart
        <3>2. \A d \in Callers : path[d] = path[c] => ~Holding(at[d])
            BY <3>1 DEF Holders, Holding
        <3>3. \A d \in Callers : at'[d] = IF d = c THEN "body" ELSE at[d]
            BY <2>1 DEF LockTypeOK
        <3> QED
            BY <1>1, <3>1, <3>2, <3>3 DEF Alone
    <2>3. ~crossed' => Uncrossed'
        BY <1>1, UncrossedNow
    <2>4. overlapped' = {} /\ ~crossed' => Fresh'
        BY <1>1, FreshKept DEF Apart
    <2> QED
        BY <2>2, <2>3, <2>4 DEF Apart
<1> QED
    BY <1>2, <1>3

LEMMA FreshMoved ==
    ASSUME AllPlaced, LockTypeOK, Fresh, NEW c \in Callers, NEW a, NEW l, NEW r, Moves(c, a, l, r),
           \/ file' = file /\ ~Writing(l)
           \/ /\ file' = file /\ l.step = "truncate" /\ l.seen = file[l.target]
              /\ \A d \in Callers : Writing(local[d]) => local[d].target # l.target
           \/ /\ Writing(local[c]) /\ l.step = "write" /\ l.target = local[c].target
              /\ l.target \in Files /\ file' = [file EXCEPT ![l.target] = Torn]
           \/ /\ Writing(local[c]) /\ ~Writing(l)
              /\ \E doc : file' = [file EXCEPT ![local[c].target] = doc]
    PROVE  Fresh'
<1>1. /\ local'[c] = l
      /\ \A d \in Callers : d # c => local'[d] = local[d]
    BY MovesFacts
<1>2. CASE file' = file /\ ~Writing(l)
    BY <1>1, <1>2 DEF Fresh, Writing
<1>3. CASE /\ file' = file /\ l.step = "truncate" /\ l.seen = file[l.target]
           /\ \A d \in Callers : Writing(local[d]) => local[d].target # l.target
    BY <1>1, <1>3 DEF Fresh, Writing
<1>4. CASE /\ Writing(local[c]) /\ l.step = "write" /\ l.target = local[c].target
           /\ l.target \in Files /\ file' = [file EXCEPT ![l.target] = Torn]
    <2>1. file'[l.target] = Torn /\ \A f : f # l.target => file'[f] = file[f]
        BY <1>4 DEF AllPlaced
    <2>2. \A d \in Callers : d # c /\ Writing(local[d]) => local[d].target # l.target
        BY <1>4 DEF Fresh
    <2> QED
        BY <1>1, <1>4, <2>1, <2>2 DEF Fresh, Writing
<1>5. CASE /\ Writing(local[c]) /\ ~Writing(l)
           /\ \E doc : file' = [file EXCEPT ![local[c].target] = doc]
    <2>1. \A f : f # local[c].target => file'[f] = file[f]
        BY <1>5 DEF AllPlaced
    <2>2. \A d \in Callers : d # c /\ Writing(local[d]) => local[d].target # local[c].target
        BY <1>5 DEF Fresh
    <2> QED
        BY <1>1, <1>5, <2>1, <2>2 DEF Fresh, Writing
<1> QED
    BY <1>2, <1>3, <1>4, <1>5

LEMMA ApartMoved ==
    ASSUME AllPlaced, LockTypeOK, Apart, NEW c \in Callers, NEW a, NEW l, NEW r, Moves(c, a, l, r),
           at[c] = "body", UNCHANGED overlapped, crossed => crossed',
           \/ AllPlaced' /\ (~crossed' => ~Crossing')
           \/ Writing(l) /\ job[c].op = "reset" => Writing(local[c]) /\ l.target = local[c].target,
           overlapped = {} /\ Alone /\ ~crossed' /\ Uncrossed /\ Fresh => Fresh'
    PROVE  Apart'
<1>1. /\ at'[c] = a /\ local'[c] = l /\ path' = path /\ job' = job
      /\ \A d \in Callers : d # c => at'[d] = at[d] /\ local'[d] = local[d]
    BY MovesFacts
<1>2. \A d \in Callers : Holding(at'[d]) => Holding(at[d]) /\ path'[d] = path[d]
    BY <1>1 DEF Holding
<1>3. overlapped' = {} => Alone'
    BY <1>2, AloneKept DEF Apart
<1>4. ~crossed' => Uncrossed'
    <2> SUFFICES ASSUME ~crossed' PROVE Uncrossed'
        OBVIOUS
    <2>1. CASE AllPlaced' /\ ~Crossing'
        BY <2>1, UncrossedNow
    <2>2. CASE Writing(l) /\ job[c].op = "reset" => Writing(local[c]) /\ l.target = local[c].target
        BY <1>1, <1>2, <2>2, UncrossedKept DEF Apart
    <2> QED
        BY <2>1, <2>2
<1>5. overlapped' = {} /\ ~crossed' => Fresh'
    BY DEF Apart
<1> QED
    BY <1>3, <1>4, <1>5 DEF Apart

LEMMA SectionApart ==
    ASSUME LockTypeOK, JobsTyped, AllPlaced, AllPlaced', Apart, NEW c \in Callers, Section(c)
    PROVE  Apart'
<1> DEFINE j == job[c]
           l == local[c]
           calm == overlapped = {} /\ Alone /\ ~crossed' /\ Uncrossed /\ Fresh
<1>0. at[c] = "body"
    BY DEF Section, ReadFile, ChooseId, Remove, Truncate, Write, HookEnds, ReadDir, Scan, In
<1>1. j \in Offered /\ j.file \in Locks /\ path[c] = j.file
    BY <1>0, InSection
<1>2. UNCHANGED <<job, overlapped>>
    BY SectionLocks DEF lockVars, Leave
<1>3. crossed => crossed'
    BY DEF Section, ReadFile, ChooseId, Remove, Truncate, Write, HookEnds, ReadDir, Scan
<1>4. ASSUME NEW a, NEW m, NEW r, Moves(c, a, m, r), ~Writing(m),
             file' = file \/ (Writing(l) /\ \E doc : file' = [file EXCEPT ![l.target] = doc])
      PROVE  Apart'
    <2>1. calm => Fresh'
        BY <1>4, FreshMoved
    <2> QED
        BY <1>0, <1>2, <1>3, <1>4, <2>1, ApartMoved
<1>5. ASSUME NEW f \in Files, NEW rest, Prepare(c, f, file[f], rest), file' = file,
             j.op # "reset" \/ (~crossed' => ~Crossing'),
             calm => \A d \in Callers : Writing(local[d]) => local[d].target # f
      PROVE  Apart'
    <2>1. PICK m : m = PrepareLocal(f, file[f], rest)
        OBVIOUS
    <2>2. Moves(c, "body", m, reply[c])
        BY <1>0, <1>2, <1>5, <2>1, PrepareMoves
    <2>3. m.step = "truncate" /\ m.target = f /\ m.seen = file[f]
        BY <2>1 DEF PrepareLocal
    <2>4. calm => Fresh'
        BY <1>5, <2>2, <2>3, FreshMoved
    <2> QED
        BY <1>0, <1>2, <1>3, <1>5, <2>2, <2>4, ApartMoved
<1>6. ASSUME NEW r, Return(c, r), file' = file \/ (Writing(l) /\ \E doc : file' = [file EXCEPT ![l.target] = doc])
      PROVE  Apart'
    <2>1. ~Writing(Start)
        BY DEF Start, Writing
    <2> QED
        BY <1>2, <1>4, <1>6, <2>1, ReturnMoves
<1>7. ASSUME NEW where \in Steps, Becomes(c, where), UNCHANGED reply
      PROVE  Moves(c, "body", WithStep(l, where), reply[c])
    BY <1>0, <1>2, <1>7, StepIs, StayMoves DEF Becomes
<1>8. CASE ReadFile(c)
    <2>1. CASE \E r : Return(c, r)
        BY <1>6, <1>8, <2>1 DEF ReadFile
    <2>2. CASE ~\E r : Return(c, r)
        <3>1. /\ j.file \in Files /\ l.step = "start"
              /\ ~Board!Throws(j, file[j.file])
              /\ Prepare(c, j.file, file[j.file], {}) /\ file' = file
            BY <1>8, <2>2 DEF ReadFile, In
        <3>2. j.op # "reset"
            BY <1>1, <3>1, DirJobs
        <3>3. calm => \A d \in Callers : Writing(local[d]) => local[d].target # j.file
            BY <1>0, <3>1, NobodyWrites DEF Writing
        <3> QED
            BY <1>5, <3>1, <3>2, <3>3
    <2> QED
        BY <2>1, <2>2
<1>9. CASE ChooseId(c)
    <2>1. /\ j.op = "create" /\ l.step = "start" /\ NextId \in TaskIds /\ NextId \in Files
          /\ Prepare(c, NextId, Absent, {}) /\ file' = file
        BY <1>9 DEF ChooseId, In, Files, Board!Files
    <2>2. file[NextId] = Absent /\ j.file = Dir
        BY <1>1, <2>1, NextIdIsFree, DirJobs
    <2>3. calm => \A d \in Callers : Writing(local[d]) => local[d].target # NextId
        BY <1>0, <2>1, <2>2, NobodyWrites DEF Writing
    <2> QED
        BY <1>5, <2>1, <2>2, <2>3
<1>10. CASE Remove(c)
    BY <1>6, <1>10 DEF Remove, In, Writing
<1>11. CASE Truncate(c)
    <2>1. PICK m : m = WithStep(l, "write")
        OBVIOUS
    <2>2. l.step = "truncate" /\ Writing(l) /\ file' = [file EXCEPT ![l.target] = Torn]
        BY <1>11 DEF Truncate, In, Writing
    <2>3. m.step = "write" /\ m.target = l.target
        BY <2>1 DEF WithStep
    <2>4. Moves(c, "body", m, reply[c])
        BY <1>7, <1>11, <2>1 DEF Truncate, Steps
    <2>5. l.target \in Files
        BY <2>2, WriterFacts
    <2>6. calm => Fresh'
        BY <2>2, <2>3, <2>4, <2>5, FreshMoved
    <2> QED
        BY <1>0, <1>2, <1>3, <2>2, <2>3, <2>4, <2>6, ApartMoved
<1>12. CASE Write(c)
    <2>1. Writing(l) /\ \E doc : file' = [file EXCEPT ![l.target] = doc]
        BY <1>12 DEF Write, In, Writing
    <2>2. CASE \E r : Return(c, r)
        BY <1>6, <2>1, <2>2
    <2>3. CASE Becomes(c, "scan") /\ UNCHANGED reply
        <3>1. ~Writing(WithStep(l, "scan"))
            BY DEF WithStep, Writing
        <3> QED
            BY <1>4, <1>7, <2>1, <2>3, <3>1 DEF Steps
    <2>4. CASE Becomes(c, "hook") /\ \E r : reply' = [reply EXCEPT ![c] = r]
        <3>1. PICK r : reply' = [reply EXCEPT ![c] = r]
            BY <2>4
        <3>2. local' = [local EXCEPT ![c] = WithStep(l, "hook")] /\ UNCHANGED <<lockVars, job>>
            BY <1>2, <2>4, StepIs DEF Becomes
        <3>3. Moves(c, "body", WithStep(l, "hook"), r)
            BY <1>0, <3>1, <3>2 DEF Moves, lockVars, LockTypeOK
        <3>4. ~Writing(WithStep(l, "hook"))
            BY DEF WithStep, Writing
        <3> QED
            BY <1>4, <2>1, <3>3, <3>4
    <2> QED
        BY <1>12, <2>2, <2>3, <2>4 DEF Write
<1>13. CASE HookEnds(c)
    BY <1>6, <1>13 DEF HookEnds
<1>14. CASE ReadDir(c)
    <2>1. /\ UNCHANGED <<lockVars, job, reply, file>>
          /\ local' = [local EXCEPT ![c] = WithTodo(l, "scan", Existing)]
        BY <1>14, TodoAndStepIs DEF ReadDir
    <2>2. Moves(c, "body", WithTodo(l, "scan", Existing), reply[c])
        BY <1>0, <2>1, StayMoves
    <2>3. ~Writing(WithTodo(l, "scan", Existing))
        BY DEF WithTodo, Writing
    <2> QED
        BY <1>4, <2>1, <2>2, <2>3
<1>15. CASE Scan(c)
    <2>0. /\ l.step = "scan" /\ l.todo \subseteq TaskIds /\ UNCHANGED <<file, job>>
          /\ crossed' = (crossed \/ Crossing') /\ j.op \in {"list", "reset"}
        BY <1>15 DEF Scan, In, AllPlaced, Placed
    <2>1. CASE \E r : Return(c, r)
        BY <1>6, <2>0, <2>1
    <2>2. CASE \E id \in l.todo : /\ file[id] \notin {Absent, Torn} /\ j.op = "reset"
                                  /\ Prepare(c, id, file[id], l.todo \ {id})
        <3>1. PICK id \in l.todo : /\ file[id] \notin {Absent, Torn} /\ j.op = "reset"
                                   /\ Prepare(c, id, file[id], l.todo \ {id})
            BY <2>2
        <3>2. id \in Files /\ j.file = Dir
            BY <1>1, <2>0, <3>1, DirJobs DEF Files, Board!Files
        <3>3. PICK m : m = PrepareLocal(id, file[id], l.todo \ {id})
            OBVIOUS
        <3>4. Moves(c, "body", m, reply[c])
            BY <1>0, <2>0, <3>1, <3>3, PrepareMoves
        <3>5. m.step = "truncate" /\ m.target = id
            BY <3>3 DEF PrepareLocal
        <3>6. /\ at'[c] = "body" /\ local'[c] = m /\ path' = path /\ job' = job
              /\ \A d \in Callers : d # c => at'[d] = at[d]
            BY <3>4, MovesFacts
        <3>7. ASSUME calm, NEW d \in Callers, Writing(local[d]), local[d].target = id
              PROVE  FALSE
            <4>1. ~Crossing'
                BY <2>0, <3>7
            <4>2. Holders(local[c].target)' = {}
                BY <3>1, <3>5, <3>6, <4>1 DEF Crossing, In
            <4>3. at[d] = "body" /\ c # d
                BY <2>0, <3>7, WriterFacts DEF Writing
            <4>4. path[d] # id
                BY <3>5, <3>6, <4>2, <4>3 DEF Holders
            <4> QED
                BY <1>0, <2>0, <3>1, <3>2, <3>7, <4>4, NobodyWrites DEF Writing
        <3> QED
            BY <1>5, <2>0, <3>1, <3>2, <3>7
    <2>3. CASE \E id \in l.todo : /\ local' = [local EXCEPT ![c].todo = l.todo \ {id}]
                                  /\ UNCHANGED <<lockVars, reply>>
        <3>1. PICK id \in l.todo : /\ local' = [local EXCEPT ![c].todo = l.todo \ {id}]
                                   /\ UNCHANGED <<lockVars, reply>>
            BY <2>3
        <3>2. local' = [local EXCEPT ![c] = WithTodo(l, "scan", l.todo \ {id})]
            BY <2>0, <3>1, TodoIs
        <3>3. Moves(c, "body", WithTodo(l, "scan", l.todo \ {id}), reply[c])
            BY <1>0, <2>0, <3>1, <3>2, StayMoves
        <3>4. ~Writing(WithTodo(l, "scan", l.todo \ {id}))
            BY DEF WithTodo, Writing
        <3> QED
            BY <1>4, <2>0, <3>3, <3>4
    <2> QED
        BY <1>15, <2>1, <2>2, <2>3 DEF Scan
<1> QED
    BY <1>8, <1>9, <1>10, <1>11, <1>12, <1>13, <1>14, <1>15 DEF Section

LEMMA StoreStepInv ==
    ASSUME StoreInv, [Next]_vars
    PROVE  StoreInv'
<1>1. LockInv' /\ JobsTyped'
    BY StepLocks, LockStepInv, LockInvStutters DEF StoreInv
<1>2. LockTypeOK /\ LockInv /\ JobsTyped /\ AllPlaced /\ Apart
    BY DEF StoreInv, LockInv
<1>3. ASSUME AllPlaced', Apart' PROVE StoreInv'
    BY <1>1, <1>3 DEF StoreInv
<1>4. ASSUME NEW c \in Callers, Begin(c) PROVE AllPlaced' /\ Apart'
    <2>1. /\ UNCHANGED <<file, local, job, crossed, overlapped>>
          /\ \A d \in Callers : Holding(at'[d]) => Holding(at[d]) /\ path'[d] = path[d]
        BY <1>2, <1>4 DEF Begin, Ask, Decline, Goto, LockTypeOK, Holding
    <2> QED
        BY <1>2, <1>4, <2>1, BeginPlaced, QuietApart
<1>5. ASSUME NEW c \in Callers, Lock(c) PROVE AllPlaced' /\ Apart'
    BY <1>2, <1>5, LockPlaced, LockApart
<1>6. ASSUME NEW c \in Callers, Unlock(c) PROVE AllPlaced' /\ Apart'
    <2>1. /\ UNCHANGED <<file, local, job, crossed, overlapped>>
          /\ \A d \in Callers : Holding(at'[d]) => Holding(at[d]) /\ path'[d] = path[d]
        BY <1>2, <1>6 DEF Unlock, Release, Goto, LockTypeOK, Holding, bodyVars
    <2> QED
        BY <1>2, <1>6, <2>1, UnlockPlaced, QuietApart
<1>7. ASSUME NEW c \in Callers, Section(c) PROVE AllPlaced' /\ Apart'
    BY <1>2, <1>7, SectionPlaced, SectionApart
<1>8. ASSUME NEW c \in Callers, Killed(c) PROVE AllPlaced' /\ Apart'
    <2>1. /\ UNCHANGED <<file, job, crossed, overlapped>>
          /\ \A d \in Callers : Holding(at'[d]) => Holding(at[d]) /\ path'[d] = path[d]
        BY <1>2, <1>8 DEF Killed, Die, Goto, LockTypeOK, Holding
    <2>2. \A d \in Callers : local'[d] = IF d = c THEN Start ELSE local[d]
        BY <1>2, <1>8 DEF Killed, AllPlaced
    <2>3. ~Writing(Start)
        BY DEF Start, Writing
    <2>4. \A d \in Callers : Writing(local'[d]) => local'[d] = local[d] /\ job'[d] = job[d]
        BY <2>1, <2>2, <2>3
    <2> QED
        BY <1>2, <1>8, <2>1, <2>4, KilledPlaced, QuietApart
<1>9. ASSUME NEW c \in Callers, NEW j \in Offered, Call(c, j) PROVE AllPlaced' /\ Apart'
    <2>1. UNCHANGED <<file, local, at, path, crossed, overlapped>> /\ job[c] = None
        BY <1>9 DEF Call, lockVars
    <2>2. at[c] = "idle" /\ local[c] = Start
        BY <1>2, <2>1 DEF AllPlaced, Placed, Start
    <2>3. \A d \in Callers : d # c => job'[d] = job[d]
        BY <1>2, <1>9 DEF Call, JobsTyped
    <2>4. \A d \in Callers : Writing(local'[d]) => local'[d] = local[d] /\ job'[d] = job[d]
        BY <2>1, <2>2, <2>3 DEF Writing, Start
    <2> QED
        BY <1>2, <1>9, <2>1, <2>4, AskedPlaced, QuietApart
<1>10. ASSUME UNCHANGED <<at, path, overlapped, bodyVars>> PROVE AllPlaced' /\ Apart'
    <2>1. UNCHANGED <<file, local, job, reply, crossed>>
        BY <1>10 DEF bodyVars
    <2>2. AllPlaced'
        BY <1>2, <1>10, <2>1 DEF AllPlaced
    <2> QED
        BY <1>2, <1>10, <2>1, <2>2, QuietApart
<1>11. CASE UNCHANGED vars
    BY <1>3, <1>10, <1>11 DEF vars, lockVars
<1>12. ASSUME NEW l \in Locks, GetsOld(l) PROVE AllPlaced' /\ Apart'
    BY <1>10, <1>12 DEF GetsOld, Age
<1> QED
    BY <1>3, <1>4, <1>5, <1>6, <1>7, <1>8, <1>9, <1>11, <1>12 DEF Next

LEMMA StoreInvariant == Spec => []StoreInv
<1>1. Init => StoreInv
    BY LockInitInv, InitJobs, InitPlaced, InitApart DEF Init, StoreInv
<1>2. StoreInv /\ [Next]_vars => StoreInv'
    BY StoreStepInv
<1> QED
    BY <1>1, <1>2, PTL DEF Spec

-----------------------------------------------------------------------------
(* The refinement.                                                         *)

LEMMA SameOperations ==
    ASSUME NEW c, NEW j, NEW doc
    PROVE  /\ Abstract!Throws(j, doc) = Board!Throws(j, doc)
           /\ Abstract!Effect(c, j, doc) = Board!Effect(c, j, doc)
           /\ Abstract!Reply(c, j, doc) = Board!Reply(c, j, doc)
<1>1. Abstract!Throws(j, doc) = Board!Throws(j, doc)
    BY DEF Abstract!Throws, Board!Throws
<1>2. Abstract!Effect(c, j, doc) = Board!Effect(c, j, doc)
    BY DEF Abstract!Effect, Board!Effect, Abstract!Deletes, Board!Deletes, Abstract!Merge, Board!Merge,
           Abstract!NewTask, Board!NewTask
<1>3. Abstract!Reply(c, j, doc) = Board!Reply(c, j, doc)
    BY <1>2 DEF Abstract!Reply, Board!Reply, Abstract!Merge, Board!Merge
<1> QED
    BY <1>1, <1>2, <1>3

(* What the documents of the abstract specification are: what a writer     *)
(* writes over, and elsewhere the files themselves.                        *)
DocumentsKnown ==
    /\ Documents = [f \in Files |-> Documents[f]]
    /\ \A c \in Callers : Writing(local[c]) => Documents[local[c].target] = local[c].seen
    /\ \A f \in Files :
        (\A c \in Callers : Writing(local[c]) => local[c].target # f) => Documents[f] = file[f]
    /\ \A f \in Files : file[f] # Torn => Documents[f] = file[f]

Calm == overlapped = {} /\ ~crossed

LEMMA CalmKnown == StoreInv /\ Calm => DocumentsKnown
<1> SUFFICES ASSUME StoreInv, Calm PROVE DocumentsKnown
    OBVIOUS
<1>1. AllPlaced /\ JobsTyped /\ Fresh
    BY DEF StoreInv, Apart, Calm
<1>2. Documents = [f \in Files |-> Documents[f]]
    BY DEF Documents
<1>3. ASSUME NEW f \in Files, \A c \in Callers : ~(local[c].step = "write" /\ local[c].target = f)
      PROVE  Documents[f] = file[f]
    <2>1. {c \in Callers : In(c, "write") /\ local[c].target = f} = {}
        BY <1>3 DEF In
    <2> QED
        BY <2>1 DEF Documents
<1>4. ASSUME NEW c \in Callers, local[c].step = "write"
      PROVE  Documents[local[c].target] = local[c].seen
    <2>1. at[c] = "body" /\ local[c].target \in Files
        BY <1>1, <1>4, WriterFacts DEF Writing
    <2>2. {d \in Callers : In(d, "write") /\ local[d].target = local[c].target} = {c}
        BY <1>1, <1>4, <2>1 DEF In, Fresh, Writing
    <2>3. (CHOOSE d \in {c} : TRUE) = c /\ {c} # {}
        OBVIOUS
    <2> QED
        BY <2>1, <2>2, <2>3 DEF Documents
<1>5. ASSUME NEW c \in Callers, Writing(local[c])
      PROVE  Documents[local[c].target] = local[c].seen
    <2>1. CASE local[c].step = "write"
        BY <1>4, <2>1
    <2>2. CASE local[c].step = "truncate"
        <3>1. local[c].target \in Files /\ file[local[c].target] = local[c].seen
            BY <1>1, <1>5, <2>2, WriterFacts DEF Fresh
        <3>2. \A d \in Callers : ~(local[d].step = "write" /\ local[d].target = local[c].target)
            BY <1>1, <1>5, <2>2 DEF Fresh, Writing
        <3> QED
            BY <1>3, <3>1, <3>2
    <2> QED
        BY <1>5, <2>1, <2>2 DEF Writing
<1>6. ASSUME NEW f \in Files, \A c \in Callers : Writing(local[c]) => local[c].target # f
      PROVE  Documents[f] = file[f]
    BY <1>3, <1>6 DEF Writing
<1>7. ASSUME NEW f \in Files, file[f] # Torn PROVE Documents[f] = file[f]
    BY <1>1, <1>3, <1>7 DEF Fresh
<1> QED
    BY <1>2, <1>5, <1>6, <1>7 DEF DocumentsKnown

LEMMA CalmKnownNext == StoreInv' /\ Calm' => DocumentsKnown'
    BY CalmKnown, PTL

LEMMA DocumentsKept ==
    ASSUME DocumentsKnown, DocumentsKnown', NEW c \in Callers,
           \A d \in Callers : d # c => local'[d] = local[d],
           \/ /\ file' = file /\ ~Writing(local[c])
              /\ Writing(local'[c]) => local'[c].seen = file[local'[c].target]
           \/ /\ Writing(local[c]) /\ Writing(local'[c])
              /\ local'[c].target = local[c].target /\ local'[c].seen = local[c].seen
              /\ \A f \in Files : f # local[c].target => file'[f] = file[f]
    PROVE  Documents' = Documents
<1>1. ASSUME NEW f \in Files PROVE Documents'[f] = Documents[f]
    <2>1. CASE \E d \in Callers : d # c /\ Writing(local[d]) /\ local[d].target = f
        <3>1. PICK d \in Callers : d # c /\ Writing(local[d]) /\ local[d].target = f
            BY <2>1
        <3>2. Documents[f] = local[d].seen
            BY <3>1 DEF DocumentsKnown
        <3>3. local'[d] = local[d]
            BY <3>1
        <3>4. Documents'[f] = local'[d].seen
            BY <3>1, <3>3 DEF DocumentsKnown
        <3> QED
            BY <3>2, <3>3, <3>4
    <2>2. CASE \A d \in Callers : d # c /\ Writing(local[d]) => local[d].target # f
        <3>1. CASE Writing(local[c]) /\ local[c].target = f
            BY <3>1 DEF DocumentsKnown
        <3>2. CASE ~(Writing(local[c]) /\ local[c].target = f)
            <4>1. Documents[f] = file[f] /\ file'[f] = file[f]
                BY <2>2, <3>2 DEF DocumentsKnown
            <4>2. CASE Writing(local'[c]) /\ local'[c].target = f
                BY <3>2, <4>1, <4>2 DEF DocumentsKnown
            <4>3. CASE ~(Writing(local'[c]) /\ local'[c].target = f)
                <5>1. \A d \in Callers : Writing(local'[d]) => local'[d].target # f
                    BY <2>2, <4>3
                <5> QED
                    BY <4>1, <5>1 DEF DocumentsKnown
            <4> QED
                BY <4>2, <4>3
        <3> QED
            BY <3>1, <3>2
    <2> QED
        BY <2>1, <2>2
<1> QED
    BY <1>1 DEF DocumentsKnown

LEMMA DocumentsChanged ==
    ASSUME DocumentsKnown, DocumentsKnown', AllPlaced, JobsTyped, Fresh,
           NEW c \in Callers, NEW doc,
           \A d \in Callers : d # c => local'[d] = local[d],
           Writing(local[c]), ~Writing(local'[c]), file' = [file EXCEPT ![local[c].target] = doc]
    PROVE  /\ Documents' = [Documents EXCEPT ![local[c].target] = doc]
           /\ Documents[local[c].target] = local[c].seen
<1>0. local[c].target \in Files
    BY WriterFacts
<1>1. \A f \in Files : file'[f] = IF f = local[c].target THEN doc ELSE file[f]
    BY DEF AllPlaced
<1>2. \A d \in Callers : d # c /\ Writing(local[d]) => local[d].target # local[c].target
    BY DEF Fresh
<1>3. ASSUME NEW f \in Files
      PROVE  Documents'[f] = IF f = local[c].target THEN doc ELSE Documents[f]
    <2>1. CASE \E d \in Callers : d # c /\ Writing(local[d]) /\ local[d].target = f
        <3>1. PICK d \in Callers : d # c /\ Writing(local[d]) /\ local[d].target = f
            BY <2>1
        <3>2. Documents[f] = local[d].seen
            BY <3>1 DEF DocumentsKnown
        <3>3. local'[d] = local[d]
            BY <3>1
        <3>4. Documents'[f] = local'[d].seen
            BY <3>1, <3>3 DEF DocumentsKnown
        <3>5. f # local[c].target
            BY <1>2, <3>1
        <3> QED
            BY <3>2, <3>3, <3>4, <3>5
    <2>2. CASE \A d \in Callers : d # c /\ Writing(local[d]) => local[d].target # f
        <3>1. \A d \in Callers : Writing(local'[d]) => local'[d].target # f
            BY <2>2
        <3>2. Documents'[f] = file'[f]
            BY <3>1 DEF DocumentsKnown
        <3>3. f # local[c].target => Documents[f] = file[f]
            BY <2>2 DEF DocumentsKnown
        <3> QED
            BY <1>1, <3>2, <3>3
    <2> QED
        BY <2>1, <2>2
<1> QED
    BY <1>0, <1>3 DEF DocumentsKnown

LEMMA RepliesKept ==
    ASSUME LockTypeOK, NEW c \in Callers, NEW a, at' = [at EXCEPT ![c] = a], reply' = reply,
           (a # "dead" /\ at[c] # "dead") \/ reply[c] # None
    PROVE  Replies' = Replies
BY DEF Replies, LockTypeOK

LEMMA AnswerGiven ==
    ASSUME LockTypeOK, AllPlaced, NEW c \in Callers, NEW a, NEW r, at' = [at EXCEPT ![c] = a],
           at[c] # "dead", a # "dead", reply[c] = None, job[c] # None, UNCHANGED job,
           reply' = [reply EXCEPT ![c] = r]
    PROVE  Abstract!Answered(c, r)
<1>1. \A d \in Callers : /\ at'[d] = IF d = c THEN a ELSE at[d]
                         /\ reply'[d] = IF d = c THEN r ELSE reply[d]
    BY DEF LockTypeOK, AllPlaced
<1>2. Replies[c] = None /\ Replies' = [Replies EXCEPT ![c] = r]
    BY <1>1 DEF Replies
<1> QED
    BY <1>2 DEF Abstract!Answered

LEMMA CrashGiven ==
    ASSUME LockTypeOK, AllPlaced, NEW c \in Callers, at' = [at EXCEPT ![c] = "dead"],
           at[c] # "dead", reply[c] = None, job[c] # None, UNCHANGED <<job, reply>>
    PROVE  Abstract!Answered(c, Dead)
<1>1. \A d \in Callers : at'[d] = IF d = c THEN "dead" ELSE at[d]
    BY DEF LockTypeOK
<1>2. Replies[c] = None /\ Replies' = [Replies EXCEPT ![c] = Dead]
    BY <1>1 DEF Replies
<1> QED
    BY <1>2 DEF Abstract!Answered

\* One step of the abstract specification, or none.
Atomic == Abstract!BoardNext \/ UNCHANGED <<Documents, job, Replies>>

\* A step before and after which nothing has gone wrong yet.
CalmStep ==
    /\ LockTypeOK /\ JobsTyped /\ AllPlaced /\ Fresh
    /\ DocumentsKnown /\ DocumentsKnown'

\* A step that reveals nothing.
LEMMA HiddenStep ==
    ASSUME CalmStep, NEW c \in Callers, NEW a, NEW m, Moves(c, a, m, reply[c]),
           at[c] # "dead", a # "dead",
           \/ file' = file /\ ~Writing(local[c]) /\ (Writing(m) => m.seen = file[m.target])
           \/ /\ Writing(local[c]) /\ Writing(m) /\ m.target = local[c].target /\ m.seen = local[c].seen
              /\ \A f \in Files : f # local[c].target => file'[f] = file[f]
    PROVE  Atomic
<1>1. /\ local'[c] = m /\ \A d \in Callers : d # c => local'[d] = local[d]
      /\ job' = job /\ at' = [at EXCEPT ![c] = a] /\ reply' = reply
    BY MovesFacts DEF CalmStep, Moves, AllPlaced
<1>2. Documents' = Documents
    BY <1>1, DocumentsKept DEF CalmStep
<1>3. Replies' = Replies
    BY <1>1, RepliesKept DEF CalmStep
<1> QED
    BY <1>1, <1>2, <1>3 DEF Atomic

\* The section ends and nothing has been written: the documents are the same.
LEMMA AnswerOnly ==
    ASSUME CalmStep, NEW c \in Callers, NEW r, Return(c, r), ~Writing(local[c]), reply[c] = None,
           job[c] # None, UNCHANGED <<file, job>>
    PROVE  Abstract!Answered(c, r) /\ Documents' = Documents
<1>1. at[c] = "body" /\ Moves(c, "release", Start, r)
    BY ReturnMoves DEF CalmStep
<1>2. /\ local'[c] = Start /\ \A d \in Callers : d # c => local'[d] = local[d]
      /\ at' = [at EXCEPT ![c] = "release"] /\ reply' = [reply EXCEPT ![c] = r]
    BY <1>1, MovesFacts DEF CalmStep, Moves
<1>3. Documents' = Documents
    BY <1>2, DocumentsKept DEF CalmStep, Start, Writing
<1>4. Abstract!Answered(c, r)
    BY <1>1, <1>2, AnswerGiven DEF CalmStep
<1> QED
    BY <1>3, <1>4

\* The document is rewritten and the call is answered in one step.
LEMMA Rewritten ==
    ASSUME CalmStep, NEW c \in Callers, NEW a, NEW m, NEW r, Moves(c, a, m, r), at[c] # "dead", a # "dead",
           Writing(local[c]), ~Writing(m), reply[c] = None, job[c] # None,
           local[c].target = job[c].file, job[c].file \in Files,
           ~Board!Throws(job[c], local[c].seen),
           job[c].op = "receive" => Board!Reply(c, job[c], local[c].seen) # <<>>,
           file' = [file EXCEPT ![local[c].target] = Board!Effect(c, job[c], local[c].seen)],
           r = Board!Reply(c, job[c], local[c].seen)
    PROVE  Abstract!Done(c)
<1>1. /\ local'[c] = m /\ \A d \in Callers : d # c => local'[d] = local[d]
      /\ at' = [at EXCEPT ![c] = a] /\ reply' = [reply EXCEPT ![c] = r] /\ job' = job
    BY MovesFacts DEF CalmStep, Moves
<1>2. /\ Documents' = [Documents EXCEPT ![local[c].target] = Board!Effect(c, job[c], local[c].seen)]
      /\ Documents[local[c].target] = local[c].seen
    BY <1>1, DocumentsChanged DEF CalmStep
<1>3. Abstract!Answered(c, r)
    BY <1>1, AnswerGiven DEF CalmStep
<1>4. /\ Abstract!Throws(job[c], local[c].seen) = Board!Throws(job[c], local[c].seen)
      /\ Abstract!Effect(c, job[c], local[c].seen) = Board!Effect(c, job[c], local[c].seen)
      /\ Abstract!Reply(c, job[c], local[c].seen) = Board!Reply(c, job[c], local[c].seen)
    BY SameOperations
<1>5. job[c].file \in Abstract!Files
    BY DEF Files, Board!Files, Abstract!Files
<1> QED
    BY <1>2, <1>3, <1>4, <1>5 DEF Abstract!Done

LEMMA SectionAtomic ==
    ASSUME CalmStep, NEW c \in Callers, Section(c)
    PROVE  Atomic
<1> DEFINE j == job[c]
           l == local[c]
<1>0. at[c] = "body"
    BY DEF Section, ReadFile, ChooseId, Remove, Truncate, Write, HookEnds, ReadDir, Scan, In
<1>1. /\ j \in Offered /\ j.file \in Locks /\ j # None /\ path[c] = j.file
      /\ l.step # "hook" => reply[c] = None
    BY <1>0, InSection, TeamStoreAssumption DEF CalmStep
<1>2. UNCHANGED job
    BY SectionLocks
<1>3. ASSUME NEW f \in Files, NEW rest, Prepare(c, f, file[f], rest), file' = file, ~Writing(l)
      PROVE  Atomic
    <2>1. PICK m : m = PrepareLocal(f, file[f], rest)
        OBVIOUS
    <2>2. Moves(c, "body", m, reply[c])
        BY <1>0, <1>2, <1>3, <2>1, PrepareMoves DEF CalmStep
    <2>3. m.target = f /\ m.seen = file[f]
        BY <2>1 DEF PrepareLocal
    <2> QED
        BY <1>0, <1>3, <2>2, <2>3, HiddenStep
<1>4. ASSUME Return(c, Refused), file' = file, ~Writing(l), reply[c] = None PROVE Atomic
    <2>1. Abstract!Answered(c, Refused) /\ Documents' = Documents
        BY <1>1, <1>2, <1>4, AnswerOnly
    <2> QED
        BY <2>1 DEF Abstract!Refusal, Abstract!BoardNext, Atomic
<1>5. CASE ReadFile(c)
    <2>0. l.step = "start" /\ ~Writing(l) /\ j.file \in Files /\ file' = file /\ reply[c] = None
        BY <1>1, <1>5 DEF ReadFile, In, Writing
    <2>1. CASE Board!Throws(j, file[j.file])
        BY <1>4, <1>5, <2>0, <2>1 DEF ReadFile
    <2>2. CASE ~Board!Throws(j, file[j.file])
        <3>0. file[j.file] # Torn /\ Documents[j.file] = file[j.file]
            BY <2>0, <2>2 DEF Board!Throws, CalmStep, DocumentsKnown
        <3>1. PICK r : r = Board!Reply(c, j, file[j.file])
            OBVIOUS
        <3>2. CASE j.op = "read" \/ (j.op = "receive" /\ r = <<>>)
            <4>1. Return(c, r)
                BY <1>5, <2>2, <3>1, <3>2 DEF ReadFile
            <4>2. Abstract!Answered(c, r) /\ Documents' = Documents
                BY <1>1, <1>2, <2>0, <4>1, AnswerOnly
            <4>3. /\ Abstract!Throws(j, file[j.file]) = Board!Throws(j, file[j.file])
                  /\ Abstract!Effect(c, j, file[j.file]) = Board!Effect(c, j, file[j.file])
                  /\ Abstract!Reply(c, j, file[j.file]) = Board!Reply(c, j, file[j.file])
                BY SameOperations
            <4>4. j.op = "read" => Board!Effect(c, j, file[j.file]) = file[j.file]
                BY DEF Board!Effect
            <4>5. [Documents EXCEPT ![j.file] = Documents[j.file]] = Documents
                BY DEF CalmStep, DocumentsKnown
            <4>6. j.file \in Abstract!Files
                BY <2>0 DEF Files, Board!Files, Abstract!Files
            <4>7. Abstract!Done(c)
                BY <1>1, <2>2, <3>0, <3>1, <3>2, <4>2, <4>3, <4>4, <4>5, <4>6 DEF Abstract!Done
            <4> QED
                BY <4>7 DEF Abstract!BoardNext, Atomic
        <3>3. CASE ~(j.op = "read" \/ (j.op = "receive" /\ r = <<>>))
            <4>1. Prepare(c, j.file, file[j.file], {})
                BY <1>5, <2>2, <3>1, <3>3 DEF ReadFile
            <4> QED
                BY <1>3, <2>0, <4>1
        <3> QED
            BY <3>2, <3>3
    <2> QED
        BY <2>1, <2>2
<1>6. CASE ChooseId(c)
    <2>1. /\ l.step = "start" /\ ~Writing(l) /\ NextId \in TaskIds /\ NextId \in Files
          /\ Prepare(c, NextId, Absent, {}) /\ file' = file
        BY <1>6 DEF ChooseId, In, Files, Board!Files, Writing
    <2> QED
        BY <1>3, <2>1, NextIdIsFree
<1>7. CASE Remove(c)
    <2>1. l.step = "truncate" /\ Writing(l) /\ j.op = "update" /\ Board!Deletes(j)
        BY <1>7 DEF Remove, In, Writing, Board!Deletes
    <2>2. /\ Ready(c, j, l) /\ file[l.target] = l.seen
        BY <2>1, WriterFacts DEF CalmStep, Fresh
    <2>3. l.target = j.file /\ j.file \in Files /\ ~Board!Throws(j, l.seen)
        BY <2>1, <2>2 DEF Ready
    <2>4. l.seen # Absent
        BY <2>1, <2>3 DEF Board!Throws
    <2>5. PICK r : r = Board!Reply(c, j, l.seen)
        OBVIOUS
    <2>6. Return(c, r) /\ file' = [file EXCEPT ![l.target] = Absent]
        BY <1>7, <2>2, <2>4, <2>5 DEF Remove
    <2>7. Board!Effect(c, j, l.seen) = Absent
        BY <2>1 DEF Board!Effect
    <2>8. Moves(c, "release", Start, r) /\ ~Writing(Start)
        BY <1>2, <2>6, ReturnMoves DEF CalmStep, Start, Writing
    <2>9. Abstract!Done(c)
        BY <1>0, <1>1, <2>1, <2>3, <2>5, <2>6, <2>7, <2>8, Rewritten
    <2> QED
        BY <2>9 DEF Abstract!BoardNext, Atomic
<1>8. CASE Truncate(c)
    <2>1. PICK m : m = WithStep(l, "write")
        OBVIOUS
    <2>2. l.step = "truncate" /\ Writing(l) /\ file' = [file EXCEPT ![l.target] = Torn]
        BY <1>8 DEF Truncate, In, Writing
    <2>3. Writing(m) /\ m.target = l.target /\ m.seen = l.seen
        BY <2>1 DEF WithStep, Writing
    <2>4. local' = [local EXCEPT ![c] = m] /\ UNCHANGED <<lockVars, job, reply>>
        BY <1>2, <1>8, <2>1, StepIs DEF Truncate, Becomes, CalmStep
    <2>5. Moves(c, "body", m, reply[c])
        BY <1>0, <2>4, StayMoves DEF CalmStep
    <2>6. \A f \in Files : f # l.target => file'[f] = file[f]
        BY <2>2 DEF CalmStep, AllPlaced
    <2> QED
        BY <1>0, <2>2, <2>3, <2>5, <2>6, HiddenStep
<1>9. CASE Write(c)
    <2>1. /\ l.step = "write" /\ Writing(l) /\ reply[c] = None
          /\ file' = [file EXCEPT ![l.target] = Board!Effect(c, j, l.seen)]
        BY <1>1, <1>9 DEF Write, In, Writing
    <2>2. Ready(c, j, l)
        BY <2>1, WriterFacts DEF CalmStep
    <2>3. CASE j.op = "reset"
        <3>1. PICK m : m = WithStep(l, "scan")
            OBVIOUS
        <3>2. local' = [local EXCEPT ![c] = m] /\ UNCHANGED <<lockVars, job, reply>>
            BY <1>2, <1>9, <2>3, <3>1, StepIs DEF Write, Becomes, CalmStep
        <3>3. Moves(c, "body", m, reply[c]) /\ ~Writing(m)
            BY <1>0, <3>1, <3>2, StayMoves DEF CalmStep, WithStep, Writing
        <3>4. /\ local'[c] = m /\ \A d \in Callers : d # c => local'[d] = local[d]
            BY <3>3, MovesFacts DEF CalmStep
        <3>5. /\ Documents' = [Documents EXCEPT ![l.target] = Board!Effect(c, j, l.seen)]
              /\ Documents[l.target] = l.seen
            BY <2>1, <3>3, <3>4, DocumentsChanged DEF CalmStep
        <3>6. l.target \in TaskIds /\ l.seen \notin {Absent, Torn} /\ l.seen.owned
            BY <2>2, <2>3 DEF Ready
        <3>7. ~Board!Throws(j, l.seen)
            BY <2>3, <3>6 DEF Board!Throws
        <3>8. /\ Abstract!Throws(j, l.seen) = Board!Throws(j, l.seen)
              /\ Abstract!Effect(c, j, l.seen) = Board!Effect(c, j, l.seen)
            BY SameOperations
        <3>9. at' = [at EXCEPT ![c] = "body"] /\ reply' = reply
            BY <3>2, <3>3 DEF Moves
        <3>10. Replies' = Replies /\ Replies[c] = None
            BY <1>0, <2>1, <3>9, RepliesKept DEF CalmStep, Replies
        <3>11. Abstract!ResetOne(c)
            BY <1>1, <1>2, <2>3, <3>5, <3>6, <3>7, <3>8, <3>10 DEF Abstract!ResetOne
        <3> QED
            BY <3>11 DEF Abstract!BoardNext, Atomic
    <2>4. CASE j.op # "reset"
        <3>1. PICK r : r = Board!Reply(c, j, l.seen)
            OBVIOUS
        <3>2. PICK a, m : a \in {"body", "release"} /\ Moves(c, a, m, r) /\ ~Writing(m)
            <4>1. CASE Board!Completes(j)
                <5>1. PICK m : m = WithStep(l, "hook")
                    OBVIOUS
                <5>2. /\ local' = [local EXCEPT ![c] = m] /\ UNCHANGED <<lockVars, job>>
                      /\ reply' = [reply EXCEPT ![c] = r]
                    BY <1>2, <1>9, <2>4, <3>1, <4>1, <5>1, StepIs DEF Write, Becomes, CalmStep
                <5>3. Moves(c, "body", m, r)
                    BY <1>0, <5>2 DEF Moves, lockVars, LockTypeOK, CalmStep
                <5>4. ~Writing(m)
                    BY <5>1 DEF WithStep, Writing
                <5> QED
                    BY <5>3, <5>4
            <4>2. CASE ~Board!Completes(j)
                <5>1. Return(c, r)
                    BY <1>9, <2>4, <3>1, <4>2 DEF Write
                <5>2. Moves(c, "release", Start, r) /\ ~Writing(Start)
                    BY <1>2, <5>1, ReturnMoves DEF CalmStep, Start, Writing
                <5> QED
                    BY <5>2
            <4> QED
                BY <4>1, <4>2
        <3>3. CASE j.op = "create"
            <4>1. /\ local'[c] = m /\ \A d \in Callers : d # c => local'[d] = local[d]
                  /\ at' = [at EXCEPT ![c] = a] /\ reply' = [reply EXCEPT ![c] = r]
                BY <3>2, MovesFacts DEF CalmStep, Moves
            <4>2. /\ Documents' = [Documents EXCEPT ![l.target] = Board!Effect(c, j, l.seen)]
                  /\ Documents[l.target] = l.seen
                BY <2>1, <3>2, <4>1, DocumentsChanged DEF CalmStep
            <4>3. l.target \in TaskIds /\ l.seen = Absent
                BY <2>2, <3>3 DEF Ready
            <4>4. Board!Effect(c, j, l.seen) = Abstract!NewTask /\ r = Ok
                BY <3>1, <3>3 DEF Board!Effect, Board!Reply, Board!NewTask, Abstract!NewTask
            <4>5. Abstract!Answered(c, Ok)
                BY <1>0, <1>1, <1>2, <2>1, <3>2, <4>1, <4>4, AnswerGiven DEF CalmStep
            <4>6. Abstract!Created(c)
                BY <1>1, <3>3, <4>2, <4>3, <4>4, <4>5 DEF Abstract!Created
            <4> QED
                BY <4>6 DEF Abstract!BoardNext, Atomic
        <3>4. CASE j.op # "create"
            <4>1. /\ l.target = j.file /\ j.file \in Files /\ ~Board!Throws(j, l.seen)
                  /\ j.op = "receive" => Board!Reply(c, j, l.seen) # <<>>
                BY <2>2, <2>4, <3>4 DEF Ready
            <4>2. Abstract!Done(c)
                BY <1>0, <1>1, <2>1, <3>1, <3>2, <4>1, Rewritten
            <4> QED
                BY <4>2 DEF Abstract!BoardNext, Atomic
        <3> QED
            BY <3>3, <3>4
    <2> QED
        BY <2>3, <2>4
<1>10. CASE HookEnds(c)
    <2>1. /\ Moves(c, "release", Start, reply[c]) /\ ~Writing(l) /\ ~Writing(Start) /\ file' = file
        BY <1>2, <1>10, ReturnMoves DEF HookEnds, In, CalmStep, Start, Writing
    <2> QED
        BY <1>0, <2>1, HiddenStep
<1>11. CASE ReadDir(c)
    <2>1. /\ UNCHANGED <<lockVars, job, reply, file>> /\ ~Writing(l)
          /\ local' = [local EXCEPT ![c] = WithTodo(l, "scan", Existing)]
        BY <1>11, TodoAndStepIs DEF ReadDir, In, Writing, CalmStep
    <2>2. Moves(c, "body", WithTodo(l, "scan", Existing), reply[c])
        BY <1>0, <2>1, StayMoves DEF CalmStep
    <2>3. ~Writing(WithTodo(l, "scan", Existing))
        BY DEF WithTodo, Writing
    <2> QED
        BY <1>0, <2>1, <2>2, <2>3, HiddenStep
<1>12. CASE Scan(c)
    <2>0. /\ l.step = "scan" /\ ~Writing(l) /\ UNCHANGED <<file, job>> /\ reply[c] = None
          /\ l.todo \subseteq TaskIds /\ j.op \in {"list", "reset"}
        BY <1>1, <1>12 DEF Scan, In, Writing, CalmStep, AllPlaced, Placed
    <2>1. CASE Return(c, Ok)
        <3>1. Abstract!Answered(c, Ok) /\ Documents' = Documents
            BY <1>1, <2>0, <2>1, AnswerOnly
        <3> QED
            BY <1>1, <2>0, <3>1 DEF Abstract!Listed, Abstract!BoardNext, Atomic
    <2>2. CASE Return(c, Refused)
        BY <1>4, <2>0, <2>2
    <2>3. CASE \E id \in l.todo : Prepare(c, id, file[id], l.todo \ {id})
        BY <1>3, <2>0, <2>3 DEF Files, Board!Files
    <2>4. CASE \E id \in l.todo : /\ local' = [local EXCEPT ![c].todo = l.todo \ {id}]
                                  /\ UNCHANGED <<lockVars, reply>>
        <3>1. PICK id \in l.todo : /\ local' = [local EXCEPT ![c].todo = l.todo \ {id}]
                                   /\ UNCHANGED <<lockVars, reply>>
            BY <2>4
        <3>2. local' = [local EXCEPT ![c] = WithTodo(l, "scan", l.todo \ {id})]
            BY <2>0, <3>1, TodoIs DEF CalmStep
        <3>3. Moves(c, "body", WithTodo(l, "scan", l.todo \ {id}), reply[c])
            BY <1>0, <2>0, <3>1, <3>2, StayMoves DEF CalmStep
        <3>4. ~Writing(WithTodo(l, "scan", l.todo \ {id}))
            BY DEF WithTodo, Writing
        <3> QED
            BY <1>0, <2>0, <3>3, <3>4, HiddenStep
    <2> QED
        BY <1>12, <2>1, <2>2, <2>3, <2>4 DEF Scan
<1> QED
    BY <1>5, <1>6, <1>7, <1>8, <1>9, <1>10, <1>11, <1>12 DEF Section

\* Outside the sections: what they know and the files stay.
LEMMA OutsideKept ==
    ASSUME CalmStep, UNCHANGED <<file, local>>
    PROVE  Documents' = Documents
<1>1. ASSUME NEW f \in Files PROVE Documents'[f] = Documents[f]
    <2>1. CASE \E d \in Callers : Writing(local[d]) /\ local[d].target = f
        BY <2>1 DEF CalmStep, DocumentsKnown
    <2>2. CASE \A d \in Callers : Writing(local[d]) => local[d].target # f
        BY <2>2 DEF CalmStep, DocumentsKnown
    <2> QED
        BY <2>1, <2>2
<1> QED
    BY <1>1 DEF CalmStep, DocumentsKnown

LEMMA BeginAtomic ==
    ASSUME CalmStep, NEW c \in Callers, Begin(c)
    PROVE  Atomic
<1> DEFINE j == job[c]
<1>1. /\ at[c] = "idle" /\ j # None /\ UNCHANGED <<file, job, local>>
      /\ reply[c] = None /\ j \in Offered
    BY DEF Begin, Ask, Decline, CalmStep, AllPlaced, Placed, Start, JobsTyped
<1>2. Documents' = Documents
    BY <1>1, OutsideKept
<1>3. CASE Ask(c, j.file) /\ UNCHANGED reply
    <2>1. Replies' = Replies
        BY <1>1, <1>3, RepliesKept DEF CalmStep, Ask, Goto
    <2> QED
        BY <1>1, <1>2, <2>1 DEF Atomic
<1>4. ASSUME NEW r, Decline(c), reply' = [reply EXCEPT ![c] = r] PROVE Abstract!Answered(c, r)
    BY <1>1, <1>4, AnswerGiven DEF CalmStep, Decline, Goto
<1>5. CASE j.op = "read" /\ Decline(c) /\ reply' = [reply EXCEPT ![c] = Refused]
    BY <1>2, <1>4, <1>5 DEF Abstract!Refusal, Abstract!BoardNext, Atomic
<1>6. CASE /\ j.op = "receive" /\ file[j.file] = Absent /\ Decline(c)
           /\ reply' = [reply EXCEPT ![c] = <<>>]
    <2>1. j.file \in Files /\ j.file \in Abstract!Files
        BY <1>1, <1>6, DirJobs DEF Files, Board!Files, Abstract!Files
    <2>2. Documents[j.file] = Absent
        BY <1>6, <2>1, TeamStoreAssumption DEF CalmStep, DocumentsKnown
    <2>3. Board!Reply(c, j, Absent) = <<>> /\ ~Board!Throws(j, Absent)
        BY <1>6, TeamStoreAssumption DEF Board!Reply, Board!Throws
    <2>4. /\ Abstract!Throws(j, Absent) = Board!Throws(j, Absent)
          /\ Abstract!Reply(c, j, Absent) = Board!Reply(c, j, Absent)
        BY SameOperations
    <2>5. Abstract!Done(c)
        BY <1>1, <1>2, <1>4, <1>6, <2>1, <2>2, <2>3, <2>4 DEF Abstract!Done
    <2> QED
        BY <2>5 DEF Abstract!BoardNext, Atomic
<1> QED
    BY <1>3, <1>5, <1>6 DEF Begin

LEMMA LockAtomic ==
    ASSUME CalmStep, NEW c \in Callers, Lock(c)
    PROVE  Atomic
<1>1. PICK a \in {"exists", "stat", "remove", "create", "body", "done"} : at' = [at EXCEPT ![c] = a]
    BY DEF Lock, Acquire, Exists, Stat, RemoveStale, CreateLock, Retry, Goto
<1>2. at[c] \in {"exists", "stat", "remove", "create"} /\ UNCHANGED <<file, job, local>>
    BY DEF Lock, Acquire, Exists, Stat, RemoveStale, CreateLock
<1>3. at'[c] = a /\ reply[c] = None /\ job[c] # None
    BY <1>1, <1>2 DEF LockTypeOK, CalmStep, AllPlaced, Placed, Start
<1>4. Documents' = Documents
    BY <1>2, OutsideKept
<1>5. CASE a = "done"
    <2>1. Abstract!Answered(c, Refused)
        BY <1>1, <1>2, <1>3, <1>5, AnswerGiven DEF CalmStep, Lock
    <2> QED
        BY <1>4, <2>1 DEF Abstract!Refusal, Abstract!BoardNext, Atomic
<1>6. CASE a # "done"
    <2>1. Replies' = Replies
        BY <1>1, <1>2, <1>3, <1>6, RepliesKept DEF CalmStep, Lock
    <2> QED
        BY <1>2, <1>4, <2>1 DEF Atomic
<1> QED
    BY <1>5, <1>6

LEMMA UnlockAtomic ==
    ASSUME CalmStep, NEW c \in Callers, Unlock(c)
    PROVE  Atomic
<1>1. /\ at[c] = "release" /\ at' = [at EXCEPT ![c] = "done"]
      /\ UNCHANGED <<file, job, local, reply>>
    BY DEF Unlock, Release, Goto, bodyVars
<1>2. Documents' = Documents /\ Replies' = Replies
    BY <1>1, OutsideKept, RepliesKept DEF CalmStep
<1> QED
    BY <1>1, <1>2 DEF Atomic

LEMMA KilledAtomic ==
    ASSUME CalmStep, NEW c \in Callers, Killed(c)
    PROVE  Atomic
<1>1. /\ at[c] \in {"body", "release"} /\ at' = [at EXCEPT ![c] = "dead"]
      /\ local' = [local EXCEPT ![c] = Start] /\ UNCHANGED <<file, job, reply>>
    BY DEF Killed, Die, Goto
<1>2. /\ local'[c] = Start /\ ~Writing(local'[c]) /\ \A d \in Callers : d # c => local'[d] = local[d]
      /\ job[c] # None
    BY <1>1 DEF CalmStep, AllPlaced, Placed, Start, Writing
<1>3. CASE ~Writing(local[c])
    <2>1. Documents' = Documents
        BY <1>1, <1>2, <1>3, DocumentsKept DEF CalmStep
    <2>2. CASE reply[c] = None
        <3>1. Abstract!Answered(c, Dead)
            BY <1>1, <1>2, <2>2, CrashGiven DEF CalmStep
        <3> QED
            BY <2>1, <3>1 DEF Abstract!Crashed, Abstract!BoardNext, Atomic
    <2>3. CASE reply[c] # None
        <3>1. Replies' = Replies
            BY <1>1, <2>3, RepliesKept DEF CalmStep
        <3> QED
            BY <1>1, <2>1, <3>1 DEF Atomic
    <2> QED
        BY <2>2, <2>3
<1>4. CASE Writing(local[c])
    <2>1. at[c] = "body" /\ local[c].target \in Files
        BY <1>4, WriterFacts DEF CalmStep
    <2>2. reply[c] = None
        BY <1>4, <2>1, InSection DEF CalmStep, Writing
    <2>3. PICK doc : doc = file[local[c].target]
        OBVIOUS
    <2>4. file' = [file EXCEPT ![local[c].target] = doc]
        BY <1>1, <2>3 DEF CalmStep, AllPlaced
    <2>5. /\ Documents' = [Documents EXCEPT ![local[c].target] = doc]
          /\ Documents[local[c].target] = local[c].seen
        BY <1>2, <1>4, <2>4, DocumentsChanged DEF CalmStep
    <2>6. Abstract!Answered(c, Dead)
        BY <1>1, <1>2, <2>2, CrashGiven DEF CalmStep
    <2>7. CASE local[c].step = "truncate"
        <3>1. doc = local[c].seen
            BY <2>3, <2>7 DEF CalmStep, Fresh
        <3>2. Documents' = Documents
            BY <2>5, <3>1 DEF CalmStep, DocumentsKnown
        <3> QED
            BY <2>6, <3>2 DEF Abstract!Crashed, Abstract!BoardNext, Atomic
    <2>8. CASE local[c].step = "write"
        <3>1. doc = Torn
            BY <2>3, <2>8 DEF CalmStep, Fresh
        <3>2. local[c].target \in Abstract!Files
            BY <2>1 DEF Files, Board!Files, Abstract!Files
        <3>3. Abstract!Crashed(c)
            BY <2>5, <2>6, <3>1, <3>2 DEF Abstract!Crashed
        <3> QED
            BY <3>3 DEF Abstract!BoardNext, Atomic
    <2> QED
        BY <1>4, <2>7, <2>8 DEF Writing
<1> QED
    BY <1>3, <1>4

LEMMA CallAtomic ==
    ASSUME CalmStep, NEW c \in Callers, NEW j \in Offered, Call(c, j)
    PROVE  Atomic
<1>1. UNCHANGED <<file, local, at, reply>> /\ job[c] = None /\ job' = [job EXCEPT ![c] = j]
    BY DEF Call, lockVars
<1>2. Documents' = Documents /\ Replies' = Replies
    BY <1>1, OutsideKept DEF Replies
<1>3. j \in Abstract!Jobs
    BY TeamStoreAssumption DEF Board!Jobs, Abstract!Jobs, Board!Updates, Abstract!Updates,
                               Board!Statuses, Abstract!Statuses
<1>4. Abstract!Asked(c, j)
    BY <1>1, <1>2 DEF Abstract!Asked
<1> QED
    BY <1>3, <1>4 DEF Abstract!BoardNext, Atomic

LEMMA StepAtomic ==
    ASSUME StoreInv, StoreInv', [Next]_vars, overlapped' = {}, ~crossed'
    PROVE  [Abstract!BoardNext]_(Abstract!boardVars)
<1>1. Calm' /\ Calm
    <2>1. ASSUME NEW c \in Callers, Begin(c) \/ Lock(c) \/ Unlock(c) \/ Section(c) \/ Killed(c)
          PROVE  overlapped \subseteq overlapped' /\ (crossed => crossed')
        <3>1. CASE Begin(c)
            BY <3>1 DEF Begin, Ask, Decline
        <3>2. CASE Lock(c)
            BY <3>2 DEF Lock, Acquire, Exists, Stat, RemoveStale, CreateLock
        <3>3. CASE Unlock(c)
            BY <3>3 DEF Unlock, Release, bodyVars
        <3>4. CASE Section(c)
            <4>1. UNCHANGED overlapped
                BY <3>4, SectionLocks DEF lockVars, Leave
            <4>2. crossed => crossed'
                BY <3>4 DEF Section, ReadFile, ChooseId, Remove, Truncate, Write, HookEnds, ReadDir, Scan
            <4> QED
                BY <4>1, <4>2
        <3>5. CASE Killed(c)
            BY <3>5 DEF Killed, Die
        <3> QED
            BY <2>1, <3>1, <3>2, <3>3, <3>4, <3>5
    <2>2. ASSUME NEW c \in Callers, NEW j \in Offered, Call(c, j)
          PROVE  UNCHANGED <<overlapped, crossed>>
        BY <2>2 DEF Call, lockVars
    <2>3. ASSUME NEW l \in Locks, GetsOld(l) PROVE UNCHANGED <<overlapped, crossed>>
        BY <2>3 DEF GetsOld, Age, bodyVars
    <2>4. CASE UNCHANGED vars
        BY <2>4 DEF vars, lockVars, bodyVars, Calm
    <2> QED
        BY <2>1, <2>2, <2>3, <2>4 DEF Next, Calm
<1>2. CalmStep
    BY <1>1, CalmKnown, CalmKnownNext DEF CalmStep, StoreInv, LockInv, Apart, Calm
<1>3. ASSUME UNCHANGED <<at, bodyVars>> PROVE Atomic
    <2>1. UNCHANGED <<file, local, job, reply>>
        BY <1>3 DEF bodyVars
    <2>2. Documents' = Documents /\ Replies' = Replies
        BY <1>2, <1>3, <2>1, OutsideKept DEF Replies
    <2> QED
        BY <2>1, <2>2 DEF Atomic
<1>4. ASSUME NEW l \in Locks, GetsOld(l) PROVE Atomic
    BY <1>3, <1>4 DEF GetsOld, Age
<1>5. ASSUME UNCHANGED vars PROVE Atomic
    BY <1>3, <1>5 DEF vars, lockVars
<1>6. Atomic
    BY <1>2, <1>4, <1>5, BeginAtomic, LockAtomic, UnlockAtomic, SectionAtomic, KilledAtomic,
       CallAtomic DEF Next
<1> QED
    BY <1>6 DEF Atomic, Abstract!boardVars

(* The processes of a team may rely on the board: for any tasks, callers,  *)
(* jobs, retries and crashes, each step of the code that reads, truncates, *)
(* writes or removes a file of tasks.ts and messaging.ts is one atomic     *)
(* operation of the board or is hidden from it, until two calls have held  *)
(* a lock at once or a reset has crossed another call.                     *)
THEOREM TeamStoreImplementsBoard == Spec => OperationsAreAtomic
<1>1. StoreInv /\ StoreInv' /\ [Next]_vars
        => [overlapped' = {} /\ ~crossed' => [Abstract!BoardNext]_(Abstract!boardVars)]_vars
    BY StepAtomic
<1> QED
    BY <1>1, StoreInvariant, PTL DEF Spec, OperationsAreAtomic

\* The board starts as the files do.
LEMMA BoardStarts == Init => Abstract!BoardInit
<1> SUFFICES ASSUME Init PROVE Abstract!BoardInit
    OBVIOUS
<1>1. \A c \in Callers : at[c] = "idle"
    BY DEF Init, LockInit
<1>2. ASSUME NEW f \in Files PROVE Documents[f] = file[f]
    <2>1. {c \in Callers : In(c, "write") /\ local[c].target = f} = {}
        BY <1>1 DEF In
    <2> QED
        BY <2>1 DEF Documents
<1>3. Documents = [f \in Files |-> file[f]]
    BY <1>2 DEF Documents
<1>4. Board!NewTask \in Abstract!Tasks
    BY DEF Board!NewTask, Abstract!Tasks, Abstract!Statuses
<1>5. Documents \in [Abstract!Files -> Abstract!Tasks \cup {Absent}]
    BY <1>3, <1>4 DEF Init, Files, Board!Files, Abstract!Files
<1>6. Replies = [c \in Callers |-> None]
    BY <1>1 DEF Init, Replies
<1> QED
    BY <1>5, <1>6 DEF Abstract!BoardInit, Init

-----------------------------------------------------------------------------
(* The types of the documents.                                             *)

DocOK(f, doc) ==
    \/ doc \in {Absent, Torn}
    \/ IF f = Inbox THEN doc \in Seq(Board!Messages) ELSE doc \in Board!Tasks

DataOK ==
    /\ \A f \in Files : DocOK(f, file[f])
    /\ \A c \in Callers : Writing(local[c]) => DocOK(local[c].target, local[c].seen)

LEMMA EffectTyped ==
    ASSUME NEW c \in Callers, NEW j \in Offered, NEW l, Ready(c, j, l), DocOK(l.target, l.seen)
    PROVE  DocOK(l.target, Board!Effect(c, j, l.seen))
<1>1. l.target \in TaskIds \/ l.target = Inbox
    BY DEF Ready, Files, Board!Files
<1>2. j \in Board!Jobs
    BY TeamStoreAssumption
<1>3. CASE j.op = "create"
    BY <1>3, TeamStoreAssumption DEF Ready, Board!Effect, Board!NewTask, DocOK, Board!Tasks, Board!Statuses
<1>4. CASE j.op = "reset"
    <2>1. l.seen \in Board!Tasks /\ l.target # Inbox
        BY <1>4, TeamStoreAssumption DEF Ready, DocOK
    <2> QED
        BY <1>4, <2>1 DEF Board!Effect, DocOK, Board!Tasks, Board!Statuses
<1>5. CASE j.op \in {"append", "receive"}
    <2>1. l.target = Inbox /\ l.seen # Torn
        BY <1>2, <1>5, DirJobs DEF Ready, Board!Throws
    <2>2. CASE j.op = "append"
        <3>1. PICK m : m = [from |-> c, read |-> FALSE]
            OBVIOUS
        <3>2. m \in Board!Messages
            BY <3>1 DEF Board!Messages
        <3>3. PICK doc : doc = IF l.seen = Absent THEN <<>> ELSE l.seen
            OBVIOUS
        <3>4. doc \in Seq(Board!Messages)
            BY <2>1, <3>3 DEF DocOK
        <3>5. Board!Effect(c, j, l.seen) = Append(doc, m)
            BY <2>2, <3>1, <3>3 DEF Board!Effect
        <3> QED
            BY <2>1, <3>2, <3>4, <3>5 DEF DocOK
    <2>3. CASE j.op = "receive"
        <3>1. l.seen # Absent
            BY <2>3 DEF Ready, Board!Reply
        <3>2. l.seen \in Seq(Board!Messages)
            BY <2>1, <3>1 DEF DocOK
        <3>3. Board!Effect(c, j, l.seen) = [i \in DOMAIN l.seen |-> [l.seen[i] EXCEPT !.read = TRUE]]
            BY <2>3 DEF Board!Effect
        <3>4. ASSUME NEW i \in DOMAIN l.seen PROVE [l.seen[i] EXCEPT !.read = TRUE] \in Board!Messages
            <4>1. PICK m : m = l.seen[i]
                OBVIOUS
            <4>2. m \in Board!Messages
                BY <3>2, <4>1
            <4>3. [m EXCEPT !.read = TRUE] \in Board!Messages
                BY <4>2 DEF Board!Messages
            <4> QED
                BY <4>1, <4>3
        <3>5. Len(l.seen) \in Nat /\ DOMAIN l.seen = 1..Len(l.seen)
            BY <3>2
        <3>6. Board!Effect(c, j, l.seen) \in Seq(Board!Messages)
            BY <3>3, <3>4, <3>5
        <3> QED
            BY <2>1, <3>6 DEF DocOK
    <2> QED
        BY <1>5, <2>2, <2>3
<1>6. CASE j.op \notin {"create", "reset", "append", "receive"}
    <2>1. /\ l.target = j.file /\ ~Board!Throws(j, l.seen)
          /\ j.op \in {"update", "submit", "approve", "reject"}
        BY <1>2, <1>6 DEF Ready, Board!Jobs
    <2>2. l.target \in TaskIds /\ l.target # Inbox
        BY <2>1, DirJobs, TeamStoreAssumption
    <2>3. l.seen \in Board!Tasks
        BY <2>1, <2>2 DEF DocOK, Board!Throws
    <2>4. CASE j.op = "update"
        <3>1. j.to \in Board!Updates
            BY <1>2, <2>4 DEF Board!Jobs
        <3>2. Board!Merge(l.seen, j.to) \in Board!Tasks
            BY <2>3, <3>1 DEF Board!Merge, Board!Updates, Board!Tasks, Board!Statuses
        <3> QED
            BY <2>2, <2>4, <3>2 DEF Board!Effect, DocOK
    <2>5. CASE j.op # "update"
        <3>1. Board!Effect(c, j, l.seen) \in Board!Tasks
            BY <2>1, <2>3, <2>5 DEF Board!Effect, Board!Tasks, Board!Statuses
        <3> QED
            BY <2>2, <3>1 DEF DocOK
    <2> QED
        BY <2>4, <2>5
<1> QED
    BY <1>3, <1>4, <1>5, <1>6

\* A section keeps the types: what it will write over it has read.
LEMMA DataKept ==
    ASSUME DataOK, AllPlaced, LockTypeOK, NEW c \in Callers, NEW a, NEW m, NEW r, Moves(c, a, m, r),
           Writing(m) => DocOK(m.target, m.seen),
           \/ file' = file
           \/ Writing(local[c]) /\ \E doc : /\ DocOK(local[c].target, doc)
                                            /\ file' = [file EXCEPT ![local[c].target] = doc]
    PROVE  DataOK'
<1>1. local'[c] = m /\ \A d \in Callers : d # c => local'[d] = local[d]
    BY MovesFacts
<1>2. \A d \in Callers : Writing(local'[d]) => DocOK(local'[d].target, local'[d].seen)
    BY <1>1 DEF DataOK
<1>3. \A f \in Files : DocOK(f, file'[f])
    BY DEF DataOK, AllPlaced
<1> QED
    BY <1>2, <1>3 DEF DataOK

LEMMA SectionData ==
    ASSUME DataOK, AllPlaced, LockTypeOK, JobsTyped, NEW c \in Callers, Section(c)
    PROVE  DataOK'
<1> DEFINE j == job[c]
           l == local[c]
<1>0. at[c] = "body"
    BY DEF Section, ReadFile, ChooseId, Remove, Truncate, Write, HookEnds, ReadDir, Scan, In
<1>1. UNCHANGED job
    BY SectionLocks
<1>2. ASSUME NEW r, Return(c, r),
             \/ file' = file
             \/ Writing(l) /\ \E doc : /\ DocOK(l.target, doc)
                                       /\ file' = [file EXCEPT ![l.target] = doc]
      PROVE  DataOK'
    <2>1. Moves(c, "release", Start, r) /\ ~Writing(Start)
        BY <1>1, <1>2, ReturnMoves DEF Start, Writing
    <2> QED
        BY <1>2, <2>1, DataKept
<1>3. ASSUME NEW f \in Files, NEW doc, NEW rest, Prepare(c, f, doc, rest), file' = file, DocOK(f, doc)
      PROVE  DataOK'
    <2>1. PICK m : m = PrepareLocal(f, doc, rest)
        OBVIOUS
    <2>2. Moves(c, "body", m, reply[c]) /\ m.target = f /\ m.seen = doc
        BY <1>0, <1>1, <1>3, <2>1, PrepareMoves DEF PrepareLocal
    <2> QED
        BY <1>3, <2>2, DataKept
<1>4. CASE ReadFile(c)
    BY <1>2, <1>3, <1>4 DEF ReadFile, DataOK
<1>5. CASE ChooseId(c)
    BY <1>3, <1>5 DEF ChooseId, DocOK, Files, Board!Files
<1>6. CASE Remove(c)
    <2>1. Writing(l) /\ DocOK(l.target, Absent) /\ file' = [file EXCEPT ![l.target] = Absent]
        BY <1>6 DEF Remove, In, Writing, DocOK
    <2> QED
        BY <1>2, <1>6, <2>1 DEF Remove
<1>7. CASE Truncate(c)
    <2>1. PICK m : m = WithStep(l, "write")
        OBVIOUS
    <2>2. Writing(l) /\ file' = [file EXCEPT ![l.target] = Torn] /\ DocOK(l.target, Torn)
        BY <1>7 DEF Truncate, In, Writing, DocOK
    <2>3. local' = [local EXCEPT ![c] = m] /\ UNCHANGED <<lockVars, job, reply>>
        BY <1>1, <1>7, <2>1, StepIs DEF Truncate, Becomes
    <2>4. Moves(c, "body", m, reply[c])
        BY <1>0, <2>3, StayMoves
    <2>5. m.target = l.target /\ m.seen = l.seen /\ DocOK(l.target, l.seen)
        BY <2>1, <2>2 DEF WithStep, DataOK
    <2> QED
        BY <2>2, <2>4, <2>5, DataKept
<1>8. CASE Write(c)
    <2>1. PICK doc : doc = Board!Effect(c, j, l.seen)
        OBVIOUS
    <2>2. Writing(l) /\ file' = [file EXCEPT ![l.target] = doc]
        BY <1>8, <2>1 DEF Write, In, Writing
    <2>3. DocOK(l.target, doc)
        BY <2>1, <2>2, WriterFacts, EffectTyped DEF DataOK
    <2>4. CASE \E r : Return(c, r)
        BY <1>2, <2>2, <2>3, <2>4
    <2>5. CASE \E where \in {"scan", "hook"} : \E r : Becomes(c, where) /\ reply' = [reply EXCEPT ![c] = r]
        <3>1. PICK where, r : /\ where \in {"scan", "hook"} /\ Becomes(c, where)
                              /\ reply' = [reply EXCEPT ![c] = r]
            BY <2>5
        <3>2. PICK m : m = WithStep(l, where)
            OBVIOUS
        <3>3. Moves(c, "body", m, r)
            BY <1>0, <1>1, <3>1, <3>2, StepIs DEF Becomes, Moves, lockVars, LockTypeOK
        <3>4. ~Writing(m)
            BY <3>1, <3>2 DEF WithStep, Writing
        <3> QED
            BY <2>2, <2>3, <3>3, <3>4, DataKept
    <2>6. UNCHANGED reply => reply' = [reply EXCEPT ![c] = reply[c]]
        BY DEF AllPlaced
    <2> QED
        BY <1>8, <2>4, <2>5, <2>6 DEF Write
<1>9. CASE HookEnds(c)
    BY <1>2, <1>9 DEF HookEnds
<1>10. ASSUME NEW m, local' = [local EXCEPT ![c] = m], UNCHANGED <<lockVars, reply, file>>, ~Writing(m)
       PROVE  DataOK'
    <2>1. Moves(c, "body", m, reply[c])
        BY <1>0, <1>1, <1>10, StayMoves
    <2> QED
        BY <1>10, <2>1, DataKept
<1>11. CASE ReadDir(c)
    <2>1. ~Writing(WithTodo(l, "scan", Existing))
        BY DEF WithTodo, Writing
    <2> QED
        BY <1>10, <1>11, <2>1, TodoAndStepIs DEF ReadDir
<1>12. CASE Scan(c)
    <2>0. l.step = "scan" /\ file' = file /\ l.todo \subseteq Files
        BY <1>12 DEF Scan, In, AllPlaced, Placed, Files, Board!Files
    <2>1. CASE \E r : Return(c, r)
        BY <1>2, <2>0, <2>1
    <2>2. CASE \E id \in l.todo : Prepare(c, id, file[id], l.todo \ {id})
        BY <1>3, <2>0, <2>2 DEF DataOK
    <2>3. CASE \E id \in l.todo : /\ local' = [local EXCEPT ![c].todo = l.todo \ {id}]
                                  /\ UNCHANGED <<lockVars, reply>>
        <3>1. PICK id \in l.todo : /\ local' = [local EXCEPT ![c].todo = l.todo \ {id}]
                                   /\ UNCHANGED <<lockVars, reply>>
            BY <2>3
        <3>2. local' = [local EXCEPT ![c] = WithTodo(l, "scan", l.todo \ {id})]
            BY <2>0, <3>1, TodoIs
        <3>3. ~Writing(WithTodo(l, "scan", l.todo \ {id}))
            BY DEF WithTodo, Writing
        <3> QED
            BY <1>10, <2>0, <3>1, <3>2, <3>3
    <2> QED
        BY <1>12, <2>1, <2>2, <2>3 DEF Scan
<1> QED
    BY <1>4, <1>5, <1>6, <1>7, <1>8, <1>9, <1>11, <1>12 DEF Section

LEMMA StepData ==
    ASSUME StoreInv, DataOK, [Next]_vars
    PROVE  DataOK'
<1>1. LockTypeOK /\ JobsTyped /\ AllPlaced
    BY DEF StoreInv, LockInv
<1>2. ASSUME NEW c \in Callers, Section(c) PROVE DataOK'
    BY <1>1, <1>2, SectionData
<1>3. ASSUME UNCHANGED <<file, local>> PROVE DataOK'
    BY <1>3 DEF DataOK
<1>4. ASSUME NEW c \in Callers, Killed(c) PROVE DataOK'
    <2>1. /\ UNCHANGED file
          /\ \A d \in Callers : local'[d] = IF d = c THEN Start ELSE local[d]
        BY <1>1, <1>4 DEF Killed, AllPlaced
    <2>2. ~Writing(Start)
        BY DEF Start, Writing
    <2> QED
        BY <2>1, <2>2 DEF DataOK
<1>5. ASSUME NEW c \in Callers, Begin(c) \/ Lock(c) \/ Unlock(c) PROVE DataOK'
    BY <1>3, <1>5 DEF Begin, Lock, Unlock, bodyVars
<1>6. ASSUME NEW c \in Callers, NEW j \in Offered, Call(c, j) PROVE DataOK'
    BY <1>3, <1>6 DEF Call
<1>7. ASSUME NEW l \in Locks, GetsOld(l) PROVE DataOK'
    BY <1>3, <1>7 DEF GetsOld, bodyVars
<1>8. CASE UNCHANGED vars
    BY <1>3, <1>8 DEF vars, bodyVars
<1> QED
    BY <1>2, <1>4, <1>5, <1>6, <1>7, <1>8 DEF Next

LEMMA TypesFollow == StoreInv /\ DataOK => TypeOK
<1> SUFFICES ASSUME StoreInv, DataOK PROVE TypeOK
    OBVIOUS
<1>1. LockTypeOK /\ JobsTyped /\ AllPlaced
    BY DEF StoreInv, LockInv
<1>2. \A id \in TaskIds : file[id] \in {Absent, Torn} \/ file[id] \in Board!Tasks
    BY TeamStoreAssumption DEF DataOK, DocOK, Files, Board!Files
<1>3. file[Inbox] \in {Absent, Torn} \/ file[Inbox] \in Seq(Board!Messages)
    BY DEF DataOK, DocOK, Files, Board!Files
<1>4. file[Inbox] \in Seq(Board!Messages)
        => \A i \in DOMAIN file[Inbox] : file[Inbox][i] \in Board!Messages
    OBVIOUS
<1>5. ASSUME NEW c \in Callers
      PROVE  /\ local[c].step \in {"start", "truncate", "write", "hook", "scan"}
             /\ local[c].step \in {"truncate", "write"} => local[c].target \in Files
             /\ local[c].step # "start" => at[c] = "body"
             /\ local[c].todo \subseteq TaskIds
    BY <1>1 DEF AllPlaced, Placed, Steps, Start, Ready
<1> QED
    BY <1>1, <1>2, <1>3, <1>4, <1>5 DEF TypeOK, JobsTyped, AllPlaced

(* Types, for any tasks, callers, jobs and retries: every file that is     *)
(* JSON is a task or an inbox, and who writes has a file to write.         *)
THEOREM StoreTypes == Spec => []TypeOK
<1>1. Init => DataOK
    <2> SUFFICES ASSUME Init PROVE DataOK
        OBVIOUS
    <2>1. \A c \in Callers : ~Writing(local[c])
        BY DEF Init, Start, Writing
    <2>2. Board!NewTask \in Board!Tasks
        BY DEF Board!NewTask, Board!Tasks, Board!Statuses
    <2>3. Inbox # 1
        BY TeamStoreAssumption
    <2>4. \A f \in Files : DocOK(f, file[f])
        BY <2>2, <2>3 DEF Init, DocOK, Files, Board!Files
    <2> QED
        BY <2>1, <2>4 DEF DataOK
<1>2. StoreInv /\ DataOK /\ [Next]_vars => DataOK'
    BY StepData
<1> QED
    BY <1>1, <1>2, StoreInvariant, TypesFollow, PTL DEF Spec
=============================================================================
