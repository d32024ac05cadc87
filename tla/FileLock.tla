------------------------------ MODULE FileLock ------------------------------
(***************************************************************************)
(* withLock() (packages/pi-teams/src/utils/lock.ts): mutual exclusion      *)
(* between the processes of a team by lock files.  A caller that finds a   *)
(* lock file older than STALE_LOCK_TIMEOUT removes it, creates its own with *)
(* the flag wx, and tries again after 100 ms when any of this fails.       *)
(*                                                                         *)
(* Every caller is a process of its own, so one action is one system call. *)
(* What runs under the lock belongs to the module that uses this one.      *)
(***************************************************************************)
EXTENDS Naturals, FiniteSets

CONSTANTS Callers,      \* calls of withLock(), each by another process
          Locks,        \* the lock paths
          None,
          MaxRetries    \* the parameter retries

ASSUME FileLockAssumption == None \notin Callers \cup Locks /\ MaxRetries \in Nat \ {0}

VARIABLES
    lockFile,   \* the caller whose lock file is there, or None
    stale,      \* the lock file is older than STALE_LOCK_TIMEOUT
    at,         \* where each call is
    path,       \* the lock it asks for
    left,       \* its retries left
    aged,       \* history: the locks that have had a stale file
    overlapped  \* history: the locks that two callers have held at once

lockVars == <<lockFile, stale, at, path, left, aged, overlapped>>

Ats == {"idle", "exists", "stat", "remove", "create", "body", "release", "done", "dead"}

LockInit ==
    /\ lockFile = [l \in Locks |-> None] /\ stale = [l \in Locks |-> FALSE]
    /\ at = [c \in Callers |-> "idle"] /\ path = [c \in Callers |-> None]
    /\ left = [c \in Callers |-> MaxRetries]
    /\ aged = {} /\ overlapped = {}

-----------------------------------------------------------------------------
Goto(c, where) == at' = [at EXCEPT ![c] = where]

\* Who is in the section of lock l, or on the way out of it.
Holders(l) == {c \in Callers : path[c] = l /\ at[c] \in {"body", "release"}}

\* unlinkSync: the file goes, whoever made it.
Unlink(l) == lockFile' = [lockFile EXCEPT ![l] = None] /\ stale' = [stale EXCEPT ![l] = FALSE]

\* Mutant of Retry: the loop runs while retries >= 0.
RetryOnceMore(c) ==
    /\ left' = [left EXCEPT ![c] = @ - 1]
    /\ Goto(c, IF left[c] = 0 THEN "done" ELSE "exists")

\* An exception in the loop: one retry less, the last one throws.
Retry(c) ==
    /\ left' = [left EXCEPT ![c] = @ - 1]
    /\ Goto(c, IF left[c] = 1 THEN "done" ELSE "exists")

-----------------------------------------------------------------------------
Ask(c, l) ==
    /\ at[c] = "idle" /\ Goto(c, "exists")
    /\ path' = [path EXCEPT ![c] = l]
    /\ UNCHANGED <<lockFile, stale, left, aged, overlapped>>

\* A caller that finds it has nothing to do asks for no lock.
Decline(c) ==
    /\ at[c] = "idle" /\ Goto(c, "done")
    /\ UNCHANGED <<lockFile, stale, path, left, aged, overlapped>>

\* existsSync
Exists(c) ==
    /\ at[c] = "exists" /\ Goto(c, IF lockFile[path[c]] = None THEN "create" ELSE "stat")
    /\ UNCHANGED <<lockFile, stale, path, left, aged, overlapped>>

\* Mutant of Stat: a lock file is stale whatever its age.
StatAlwaysStale(c) ==
    /\ at[c] = "stat"
    /\ IF lockFile[path[c]] = None THEN Retry(c) ELSE Goto(c, "remove") /\ UNCHANGED left
    /\ UNCHANGED <<lockFile, stale, path, aged, overlapped>>

\* statSync throws when the file has gone; otherwise its age decides.
Stat(c) ==
    /\ at[c] = "stat"
    /\ IF lockFile[path[c]] = None THEN Retry(c)
       ELSE /\ Goto(c, IF stale[path[c]] THEN "remove" ELSE "create")
            /\ UNCHANGED left
    /\ UNCHANGED <<lockFile, stale, path, aged, overlapped>>

\* The stale file is removed, or what has taken its place since.
RemoveStale(c) ==
    /\ at[c] = "remove" /\ Goto(c, "create")
    /\ Unlink(path[c])
    /\ UNCHANGED <<path, left, aged, overlapped>>

\* writeFileSync with the flag wx
CreateLock(c) ==
    /\ at[c] = "create"
    /\ IF lockFile[path[c]] = None
       THEN /\ lockFile' = [lockFile EXCEPT ![path[c]] = c]
            /\ overlapped' = IF Holders(path[c]) = {} THEN overlapped
                             ELSE overlapped \cup {path[c]}
            /\ Goto(c, "body") /\ UNCHANGED left
       ELSE Retry(c) /\ UNCHANGED <<lockFile, overlapped>>
    /\ UNCHANGED <<stale, path, aged>>

\* fn() has returned or thrown.
Leave(c) ==
    /\ at[c] = "body" /\ Goto(c, "release")
    /\ UNCHANGED <<lockFile, stale, path, left, aged, overlapped>>

\* finally: the lock file goes, be it still the caller's or not.
Release(c) ==
    /\ at[c] = "release" /\ Goto(c, "done")
    /\ Unlink(path[c])
    /\ UNCHANGED <<path, left, aged, overlapped>>

\* 30 seconds pass.
Age(l) ==
    /\ lockFile[l] # None /\ ~stale[l]
    /\ stale' = [stale EXCEPT ![l] = TRUE] /\ aged' = aged \cup {l}
    /\ UNCHANGED <<lockFile, at, path, left, overlapped>>

\* The process is killed.
Die(c) ==
    /\ at[c] \notin {"idle", "done", "dead"} /\ Goto(c, "dead")
    /\ UNCHANGED <<lockFile, stale, path, left, aged, overlapped>>

Acquire(c) == Exists(c) \/ Stat(c) \/ RemoveStale(c) \/ CreateLock(c)

LockNext ==
    \/ \E c \in Callers : Acquire(c) \/ Leave(c) \/ Release(c) \/ Die(c) \/ Decline(c)
    \/ \E c \in Callers, l \in Locks : Ask(c, l)
    \/ \E l \in Locks : Age(l)

LockSpec == LockInit /\ [][LockNext]_lockVars

-----------------------------------------------------------------------------
\* Types: the values, and that a stale file is there and is counted.
LockTypeOK ==
    /\ lockFile \in [Locks -> Callers \cup {None}] /\ stale \in [Locks -> BOOLEAN]
    /\ at \in [Callers -> Ats] /\ path \in [Callers -> Locks \cup {None}]
    /\ \A c \in Callers : at[c] \notin {"idle", "done"} => path[c] \in Locks
    /\ left \in [Callers -> 0..MaxRetries]
    /\ \A c \in Callers : at[c] # "done" => left[c] > 0
    /\ aged \subseteq Locks /\ overlapped \subseteq Locks
    /\ \A l \in Locks : stale[l] => lockFile[l] # None /\ l \in aged

(* Mutual exclusion, as far as the lock files give it: two callers are in  *)
(* the section of one lock at once only if the lock has had a stale file.  *)
(* Then exclusion may end in two ways: the file of a holder that takes     *)
(* longer than STALE_LOCK_TIMEOUT is removed, and that holder removes its  *)
(* successor's when it is done; or two callers find the file of a dead     *)
(* process stale, and the second one removes the file the first has made.  *)
ExclusiveUntilStale ==
    /\ overlapped \subseteq aged
    /\ \A l \in Locks \ aged : Cardinality(Holders(l)) <= 1

(* A lock file was made by a call that is under way or died: no return, no *)
(* exception in fn() and no failed attempt leaves one behind, which would  *)
(* refuse everybody for STALE_LOCK_TIMEOUT.                                *)
LocksHaveOwners ==
    \A l \in Locks : lockFile[l] # None =>
        /\ path[lockFile[l]] = l
        /\ at[lockFile[l]] \in {"body", "release", "dead"}
=============================================================================
