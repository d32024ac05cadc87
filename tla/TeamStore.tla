----------------------------- MODULE TeamStore ------------------------------
(***************************************************************************)
(* The files the processes of a team share: the tasks (tasks.ts), and an   *)
(* inbox (messaging.ts), in packages/pi-teams/src/utils.  Each operation   *)
(* takes a lock of module FileLock and reads and rewrites JSON files: a    *)
(* change of one task takes the lock of its file, creating, listing and    *)
(* resetting tasks the lock of the directory.                              *)
(*                                                                         *)
(* writeFileSync truncates the file and then writes it: in between another *)
(* process that reads it finds no JSON, and a crash leaves it so.          *)
(***************************************************************************)
EXTENDS FileLock, FiniteSetsExt

CONSTANTS TaskIds,
          Inbox, Dir,   \* the other two paths
          Absent, Torn, Dead, Ok, Refused,
          Offered,      \* bound: the jobs the processes ask for
          MaxDeaths,    \* bound: processes killed
          Crowd         \* bound: calls under way at once

VARIABLES
    file,       \* the content of each file
    job,        \* the operation of each call
    local,      \* its section: the step, the file it works on, what it has read
                \* there, and the files of readdirSync it has not come to
    reply,      \* what the call returns, once that is settled
    crossed     \* history: a reset has rewritten a task whose own lock was held

Board == INSTANCE TaskBoard WITH docs <- file

Files == Board!Files

ASSUME TeamStoreAssumption ==
    /\ Callers = 1..Cardinality(Callers) /\ TaskIds = 1..Cardinality(TaskIds)
    /\ Locks = Files \cup {Dir}
    /\ {Inbox, Dir} \cap TaskIds = {} /\ Inbox # Dir
    /\ IsFiniteSet(TaskIds) /\ 1 \in TaskIds /\ Absent # Torn
    /\ Offered \subseteq Board!Jobs /\ None \notin Offered
    /\ MaxDeaths \in Nat

bodyVars == <<file, job, local, reply, crossed>>
vars == <<lockVars, bodyVars>>

Existing == {id \in TaskIds : file[id] # Absent}

\* getTaskId
NextId == IF Existing = {} THEN 1 ELSE Max(Existing) + 1

Start == [step |-> "start", target |-> None, seen |-> Absent, todo |-> {}]

Init ==
    /\ LockInit
    /\ file = [f \in Files |-> IF f = 1 THEN Board!NewTask ELSE Absent]
    /\ job = [c \in Callers |-> None] /\ reply = [c \in Callers |-> None]
    /\ local = [c \in Callers |-> Start]
    /\ crossed = FALSE

-----------------------------------------------------------------------------
In(c, where) == at[c] = "body" /\ local[c].step = where
Becomes(c, where) == local' = [local EXCEPT ![c].step = where] /\ UNCHANGED lockVars

\* A reset is about to rewrite a task while another call holds the task's lock.
Crossing ==
    \E c \in Callers : /\ In(c, "truncate") \/ In(c, "write")
                       /\ job[c].op = "reset" /\ Holders(local[c].target) # {}

\* The section ends with an answer, and what it knew is forgotten.
Return(c, r) ==
    /\ Leave(c) /\ reply' = [reply EXCEPT ![c] = r]
    /\ local' = [local EXCEPT ![c] = Start]

\* File f is to be rewritten: it held doc.
Prepare(c, f, doc, rest) ==
    /\ local' = [local EXCEPT ![c] = [step |-> "truncate", target |-> f, seen |-> doc, todo |-> rest]]
    /\ UNCHANGED <<lockVars, reply>>

-----------------------------------------------------------------------------
(* The call, up to the section.                                            *)

\* Bound: a task that is created has an id in TaskIds.
MayCreate ==
    Cardinality({c \in Callers : job[c] # None /\ job[c].op = "create"})
        < Cardinality(TaskIds) - 1

UnderWay == {c \in Callers : job[c] # None /\ at[c] \notin {"done", "dead"}}

\* Calls are numbered in the order in which they are made.
Call(c, j) ==
    /\ job[c] = None /\ job' = [job EXCEPT ![c] = j]
    /\ \A d \in Callers : d < c => job[d] # None
    /\ j.op = "create" => MayCreate
    /\ Cardinality(UnderWay) < Crowd
    /\ UNCHANGED <<lockVars, file, local, reply, crossed>>

\* Mutant of Begin: a plan is evaluated under the lock of the directory.
BeginEvaluateByDir(c) ==
    /\ job[c] # None
    /\ IF job[c].op \in {"read", "receive"} /\ file[job[c].file] = Absent
       THEN /\ Decline(c)
            /\ reply' = [reply EXCEPT ![c] = IF job[c].op = "receive" THEN <<>> ELSE Refused]
       ELSE Ask(c, IF job[c].op = "approve" THEN Dir ELSE job[c].file) /\ UNCHANGED reply
    /\ UNCHANGED <<file, job, local, crossed>>

\* readTask() and readInbox() look for the file before they ask for its lock.
Begin(c) ==
    /\ job[c] # None
    /\ LET j == job[c] IN
        IF j.op \in {"read", "receive"} /\ file[j.file] = Absent
        THEN /\ Decline(c)
             /\ reply' = [reply EXCEPT ![c] = IF j.op = "receive" THEN <<>> ELSE Refused]
        ELSE Ask(c, j.file) /\ UNCHANGED reply
    /\ UNCHANGED <<file, job, local, crossed>>

\* The last retry has failed: "Could not acquire lock".
Lock(c) ==
    /\ Acquire(c)
    /\ reply' = IF at'[c] = "done" THEN [reply EXCEPT ![c] = Refused] ELSE reply
    /\ UNCHANGED <<file, job, local>> /\ crossed' = (crossed \/ Crossing')

Unlock(c) == Release(c) /\ UNCHANGED bodyVars

-----------------------------------------------------------------------------
(* The section.                                                            *)

\* Mutant of ReadFile: an exception leaves withLock() without its finally.
ReadFileNoFinally(c) ==
    /\ In(c, "start") /\ job[c].file \in Files
    /\ LET j == job[c]
           doc == file[j.file]
       IN  IF Board!Throws(j, doc)
           THEN /\ Goto(c, "done") /\ reply' = [reply EXCEPT ![c] = Refused]
                /\ UNCHANGED <<lockFile, stale, path, left, aged, overlapped, local>>
           ELSE Prepare(c, j.file, doc, {})
    /\ UNCHANGED <<file, job, crossed>>

\* The file is read and parsed, and the operation's checks are made.
ReadFile(c) ==
    /\ In(c, "start") /\ job[c].file \in Files
    /\ LET j == job[c]
           doc == file[j.file]
           answer == Board!Reply(c, j, doc)
       IN  IF Board!Throws(j, doc) THEN Return(c, Refused)
           ELSE IF j.op = "read" \/ (j.op = "receive" /\ answer = <<>>) THEN Return(c, answer)
           ELSE Prepare(c, j.file, doc, {})
    /\ UNCHANGED <<file, job, crossed>>

\* createTask: the id is the greatest one that a file has, plus one.
ChooseId(c) ==
    /\ In(c, "start") /\ job[c].op = "create"
    /\ NextId \in TaskIds \* as MayCreate sees to
    /\ Prepare(c, NextId, Absent, {})
    /\ UNCHANGED <<file, job, crossed>>

\* A deleted task's file goes in one step.
Remove(c) ==
    /\ In(c, "truncate") /\ Board!Deletes(job[c])
    /\ LET id == local[c].target IN
        /\ file' = [file EXCEPT ![id] = Absent]
        /\ Return(c, IF file[id] = Absent THEN Refused
                     ELSE Board!Reply(c, job[c], local[c].seen))
    /\ UNCHANGED <<job, crossed>>

Truncate(c) ==
    /\ In(c, "truncate") /\ ~Board!Deletes(job[c])
    /\ file' = [file EXCEPT ![local[c].target] = Torn] /\ Becomes(c, "write")
    /\ UNCHANGED <<job, reply, crossed>>

\* The new content; a completed task runs its hook, a reset goes on.
Write(c) ==
    /\ In(c, "write")
    /\ LET j == job[c]
           doc == local[c].seen
           answer == Board!Reply(c, j, doc)
       IN  /\ file' = [file EXCEPT ![local[c].target] = Board!Effect(c, j, doc)]
           /\ IF j.op = "reset" THEN Becomes(c, "scan") /\ UNCHANGED reply
              ELSE IF Board!Completes(j)
              THEN Becomes(c, "hook") /\ reply' = [reply EXCEPT ![c] = answer]
              ELSE Return(c, answer)
    /\ UNCHANGED <<job, crossed>>

\* The script task_completed.sh has ended; withLock() has awaited it.
HookEnds(c) ==
    /\ In(c, "hook") /\ Return(c, reply[c])
    /\ UNCHANGED <<file, job, crossed>>

\* listTasks and resetOwnerTasks: the names of the files.
ReadDir(c) ==
    /\ In(c, "start") /\ job[c].op \in {"list", "reset"}
    /\ local' = [local EXCEPT ![c].todo = Existing, ![c].step = "scan"]
    /\ UNCHANGED <<lockVars, file, job, reply, crossed>>

\* The next file is read; what is not JSON, or has gone, throws.
Scan(c) ==
    /\ In(c, "scan")
    /\ LET todo == local[c].todo IN
       \/ todo = {} /\ Return(c, Ok)
       \/ \E id \in todo : file[id] \in {Absent, Torn} /\ Return(c, Refused)
       \/ \E id \in todo :
            /\ file[id] \notin {Absent, Torn}
            /\ IF job[c].op = "reset" /\ file[id].owned
               THEN Prepare(c, id, file[id], todo \ {id})
               ELSE /\ local' = [local EXCEPT ![c].todo = todo \ {id}]
                    /\ UNCHANGED <<lockVars, reply>>
    /\ UNCHANGED <<file, job>> /\ crossed' = (crossed \/ Crossing')

Section(c) ==
    \/ ReadFile(c) \/ ChooseId(c) \/ Remove(c) \/ Truncate(c) \/ Write(c) \/ HookEnds(c)
    \/ ReadDir(c) \/ Scan(c)

-----------------------------------------------------------------------------
(* Time and crashes.  Only a hook makes a section last: all else in it is  *)
(* synchronous.                                                            *)

GetsOld(l) ==
    /\ Age(l) /\ (at[lockFile[l]] = "dead" \/ In(lockFile[l], "hook"))
    /\ UNCHANGED bodyVars

\* A process that is killed elsewhere leaves nothing behind.
Killed(c) ==
    /\ at[c] \in {"body", "release"} /\ Die(c)
    /\ Cardinality({d \in Callers : at[d] = "dead"}) < MaxDeaths
    /\ local' = [local EXCEPT ![c] = Start]
    /\ UNCHANGED <<file, job, reply, crossed>>

Next ==
    \/ \E c \in Callers : Begin(c) \/ Lock(c) \/ Unlock(c) \/ Section(c) \/ Killed(c)
    \/ \E c \in Callers, j \in Offered : Call(c, j)
    \/ \E l \in Locks : GetsOld(l)

Spec == Init /\ [][Next]_vars

-----------------------------------------------------------------------------
(* Properties.                                                             *)

\* Types: the values; what is in a section has a target once it writes.
TypeOK ==
    /\ LockTypeOK
    /\ \A id \in TaskIds : file[id] \in {Absent, Torn} \/ file[id] \in Board!Tasks
    /\ file[Inbox] \in {Absent, Torn} \/ \A i \in DOMAIN file[Inbox] :
                                            file[Inbox][i] \in Board!Messages
    /\ job \in [Callers -> Offered \cup {None}]
    /\ \A c \in Callers :
        /\ local[c].step \in {"start", "truncate", "write", "hook", "scan"}
        /\ local[c].step \in {"truncate", "write"} => local[c].target \in Files
        /\ local[c].step # "start" => at[c] = "body"
        /\ local[c].todo \subseteq TaskIds
    /\ crossed \in BOOLEAN

\* A document is what it was until what replaces it is written.
Documents ==
    [f \in Files |->
        LET W == {c \in Callers : In(c, "write") /\ local[c].target = f}
        IN  IF W = {} THEN file[f] ELSE local[CHOOSE c \in W : TRUE].seen]

Replies == [c \in Callers |-> IF reply[c] = None /\ at[c] = "dead" THEN Dead ELSE reply[c]]

Abstract == INSTANCE TaskBoard WITH docs <- Documents, reply <- Replies

(* The operations are atomic: whatever the order of their steps, each one  *)
(* refuses or has its effect on the document as it is at one moment, and   *)
(* answers accordingly; no change is lost, no task is created over another *)
(* and a document is torn only by a crash.  That is so as long as no two   *)
(* calls have held one lock at once and no reset has crossed another call: *)
(* resetOwnerTasks() holds the lock of the directory, not of the file.     *)
OperationsAreAtomic ==
    [][overlapped' = {} /\ ~crossed' => [Abstract!BoardNext]_(Abstract!boardVars)]_vars
=============================================================================
