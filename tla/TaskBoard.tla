------------------------------ MODULE TaskBoard ------------------------------
(***************************************************************************)
(* What the files of a team (packages/pi-teams/src/utils) hold, what each  *)
(* operation does to one of them, and, as a specification, what a team may *)
(* rely on: every operation happens at once, to the file as it is then.    *)
(* Module TeamStore is how the code goes about it.                         *)
(***************************************************************************)
EXTENDS Naturals, Sequences, SequencesExt

CONSTANTS Callers,  \* calls, each by another process
          TaskIds, Inbox, Dir,
          Absent,   \* there is no such file
          Torn,     \* a file that is not JSON: created, truncated or half written
          None,     \* no owner, no job, no reply yet
          Dead,     \* the reply of a process that was killed
          Ok,       \* a reply that says no more
          Refused   \* an exception

Files == TaskIds \cup {Inbox}

Statuses == {"pending", "planning", "in_progress", "completed", "deleted"}
Tasks == [status : Statuses \cup {"undefined"}, owned : BOOLEAN, plan : BOOLEAN]
Messages == [from : Callers, read : BOOLEAN]

\* The arguments of task_update are both optional; what is left out is undefined.
Updates == [status : Statuses \cup {"undefined"}, owned : BOOLEAN]

Jobs == [op : {"create", "list", "reset"}, file : {Dir}]
        \cup [op : {"update"}, file : TaskIds, to : Updates]
        \cup [op : {"submit", "approve", "reject", "read"}, file : TaskIds]
        \cup [op : {"append", "receive"}, file : {Inbox}]

NewTask == [status |-> "pending", owned |-> FALSE, plan |-> FALSE]

\* { ...task, ...updates }: a key whose value is undefined replaces the task's.
Merge(task, to) == [task EXCEPT !.status = to.status, !.owned = to.owned]

\* The operation throws instead: no file, no JSON, nothing to evaluate.
Throws(j, doc) ==
    \/ doc = Torn
    \/ doc = Absent /\ j.op \notin {"append", "receive", "create"}
    \/ j.op \in {"approve", "reject"} /\ ~(doc.status = "planning" /\ doc.plan)

Deletes(j) == j.op = "update" /\ j.to.status = "deleted"
Completes(j) == j.op = "update" /\ j.to.status = "completed"

\* What caller c's operation j leaves of a document it does not throw on.
Effect(c, j, doc) ==
    CASE j.op = "create"  -> NewTask
      [] j.op = "update"  -> IF Deletes(j) THEN Absent ELSE Merge(doc, j.to)
      [] j.op = "submit"  -> [doc EXCEPT !.status = "planning", !.plan = TRUE]
      [] j.op = "approve" -> [doc EXCEPT !.status = "in_progress"]
      [] j.op = "reject"  -> [doc EXCEPT !.status = "planning"]
      [] j.op = "reset"   -> [doc EXCEPT !.owned = FALSE,
                                         !.status = IF @ = "completed" THEN @ ELSE "pending"]
      [] j.op = "append"  -> Append(IF doc = Absent THEN <<>> ELSE doc,
                                    [from |-> c, read |-> FALSE])
      [] j.op = "receive" -> [i \in DOMAIN doc |-> [doc[i] EXCEPT !.read = TRUE]]
      [] OTHER            -> doc

\* What the caller is told.
Reply(c, j, doc) ==
    CASE j.op = "update"  -> Merge(doc, j.to)
      [] j.op = "receive" -> IF doc = Absent THEN <<>>
                             ELSE SelectSeq(doc, LAMBDA m : ~m.read)
      [] j.op = "read"    -> doc
      [] j.op \in {"create", "append", "list", "reset"} -> Ok
      [] OTHER            -> Effect(c, j, doc)

-----------------------------------------------------------------------------
VARIABLES docs, job, reply

boardVars == <<docs, job, reply>>

Asked(c, j) == job[c] = None /\ job' = [job EXCEPT ![c] = j] /\ UNCHANGED <<docs, reply>>

Answered(c, r) ==
    job[c] # None /\ reply[c] = None /\ reply' = [reply EXCEPT ![c] = r] /\ UNCHANGED job

\* An exception, for one of the reasons above or because the lock was not to be had.
Refusal(c) == Answered(c, Refused) /\ UNCHANGED docs

\* An operation on one document.
Done(c) ==
    LET j == job[c] IN
    /\ j # None /\ j.file \in Files /\ ~Throws(j, docs[j.file])
    /\ docs' = IF j.op = "receive" /\ Reply(c, j, docs[j.file]) = <<>> THEN docs
               ELSE [docs EXCEPT ![j.file] = Effect(c, j, @)]
    /\ Answered(c, Reply(c, j, docs[j.file]))

\* A task is created under an id that no task has.
Created(c) ==
    /\ job[c] # None /\ job[c].op = "create"
    /\ \E id \in TaskIds : docs[id] = Absent /\ docs' = [docs EXCEPT ![id] = NewTask]
    /\ Answered(c, Ok)

\* A list need not be what the tasks were at any one moment.
Listed(c) == job[c] # None /\ job[c].op \in {"list", "reset"} /\ Answered(c, Ok) /\ UNCHANGED docs

\* A reset changes the tasks one by one, before it answers.
ResetOne(c) ==
    /\ job[c] # None /\ job[c].op = "reset" /\ reply[c] = None
    /\ \E id \in TaskIds :
           /\ ~Throws(job[c], docs[id]) /\ docs[id].owned
           /\ docs' = [docs EXCEPT ![id] = Effect(c, job[c], @)]
    /\ UNCHANGED <<job, reply>>

\* A crash may cost the document that was being written.
Crashed(c) ==
    /\ Answered(c, Dead)
    /\ docs' = docs \/ \E f \in Files : docs' = [docs EXCEPT ![f] = Torn]

BoardInit ==
    /\ docs \in [Files -> Tasks \cup {Absent}]
    /\ job = [c \in Callers |-> None] /\ reply = [c \in Callers |-> None]

BoardNext ==
    \E c \in Callers :
        \/ \E j \in Jobs : Asked(c, j)
        \/ Refusal(c) \/ Done(c) \/ Created(c) \/ Listed(c) \/ ResetOne(c) \/ Crashed(c)
=============================================================================
