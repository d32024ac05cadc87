----------------------------- MODULE MCTeamStore -----------------------------
(* A small instance of TeamStore: a task is updated in some ways, and two  *)
(* processes write to an inbox.                                            *)
EXTENDS TeamStore

SomeJobs ==
    [op : {"create", "list", "reset"}, file : {Dir}]
    \cup [op : {"update"}, file : {1},
          to : [status : {"completed"}, owned : {TRUE}]
               \cup [status : {"deleted"}, owned : {FALSE}]]
    \cup [op : {"submit", "approve", "read"}, file : {1}]
    \cup [op : {"append", "receive"}, file : {Inbox}]
=============================================================================
