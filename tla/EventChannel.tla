---------------------------- MODULE EventChannel ----------------------------
(***************************************************************************)
(* What an EventStream promises to its producer and its consumers: a       *)
(* channel that can be closed.  Events are numbered as they are accepted;  *)
(* they are handed out in that order, each to one consumer; none is        *)
(* accepted once the channel is closed, and a consumer is told that the    *)
(* channel is over only when it is closed and every event is handed out.   *)
(***************************************************************************)
EXTENDS Naturals, Sequences

CONSTANTS Consumers

VARIABLES sent,       \* events accepted so far
          delivered,  \* events handed out so far
          got,        \* the events handed to each consumer
          closed,
          over        \* consumers that have reached the end, or left

channelVars == <<sent, delivered, got, closed, over>>

Init ==
    /\ sent = 0
    /\ delivered = 0
    /\ got = [c \in Consumers |-> <<>>]
    /\ closed = FALSE
    /\ over = {}

(* The producer sends an event, possibly the last; it may be handed at     *)
(* once to a consumer that waits for it.                                   *)
Accept ==
    /\ ~closed
    /\ sent' = sent + 1
    /\ closed' \in BOOLEAN
    /\ UNCHANGED <<delivered, got, over>>

AcceptAndDeliver(c) ==
    /\ ~closed
    /\ delivered = sent
    /\ c \notin over
    /\ sent' = sent + 1
    /\ delivered' = sent + 1
    /\ got' = [got EXCEPT ![c] = Append(@, sent + 1)]
    /\ closed' \in BOOLEAN
    /\ UNCHANGED over

Deliver(c) ==
    /\ delivered < sent
    /\ c \notin over
    /\ delivered' = delivered + 1
    /\ got' = [got EXCEPT ![c] = Append(@, delivered + 1)]
    /\ UNCHANGED <<sent, closed, over>>

(* Closing tells the consumers that wait; none waits while an event is left *)
(* to hand out.                                                            *)
Close(C) ==
    /\ C # {} => delivered = sent
    /\ closed' = TRUE
    /\ over' = over \cup C
    /\ UNCHANGED <<sent, delivered, got>>

Finish(c) ==
    /\ closed
    /\ delivered = sent
    /\ over' = over \cup {c}
    /\ UNCHANGED <<sent, delivered, got, closed>>

Leave(c) ==
    /\ over' = over \cup {c}
    /\ UNCHANGED <<sent, delivered, got, closed>>

Next ==
    \/ Accept
    \/ \E C \in SUBSET Consumers : Close(C)
    \/ \E c \in Consumers : AcceptAndDeliver(c) \/ Deliver(c) \/ Finish(c) \/ Leave(c)

Spec == Init /\ [][Next]_channelVars
=============================================================================
