---------------------------- MODULE EventStream ----------------------------
(***************************************************************************)
(* The stream between a producer of events (a model provider, the agent    *)
(* loop) and the consumers that iterate over it: class EventStream         *)
(* (packages/ai/src/utils/event-stream.ts).  Events are numbered in the    *)
(* order they are pushed.  A consumer is an async iteration; what it does  *)
(* between two of its awaits is one action.                                *)
(***************************************************************************)
EXTENDS Naturals, Sequences, FiniteSets

CONSTANTS Consumers,
          MaxEvents   \* bound: events pushed

ASSUME StreamAssumption == MaxEvents \in Nat

VARIABLES
    queue, waiting, done,
    result,     \* what finalResultPromise resolved to: an event, EndValue or Unresolved
    consumer,   \* where each iteration is
    received,   \* history: the events each iteration was given
    pushed,     \* history: events accepted by push()
    ended       \* history: end() was called

vars == <<queue, waiting, done, result, consumer, received, pushed, ended>>

Unresolved == 0
EndValue == MaxEvents + 1

(* body: between two next() calls.  waiting: its promise is in `waiting'.  *)
(* value, over: the promise is resolved and the iteration not resumed yet. *)
States == {"body", "waiting", "value", "over", "returned"}

Init ==
    /\ queue = <<>>
    /\ waiting = <<>>
    /\ done = FALSE
    /\ result = Unresolved
    /\ consumer = [c \in Consumers |-> "body"]
    /\ received = [c \in Consumers |-> <<>>]
    /\ pushed = 0
    /\ ended = FALSE

Resolve(value) == IF result = Unresolved THEN value ELSE result
Event == pushed + 1

-----------------------------------------------------------------------------
(* Mutants of Push: the event is queued whoever waits; pushing is possible *)
(* after the end.                                                          *)
PushQueues(complete) ==
    /\ pushed < MaxEvents
    /\ ~done
    /\ pushed' = Event
    /\ done' = complete
    /\ result' = IF complete THEN Resolve(Event) ELSE result
    /\ queue' = Append(queue, Event)
    /\ UNCHANGED <<waiting, consumer, received, ended>>

PushWhenDone(complete) ==
    /\ pushed < MaxEvents
    /\ pushed' = Event
    /\ done' = (complete \/ done)
    /\ result' = IF complete THEN Resolve(Event) ELSE result
    /\ queue' = Append(queue, Event)
    /\ UNCHANGED <<waiting, consumer, received, ended>>

(* push() of an event that completes the stream or not; after the end it   *)
(* returns at once.                                                        *)
Push(complete) ==
    /\ pushed < MaxEvents
    /\ ~done
    /\ pushed' = Event
    /\ done' = complete
    /\ result' = IF complete THEN Resolve(Event) ELSE result
    /\ IF waiting = <<>>
       THEN /\ queue' = Append(queue, Event)
            /\ UNCHANGED <<waiting, consumer, received>>
       ELSE /\ waiting' = Tail(waiting)
            /\ consumer' = [consumer EXCEPT ![Head(waiting)] = "value"]
            /\ received' = [received EXCEPT ![Head(waiting)] = Append(@, Event)]
            /\ UNCHANGED queue
    /\ UNCHANGED ended

(* end() with a result or without one: every waiting consumer is notified. *)
End(value) ==
    /\ done' = TRUE
    /\ result' = IF value = Unresolved THEN result ELSE Resolve(value)
    /\ waiting' = <<>>
    /\ consumer' = [c \in Consumers |-> IF consumer[c] = "waiting" THEN "over" ELSE consumer[c]]
    /\ ended' = TRUE
    /\ UNCHANGED <<queue, received, pushed>>

-----------------------------------------------------------------------------
(* next(): the first queued event, the end, or a promise to wait for.      *)
Take(c) ==
    /\ consumer[c] = "body"
    /\ queue # <<>>
    /\ received' = [received EXCEPT ![c] = Append(@, Head(queue))]
    /\ queue' = Tail(queue)
    /\ UNCHANGED <<waiting, done, result, consumer, pushed, ended>>

ReachEnd(c) ==
    /\ consumer[c] = "body"
    /\ queue = <<>>
    /\ done
    /\ consumer' = [consumer EXCEPT ![c] = "returned"]
    /\ UNCHANGED <<queue, waiting, done, result, received, pushed, ended>>

Wait(c) ==
    /\ consumer[c] = "body"
    /\ queue = <<>>
    /\ ~done
    /\ consumer' = [consumer EXCEPT ![c] = "waiting"]
    /\ waiting' = Append(waiting, c)
    /\ UNCHANGED <<queue, done, result, received, pushed, ended>>

(* The promise a consumer awaited is resolved: it yields the event or      *)
(* returns.                                                                *)
Resume(c) ==
    /\ consumer[c] \in {"value", "over"}
    /\ consumer' = [consumer EXCEPT ![c] = IF @ = "value" THEN "body" ELSE "returned"]
    /\ UNCHANGED <<queue, waiting, done, result, received, pushed, ended>>

(* The body of the iteration breaks or throws.                             *)
Leave(c) ==
    /\ consumer[c] = "body"
    /\ consumer' = [consumer EXCEPT ![c] = "returned"]
    /\ UNCHANGED <<queue, waiting, done, result, received, pushed, ended>>

ConsumerStep(c) == Take(c) \/ ReachEnd(c) \/ Wait(c) \/ Resume(c)

Next ==
    \/ \E complete \in BOOLEAN : Push(complete)
    \/ \E value \in {Unresolved, EndValue} : End(value)
    \/ \E c \in Consumers : ConsumerStep(c) \/ Leave(c)

(* A consumer asks for the next event until it leaves.                     *)
Fairness == \A c \in Consumers : WF_vars(ConsumerStep(c))

Spec == Init /\ [][Next]_vars
FairSpec == Spec /\ Fairness

-----------------------------------------------------------------------------
(* The types of the stream's state.                                        *)
TypeOK ==
    /\ queue \in Seq(1..MaxEvents)
    /\ waiting \in Seq(Consumers)
    /\ done \in BOOLEAN
    /\ result \in 0..MaxEvents + 1
    /\ consumer \in [Consumers -> States]
    /\ received \in [Consumers -> Seq(1..MaxEvents)]
    /\ pushed \in 0..MaxEvents
    /\ ended \in BOOLEAN

(* Consumers wait only while no event is queued, and each of them once, so *)
(* that push() wakes the one that waited longest and loses none.           *)
WaitersAreStarved ==
    /\ waiting # <<>> => queue = <<>>
    /\ \A m, n \in DOMAIN waiting : waiting[m] = waiting[n] => m = n
    /\ \A c \in Consumers :
          consumer[c] = "waiting" <=> \E n \in DOMAIN waiting : waiting[n] = c

(* A result taken from an event is the stream's last event: nothing is     *)
(* accepted after it, by push() or after end(result).                      *)
ResultIsLastEvent ==
    /\ result \in 1..MaxEvents => result = pushed /\ done
    /\ result = EndValue => done

(* The queue holds exactly the events that were not handed out.            *)
QueueIsTheRest ==
    /\ Len(queue) <= pushed
    /\ \A n \in DOMAIN queue : queue[n] = pushed - Len(queue) + n

(* Every event goes to a consumer, as long as one of them stays.           *)
EveryEventDelivered ==
    \A n \in 1..MaxEvents :
        (pushed >= n) ~> \/ \E c \in Consumers : \E k \in DOMAIN received[c] : received[c][k] = n
                         \/ \A c \in Consumers : consumer[c] = "returned"

-----------------------------------------------------------------------------
(* The stream implements the channel: an event is handed out when it is    *)
(* taken from the queue or given to a waiting promise.                     *)
Channel == INSTANCE EventChannel WITH
    sent <- pushed,
    delivered <- pushed - Len(queue),
    got <- received,
    closed <- done,
    over <- {c \in Consumers : consumer[c] \in {"over", "returned"}}

(* Events are handed out in order, once, and never lost at the end.        *)
ImplementsChannel == Channel!Spec
=============================================================================
