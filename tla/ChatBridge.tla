----------------------------- MODULE ChatBridge -----------------------------
(***************************************************************************)
(* The chat bridge: class ChatBridge (packages/pi-channels/src/bridge/     *)
(* bridge.ts) with the built-in bot commands (bridge/commands.ts).         *)
(*                                                                         *)
(* Messages of many senders are queued per sender and at most              *)
(* maxConcurrent of them are handed to the gateway at a time.  Everything  *)
(* the bridge does between two awaits is one action; the only await is     *)
(* gateway.enqueueMessage(), whose answer is the action PromptEnds.        *)
(* Messages are numbered in the order they are accepted.  A command or a   *)
(* rejected message changes nothing but the replies, which are not         *)
(* modelled, unless an action says so.                                     *)
(***************************************************************************)
EXTENDS Integers, Sequences, FiniteSets

CONSTANTS Keys,               \* sender keys, `${adapter}:${sender}`
          Sender,             \* the sender of a key, without its adapter
          MaxQueuePerSender, MaxConcurrent,  \* the bridge's configuration
          MaxMessages,        \* bound: messages accepted
          MaxSessions         \* bound: SenderSession objects created

ASSUME BridgeAssumption ==
    /\ DOMAIN Sender = Keys
    /\ MaxQueuePerSender \in Nat \ {0}
    /\ MaxConcurrent \in Nat \ {0}
    /\ MaxMessages \in Nat
    /\ MaxSessions \in Nat

VARIABLES
    running, activeCount,
    object,    \* every SenderSession created so far, in or out of the map
    sessions,  \* the Map: the objects in it, iterated in the order of creation
    inFlight,  \* <<session, message>>: a processNext that awaits the gateway
    gateway,   \* is there an active gateway runtime?
    messages,  \* history: the key and the fate of every accepted message
    met        \* history: which of Overtakings have happened

vars == <<running, activeCount, sessions, object, inFlight, gateway, messages, met>>

(* A session leaves the map while its prompt is at the gateway: by /new,   *)
(* or because the bridge stops.                                            *)
Overtakings == {"new", "stop"}
Meet(overtaking, happens) == met' = IF happens THEN met \cup {overtaking} ELSE met
InFlightOf(S) == {p \in inFlight : p[1] \in S}

SessionIds == 1..MaxSessions
MessageIds == 1..MaxMessages
KeyInMap(k) == \E i \in sessions : object[i].key = k
Waiting(o, i) == ~o[i].processing /\ o[i].queue # <<>>
Mark(ms, S, fate) ==
    [m \in DOMAIN ms |-> IF m \in S THEN [ms[m] EXCEPT !.fate = fate] ELSE ms[m]]

Init ==
    /\ running = TRUE
    /\ activeCount = 0
    /\ sessions = {}
    /\ object = <<>>
    /\ inFlight = {}
    /\ gateway = TRUE
    /\ messages = <<>>
    /\ met = {}

-----------------------------------------------------------------------------
(* Processing.  A bridge state is passed along as the record b, because    *)
(* one callback may start several prompts one after the other.             *)

Bridge == [object |-> object, activeCount |-> activeCount,
           inFlight |-> inFlight, messages |-> messages]

Becomes(b) ==
    /\ object' = b.object
    /\ activeCount' = b.activeCount
    /\ inFlight' = b.inFlight
    /\ messages' = b.messages

(* Mutant: pop() for shift().                                              *)
TakeNewest(b, S) ==
    LET heads == {<<i, b.object[i].queue[Len(b.object[i].queue)]>> : i \in S}
    IN  [object |-> [i \in DOMAIN b.object |->
                       IF i \in S
                       THEN [b.object[i] EXCEPT !.queue = SubSeq(@, 1, Len(@) - 1), !.processing = gateway]
                       ELSE b.object[i]],
         activeCount |-> b.activeCount + IF gateway THEN Cardinality(S) ELSE 0,
         inFlight |-> IF gateway THEN b.inFlight \cup heads ELSE b.inFlight,
         messages |-> IF gateway THEN b.messages
                      ELSE Mark(b.messages, {h[2] : h \in heads}, "answered")]

(* The part of processNext after its guards, for each session of S: shift  *)
(* the queue and call the gateway or, without one, reply and return.       *)
Take(b, S) ==
    LET heads == {<<i, Head(b.object[i].queue)>> : i \in S}
    IN  [object |-> [i \in DOMAIN b.object |->
                       IF i \in S
                       THEN [b.object[i] EXCEPT !.queue = Tail(@), !.processing = gateway]
                       ELSE b.object[i]],
         activeCount |-> b.activeCount + IF gateway THEN Cardinality(S) ELSE 0,
         inFlight |-> IF gateway THEN b.inFlight \cup heads ELSE b.inFlight,
         messages |-> IF gateway THEN b.messages
                      ELSE Mark(b.messages, {h[2] : h \in heads}, "answered")]

(* Mutants: the guards of processNext, one of them weakened.               *)
ProcessNextWhileBusy(b, map, k) ==
    IF b.activeCount >= MaxConcurrent THEN b
    ELSE Take(b, {i \in map : b.object[i].key = k /\ b.object[i].queue # <<>>})

ProcessNextBeyondLimit(b, map, k) ==
    IF b.activeCount > MaxConcurrent THEN b
    ELSE Take(b, {i \in map : b.object[i].key = k /\ Waiting(b.object, i)})

(* processNext: map is the set of objects that it looks the key up in.     *)
ProcessNext(b, map, k) ==
    IF b.activeCount >= MaxConcurrent THEN b
    ELSE Take(b, {i \in map : b.object[i].key = k /\ Waiting(b.object, i)})

(* The loop over the map stops as soon as no slot is free.                 *)
Turn(waiting, i) == Cardinality({j \in waiting : j <= i})
DrainWaiting(b) ==
    LET waiting == {i \in sessions : Waiting(b.object, i)}
        free == MaxConcurrent - b.activeCount
    IN  Take(b, {i \in waiting : Turn(waiting, i) <= free \/ (~gateway /\ free > 0)})

-----------------------------------------------------------------------------
(* Incoming messages and commands.                                         *)

NewSession(k) == [key |-> k, queue |-> <<>>, processing |-> FALSE]

CanOpen(k) == KeyInMap(k) \/ Len(object) < MaxSessions
Objects(k) == IF KeyInMap(k) THEN object ELSE Append(object, NewSession(k))
Map(k) == IF KeyInMap(k) THEN sessions ELSE sessions \cup {Len(object) + 1}
SessionOf(k) == IF KeyInMap(k) THEN CHOOSE i \in sessions : object[i].key = k
                ELSE Len(object) + 1

(* handleMessage with a prompt, when the queue has room for it.            *)
HandleMessage(k) ==
    /\ running
    /\ CanOpen(k)
    /\ Len(messages) < MaxMessages
    /\ Len(Objects(k)[SessionOf(k)].queue) < MaxQueuePerSender
    /\ sessions' = Map(k)
    /\ Becomes(ProcessNext(
         [Bridge EXCEPT
            !.object = [Objects(k) EXCEPT ![SessionOf(k)].queue = Append(@, Len(messages) + 1)],
            !.messages = Append(@, [key |-> k, fate |-> "pending"])],
         Map(k), k))
    /\ UNCHANGED <<running, gateway, met>>

(* handleMessage with a command that does not touch the queues: /start,    *)
(* /help, /status, and /abort, which the gateway answers by ending the     *)
(* prompt in flight.                                                       *)
Command(k) ==
    /\ running
    /\ ~KeyInMap(k)
    /\ CanOpen(k)
    /\ object' = Objects(k)
    /\ sessions' = Map(k)
    /\ UNCHANGED <<running, activeCount, inFlight, gateway, messages, met>>

SameSender(k) == {i \in sessions : Sender[object[i].key] = Sender[k]}

(* handleMessage with /new: abortCurrent, clearQueue, resetSession, which   *)
(* without a gateway does nothing.  A session opened by this message alone *)
(* is deleted again at once.                                               *)
New(k) ==
    /\ running
    /\ KeyInMap(k) \/ (gateway /\ SameSender(k) # {})
    /\ LET queued == UNION {{object[i].queue[n] : n \in DOMAIN object[i].queue} :
                              i \in SameSender(k)}
       IN  messages' = Mark(messages, queued, "dropped")
    /\ object' = [i \in DOMAIN object |->
                    IF i \in SameSender(k) THEN [object[i] EXCEPT !.queue = <<>>]
                    ELSE object[i]]
    /\ sessions' = IF gateway THEN sessions \ SameSender(k) ELSE sessions
    /\ Meet("new", gateway /\ InFlightOf(SameSender(k)) # {})
    /\ UNCHANGED <<running, activeCount, inFlight, gateway>>

-----------------------------------------------------------------------------
(* The gateway answers; the bridge and the gateway start and stop.         *)

(* Mutants of PromptEnds: the other senders are not drained; the slot is   *)
(* kept.                                                                   *)
PromptEndsNoDrain(i, m) ==
    /\ <<i, m>> \in inFlight
    /\ LET ended == [object |-> [object EXCEPT ![i].processing = FALSE],
                     activeCount |-> activeCount - 1,
                     inFlight |-> inFlight \ {<<i, m>>},
                     messages |-> Mark(messages, {m}, "answered")]
       IN  Becomes(ProcessNext(ended, sessions, object[i].key))
    /\ UNCHANGED <<running, sessions, gateway, met>>

PromptEndsKeepsSlot(i, m) ==
    /\ <<i, m>> \in inFlight
    /\ Becomes(DrainWaiting([Bridge EXCEPT !.object[i].processing = FALSE,
                                           !.inFlight = @ \ {<<i, m>>},
                                           !.messages = Mark(@, {m}, "answered")]))
    /\ UNCHANGED <<running, sessions, gateway, met>>

(* processNext after its await: reply, then the finally block.             *)
PromptEnds(i, m) ==
    /\ <<i, m>> \in inFlight
    /\ LET ended == [object |-> [object EXCEPT ![i].processing = FALSE],
                     activeCount |-> activeCount - 1,
                     inFlight |-> inFlight \ {<<i, m>>},
                     messages |-> Mark(messages, {m}, "answered")]
       IN  Becomes(DrainWaiting(IF object[i].queue # <<>>
                                THEN ProcessNext(ended, sessions, object[i].key)
                                ELSE ended))
    /\ UNCHANGED <<running, sessions, gateway, met>>

Start ==
    /\ ~running
    /\ gateway
    /\ running' = TRUE
    /\ UNCHANGED <<activeCount, sessions, object, inFlight, gateway, messages, met>>

Stop ==
    /\ running
    /\ running' = FALSE
    /\ sessions' = {}
    /\ activeCount' = 0
    /\ messages' = [m \in DOMAIN messages |->
                      IF messages[m].fate = "pending" /\ \A i \in SessionIds : <<i, m>> \notin inFlight
                      THEN [messages[m] EXCEPT !.fate = "dropped"] ELSE messages[m]]
    /\ Meet("stop", inFlight # {})
    /\ UNCHANGED <<object, inFlight, gateway>>

(* The shutdown of the daemon calls setActiveGatewayRuntime(null).         *)
GatewayStops ==
    /\ gateway
    /\ gateway' = FALSE
    /\ UNCHANGED <<running, activeCount, sessions, object, inFlight, messages, met>>

Next ==
    \/ \E k \in Keys : HandleMessage(k) \/ Command(k) \/ New(k)
    \/ \E i \in SessionIds, m \in MessageIds : PromptEnds(i, m)
    \/ Start
    \/ Stop
    \/ GatewayStops

(* The gateway answers every prompt it is given.                           *)
Fairness == \A m \in MessageIds : WF_vars(\E i \in SessionIds : PromptEnds(i, m))

Spec == Init /\ [][Next]_vars /\ Fairness

-----------------------------------------------------------------------------
(* The types of the bridge's state; a message waits in one queue at most.  *)
TypeOK ==
    /\ running \in BOOLEAN
    /\ gateway \in BOOLEAN
    /\ activeCount \in Int
    /\ sessions \subseteq DOMAIN object
    /\ object \in Seq([key : Keys, queue : Seq(DOMAIN messages), processing : BOOLEAN])
    /\ inFlight \subseteq (DOMAIN object) \X (DOMAIN messages)
    /\ messages \in Seq([key : Keys, fate : {"pending", "answered", "dropped"}])

(* "Serializes per sender": two prompts of one sender are never at the     *)
(* gateway together.                                                       *)
Serialized == \A p, q \in inFlight : object[p[1]].key = object[q[1]].key => p = q

(* So it is until a session is dropped while its prompt is in flight.      *)
OnePromptPerSender == met = {} => Serialized

(* "Multiple senders run concurrently up to maxConcurrent", until a stop   *)
(* forgets the prompts in flight.                                          *)
AtMostMaxConcurrent == "stop" \notin met => Cardinality(inFlight) <= MaxConcurrent

(* No lost wakeup: a sender waits only while every slot is taken.          *)
NoIdleSlotWhileWaiting ==
    gateway /\ activeCount < MaxConcurrent => \A i \in sessions : ~Waiting(object, i)

(* The messages of a sender are answered in the order they were sent.      *)
RepliesInOrder == met = {} =>
    \A m, n \in DOMAIN messages :
        m < n /\ messages[m].key = messages[n].key /\ messages[n].fate = "answered"
            => messages[m].fate # "pending"

(* Every accepted message is answered, unless /new or a stop discards it   *)
(* or the daemon shuts down.                                               *)
EveryMessageAnswered ==
    \A m \in MessageIds :
        (m \in DOMAIN messages)
            ~> ((m \in DOMAIN messages /\ messages[m].fate # "pending") \/ ~gateway)
=============================================================================
