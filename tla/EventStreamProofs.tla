------------------------- MODULE EventStreamProofs -------------------------
(* Proofs about EventStream: its invariants, and that it implements the    *)
(* channel, for any set of consumers and any number of events.             *)
EXTENDS EventStream, Integers, TLAPS

-----------------------------------------------------------------------------
(* Sequences.                                                              *)

LEMMA TailFacts ==
    ASSUME NEW S, NEW s \in Seq(S), s # <<>>
    PROVE  /\ Head(s) \in S /\ Tail(s) \in Seq(S) /\ Len(s) \in Nat \ {0}
           /\ Len(Tail(s)) = Len(s) - 1 /\ Head(s) = s[1] /\ 1 \in DOMAIN s
           /\ \A n \in DOMAIN Tail(s) : Tail(s)[n] = s[n + 1] /\ n + 1 \in DOMAIN s
           /\ \A n \in DOMAIN s : n # 1 => n - 1 \in DOMAIN Tail(s)
    OBVIOUS

LEMMA AppendFacts ==
    ASSUME NEW S, NEW s \in Seq(S), NEW e \in S
    PROVE  /\ Append(s, e) \in Seq(S) /\ Len(Append(s, e)) = Len(s) + 1
           /\ DOMAIN Append(s, e) = 1..Len(s) + 1 /\ DOMAIN s = 1..Len(s) /\ Len(s) \in Nat
           /\ \A n \in 1..Len(s) : Append(s, e)[n] = s[n]
           /\ Append(s, e)[Len(s) + 1] = e
    OBVIOUS

LEMMA EmptyFacts ==
    /\ \A S : <<>> \in Seq(S)
    /\ Len(<<>>) = 0 /\ DOMAIN <<>> = {}
    OBVIOUS

-----------------------------------------------------------------------------
(* The inductive invariant: the four invariants of the runs together.      *)

Inv == TypeOK /\ WaitersAreStarved /\ ResultIsLastEvent /\ QueueIsTheRest

LEMMA InitInv == Init => Inv
<1> SUFFICES ASSUME Init PROVE Inv
    OBVIOUS
<1>1. TypeOK
    <2>1. queue \in Seq(1..MaxEvents) /\ waiting \in Seq(Consumers)
        BY EmptyFacts DEF Init
    <2>2. received \in [Consumers -> Seq(1..MaxEvents)]
        BY EmptyFacts DEF Init
    <2>3. result \in 0..MaxEvents + 1 /\ pushed \in 0..MaxEvents
        BY StreamAssumption DEF Init, Unresolved
    <2> QED
        BY <2>1, <2>2, <2>3 DEF Init, TypeOK, States
<1>2. WaitersAreStarved
    BY EmptyFacts DEF Init, WaitersAreStarved
<1>3. ResultIsLastEvent /\ QueueIsTheRest
    BY StreamAssumption, EmptyFacts
       DEF Init, ResultIsLastEvent, QueueIsTheRest, Unresolved, EndValue
<1> QED
    BY <1>1, <1>2, <1>3 DEF Inv

LEMMA PushInv ==
    ASSUME Inv, NEW complete \in BOOLEAN, Push(complete)
    PROVE  Inv'
<1> USE StreamAssumption DEF Inv
<1>1. Event \in 1..MaxEvents /\ pushed' = Event /\ done' = complete /\ ~done /\ ended' = ended
    BY DEF Push, TypeOK, Event
<1>2. result = Unresolved
    BY <1>1 DEF TypeOK, ResultIsLastEvent, Unresolved, EndValue
<1>3. result' = IF complete THEN Event ELSE Unresolved
    BY <1>2 DEF Push, Resolve
<1>4. ResultIsLastEvent'
    BY <1>1, <1>3 DEF ResultIsLastEvent, Unresolved, EndValue
<1>5. CASE waiting = <<>>
    <2>1. /\ queue' = Append(queue, Event)
          /\ waiting' = waiting /\ consumer' = consumer /\ received' = received
        BY <1>5 DEF Push
    <2>2. queue \in Seq(1..MaxEvents)
        BY DEF TypeOK
    <2>3. TypeOK'
        BY <1>1, <1>3, <2>1, <2>2, AppendFacts DEF TypeOK, Unresolved
    <2>4. WaitersAreStarved'
        BY <1>5, <2>1 DEF WaitersAreStarved
    <2>5. QueueIsTheRest'
        <3>1. Len(queue') = Len(queue) + 1 /\ DOMAIN queue' = 1..Len(queue) + 1
            BY <1>1, <2>1, <2>2, AppendFacts
        <3>2. \A n \in 1..Len(queue) : queue'[n] = pushed - Len(queue) + n
            BY <1>1, <2>1, <2>2, AppendFacts DEF QueueIsTheRest
        <3>3. queue'[Len(queue) + 1] = pushed + 1 /\ pushed' = pushed + 1
            BY <1>1, <2>1, <2>2, AppendFacts DEF Event
        <3>4. Len(queue) \in Nat /\ pushed \in Nat /\ Len(queue) <= pushed
            BY <2>2 DEF TypeOK, QueueIsTheRest
        <3> QED
            BY <3>1, <3>2, <3>3, <3>4 DEF QueueIsTheRest
    <2> QED
        BY <1>4, <2>3, <2>4, <2>5
<1>6. CASE waiting # <<>>
    <2> DEFINE h == Head(waiting)
    <2>1. /\ waiting' = Tail(waiting) /\ queue' = queue
          /\ consumer' = [consumer EXCEPT ![h] = "value"]
          /\ received' = [received EXCEPT ![h] = Append(received[h], Event)]
        BY <1>6 DEF Push
    <2>2. h \in Consumers /\ waiting \in Seq(Consumers)
        BY <1>6, TailFacts DEF TypeOK
    <2>3. Append(received[h], Event) \in Seq(1..MaxEvents)
        BY <1>1, <2>2, AppendFacts DEF TypeOK
    <2>4. waiting' \in Seq(Consumers)
        BY <1>6, <2>1, <2>2, TailFacts
    <2>5. queue = <<>>
        BY <1>6 DEF WaitersAreStarved
    <2>6. QueueIsTheRest'
        BY <1>1, <2>1, <2>5, EmptyFacts DEF QueueIsTheRest
    <2> HIDE DEF h
    <2>7. TypeOK'
        BY <1>1, <1>3, <2>1, <2>2, <2>3, <2>4 DEF TypeOK, States, Unresolved
    <2>8. \A m, n \in DOMAIN waiting' : waiting'[m] = waiting'[n] => m = n
        <3> SUFFICES ASSUME NEW m \in DOMAIN waiting', NEW n \in DOMAIN waiting',
                            waiting'[m] = waiting'[n]
                     PROVE  m = n
            OBVIOUS
        <3>1. waiting[m + 1] = waiting[n + 1] /\ m + 1 \in DOMAIN waiting /\ n + 1 \in DOMAIN waiting
            BY <1>6, <2>1, <2>2, TailFacts
        <3>2. m \in Int /\ n \in Int
            BY <2>4
        <3> QED
            BY <3>1, <3>2 DEF WaitersAreStarved
    <2>9. ASSUME NEW c \in Consumers
          PROVE  consumer'[c] = "waiting" <=> \E n \in DOMAIN waiting' : waiting'[n] = c
        <3>1. waiting[1] = h /\ 1 \in DOMAIN waiting /\ DOMAIN waiting \subseteq Int
            BY <1>6, <2>2, TailFacts DEF h
        <3>2. CASE c = h
            <4>1. \A n \in DOMAIN waiting : n # 1 => waiting[n] # h
                BY <3>1 DEF WaitersAreStarved
            <4>2. \A n \in DOMAIN waiting' : waiting'[n] = waiting[n + 1] /\ n + 1 \in DOMAIN waiting /\ n \in Nat \ {0}
                BY <1>6, <2>1, <2>2, <2>4, TailFacts
            <4>3. \A n \in DOMAIN waiting' : waiting'[n] # h
                BY <4>1, <4>2
            <4>4. consumer'[c] = "value"
                BY <2>1, <2>2, <3>2 DEF TypeOK
            <4> QED
                BY <3>2, <4>3, <4>4
        <3>3. CASE c # h
            <4>1. consumer'[c] = consumer[c]
                BY <2>1, <3>3 DEF TypeOK
            <4>2. \A n \in DOMAIN waiting : waiting[n] = c =>
                     n - 1 \in DOMAIN waiting' /\ waiting'[n - 1] = c
                <5> SUFFICES ASSUME NEW n \in DOMAIN waiting, waiting[n] = c
                             PROVE  n - 1 \in DOMAIN waiting' /\ waiting'[n - 1] = c
                    OBVIOUS
                <5>1. n # 1
                    BY <3>1, <3>3
                <5>2. n - 1 \in DOMAIN waiting' /\ (n - 1) + 1 = n
                    BY <1>6, <2>1, <2>2, <3>1, <5>1, TailFacts
                <5> QED
                    BY <1>6, <2>1, <2>2, <5>2, TailFacts
            <4>3. \A n \in DOMAIN waiting' : waiting'[n] = waiting[n + 1] /\ n + 1 \in DOMAIN waiting
                BY <1>6, <2>1, <2>2, TailFacts
            <4> QED
                BY <4>1, <4>2, <4>3 DEF WaitersAreStarved
        <3> QED
            BY <3>2, <3>3
    <2>10. WaitersAreStarved'
        BY <2>1, <2>5, <2>8, <2>9 DEF WaitersAreStarved
    <2> QED
        BY <1>4, <2>6, <2>7, <2>10
<1> QED
    BY <1>5, <1>6

LEMMA EndInv ==
    ASSUME Inv, NEW value \in {Unresolved, EndValue}, End(value)
    PROVE  Inv'
<1> USE StreamAssumption DEF Inv
<1>1. TypeOK'
    BY EmptyFacts DEF End, TypeOK, States, Resolve, Unresolved, EndValue
<1>2. WaitersAreStarved'
    BY EmptyFacts DEF End, WaitersAreStarved, TypeOK
<1>3. ResultIsLastEvent'
    BY DEF End, ResultIsLastEvent, TypeOK, Resolve, Unresolved, EndValue
<1>4. QueueIsTheRest'
    BY DEF End, QueueIsTheRest
<1> QED
    BY <1>1, <1>2, <1>3, <1>4

LEMMA TakeInv ==
    ASSUME Inv, NEW c \in Consumers, Take(c)
    PROVE  Inv'
<1> USE StreamAssumption DEF Inv
<1>1. /\ queue # <<>> /\ queue' = Tail(queue) /\ queue \in Seq(1..MaxEvents)
      /\ received' = [received EXCEPT ![c] = Append(received[c], Head(queue))]
      /\ waiting' = waiting /\ done' = done /\ result' = result
      /\ consumer' = consumer /\ pushed' = pushed /\ ended' = ended
    BY DEF Take, TypeOK
<1>2. Append(received[c], Head(queue)) \in Seq(1..MaxEvents)
    BY <1>1, TailFacts, AppendFacts DEF TypeOK
<1>3. queue' \in Seq(1..MaxEvents)
    BY <1>1, TailFacts
<1>4. TypeOK'
    BY <1>1, <1>2, <1>3 DEF TypeOK
<1>5. WaitersAreStarved'
    BY <1>1 DEF WaitersAreStarved
<1>6. ResultIsLastEvent'
    BY <1>1 DEF ResultIsLastEvent
<1>7. QueueIsTheRest'
    <2>1. Len(queue') = Len(queue) - 1 /\ Len(queue) \in Nat
        BY <1>1, TailFacts
    <2>2. ASSUME NEW n \in DOMAIN queue' PROVE queue'[n] = pushed - Len(queue) + (n + 1)
        BY <1>1, <2>2, TailFacts DEF QueueIsTheRest
    <2>3. \A n \in DOMAIN queue' : n \in Nat
        BY <1>3
    <2> QED
        BY <1>1, <2>1, <2>2, <2>3 DEF QueueIsTheRest, TypeOK
<1> QED
    BY <1>4, <1>5, <1>6, <1>7

LEMMA WaitInv ==
    ASSUME Inv, NEW c \in Consumers, Wait(c)
    PROVE  Inv'
<1> USE StreamAssumption DEF Inv
<1>1. /\ consumer[c] = "body" /\ queue = <<>> /\ waiting \in Seq(Consumers)
      /\ consumer' = [consumer EXCEPT ![c] = "waiting"]
      /\ waiting' = Append(waiting, c)
      /\ queue' = queue /\ done' = done /\ result' = result
      /\ received' = received /\ pushed' = pushed /\ ended' = ended
    BY DEF Wait, TypeOK
<1>2. TypeOK'
    BY <1>1, AppendFacts DEF TypeOK, States
<1>3. ResultIsLastEvent' /\ QueueIsTheRest'
    BY <1>1 DEF ResultIsLastEvent, QueueIsTheRest
<1>4. \A n \in DOMAIN waiting : waiting[n] # c
    BY <1>1 DEF WaitersAreStarved
<1>5. /\ DOMAIN waiting' = 1..Len(waiting) + 1 /\ DOMAIN waiting = 1..Len(waiting)
      /\ Len(waiting) \in Nat /\ waiting'[Len(waiting) + 1] = c
      /\ \A n \in 1..Len(waiting) : waiting'[n] = waiting[n]
    BY <1>1, AppendFacts
<1>6. \A m, n \in DOMAIN waiting' : waiting'[m] = waiting'[n] => m = n
    BY <1>4, <1>5 DEF WaitersAreStarved
<1>7. ASSUME NEW d \in Consumers
      PROVE  consumer'[d] = "waiting" <=> \E n \in DOMAIN waiting' : waiting'[n] = d
    <2>1. CASE d = c
        <3>1. consumer'[d] = "waiting"
            BY <1>1, <2>1 DEF TypeOK
        <3>2. Len(waiting) + 1 \in DOMAIN waiting' /\ waiting'[Len(waiting) + 1] = d
            BY <1>5, <2>1
        <3> QED
            BY <3>1, <3>2
    <2>2. CASE d # c
        <3>1. consumer'[d] = consumer[d]
            BY <1>1, <2>2 DEF TypeOK
        <3>2. (\E n \in DOMAIN waiting' : waiting'[n] = d) <=> \E n \in DOMAIN waiting : waiting[n] = d
            BY <1>5, <2>2
        <3> QED
            BY <3>1, <3>2 DEF WaitersAreStarved
    <2> QED
        BY <2>1, <2>2
<1>8. WaitersAreStarved'
    BY <1>1, <1>6, <1>7 DEF WaitersAreStarved
<1> QED
    BY <1>2, <1>3, <1>8

LEMMA MoveInv ==
    ASSUME Inv, NEW c \in Consumers, ReachEnd(c) \/ Resume(c) \/ Leave(c)
    PROVE  Inv'
<1> USE DEF Inv
<1>1. PICK s \in {"body", "returned"} : consumer' = [consumer EXCEPT ![c] = s]
    BY DEF ReachEnd, Resume, Leave
<1>2. /\ consumer[c] # "waiting"
      /\ queue' = queue /\ waiting' = waiting /\ done' = done /\ result' = result
      /\ received' = received /\ pushed' = pushed /\ ended' = ended
    BY DEF ReachEnd, Resume, Leave
<1>3. TypeOK'
    BY <1>1, <1>2 DEF TypeOK, States
<1>4. \A d \in Consumers : consumer'[d] = "waiting" <=> consumer[d] = "waiting"
    BY <1>1, <1>2 DEF TypeOK
<1>5. WaitersAreStarved' /\ ResultIsLastEvent' /\ QueueIsTheRest'
    BY <1>2, <1>4 DEF WaitersAreStarved, ResultIsLastEvent, QueueIsTheRest
<1> QED
    BY <1>3, <1>5

LEMMA NextInv == Inv /\ [Next]_vars => Inv'
<1> SUFFICES ASSUME Inv, [Next]_vars PROVE Inv'
    OBVIOUS
<1>1. ASSUME NEW complete \in BOOLEAN, Push(complete) PROVE Inv'
    BY <1>1, PushInv
<1>2. ASSUME NEW value \in {Unresolved, EndValue}, End(value) PROVE Inv'
    BY <1>2, EndInv
<1>3. ASSUME NEW c \in Consumers, Take(c) PROVE Inv'
    BY <1>3, TakeInv
<1>4. ASSUME NEW c \in Consumers, Wait(c) PROVE Inv'
    BY <1>4, WaitInv
<1>5. ASSUME NEW c \in Consumers, ReachEnd(c) \/ Resume(c) \/ Leave(c) PROVE Inv'
    BY <1>5, MoveInv
<1>6. CASE UNCHANGED vars
    BY <1>6 DEF vars, Inv, TypeOK, WaitersAreStarved, ResultIsLastEvent, QueueIsTheRest
<1> QED
    BY <1>1, <1>2, <1>3, <1>4, <1>5, <1>6 DEF Next, ConsumerStep

(* The stream's types, its waiters, its result and its queue are always    *)
(* consistent, whatever producers push and end and consumers do.           *)
THEOREM StreamInvariant ==
    Spec => [](TypeOK /\ WaitersAreStarved /\ ResultIsLastEvent /\ QueueIsTheRest)
<1>1. Spec => []Inv
    BY InitInv, NextInv, PTL DEF Spec
<1> QED
    BY <1>1, PTL DEF Inv

-----------------------------------------------------------------------------
(* The refinement.                                                         *)

LEMMA InitChannel == Init => Channel!Init
<1> SUFFICES ASSUME Init PROVE Channel!Init
    OBVIOUS
<1>1. pushed = 0 /\ Len(queue) = 0 /\ done = FALSE
    BY EmptyFacts DEF Init
<1>2. pushed - Len(queue) = 0
    BY <1>1
<1>3. {c \in Consumers : consumer[c] \in {"over", "returned"}} = {}
    BY DEF Init
<1>4. received = [c \in Consumers |-> <<>>]
    BY DEF Init
<1> QED
    BY <1>1, <1>2, <1>3, <1>4 DEF Channel!Init

LEMMA PushChannel ==
    ASSUME Inv, NEW complete \in BOOLEAN, Push(complete)
    PROVE  Channel!Next
<1>1. /\ ~done /\ pushed' = pushed + 1 /\ done' \in BOOLEAN
      /\ pushed \in Nat /\ Len(queue) \in Nat /\ Len(queue) <= pushed
    BY DEF Inv, Push, Event, TypeOK, QueueIsTheRest
<1>2. CASE waiting = <<>>
    <2>1. Len(queue') = Len(queue) + 1
        BY <1>1, <1>2, AppendFacts DEF Inv, Push, Event, TypeOK
    <2>2. received' = received /\ consumer' = consumer
        BY <1>2 DEF Push
    <2>3. Channel!Accept
        BY <1>1, <2>1, <2>2 DEF Channel!Accept
    <2> QED
        BY <2>3 DEF Channel!Next
<1>3. CASE waiting # <<>>
    <2> DEFINE h == Head(waiting)
    <2>1. h \in Consumers /\ h = waiting[1] /\ 1 \in DOMAIN waiting
        BY <1>3, TailFacts DEF Inv, TypeOK
    <2>2. queue = <<>> /\ consumer[h] = "waiting"
        BY <1>3, <2>1 DEF Inv, WaitersAreStarved
    <2>3. /\ queue' = queue
          /\ consumer' = [consumer EXCEPT ![h] = "value"]
          /\ received' = [received EXCEPT ![h] = Append(received[h], pushed + 1)]
        BY <1>3 DEF Push, Event
    <2> HIDE DEF h
    <2>4. {c \in Consumers : consumer'[c] \in {"over", "returned"}}
            = {c \in Consumers : consumer[c] \in {"over", "returned"}}
        BY <2>2, <2>3 DEF Inv, TypeOK
    <2>5. Len(queue) = 0 /\ Len(queue') = 0
        BY <2>2, <2>3, EmptyFacts
    <2>6. Channel!AcceptAndDeliver(h)
        BY <1>1, <2>2, <2>3, <2>4, <2>5 DEF Channel!AcceptAndDeliver
    <2> QED
        BY <2>1, <2>6 DEF Channel!Next
<1> QED
    BY <1>2, <1>3

LEMMA EndChannel ==
    ASSUME Inv, NEW value \in {Unresolved, EndValue}, End(value)
    PROVE  Channel!Next
<1> DEFINE W == {c \in Consumers : consumer[c] = "waiting"}
<1>1. /\ done' = TRUE /\ queue' = queue /\ received' = received /\ pushed' = pushed
      /\ consumer' = [c \in Consumers |-> IF consumer[c] = "waiting" THEN "over" ELSE consumer[c]]
    BY DEF End
<1>2. W # {} => queue = <<>>
    BY DEF Inv, WaitersAreStarved, TypeOK
<1>3. W # {} => pushed - Len(queue) = pushed
    <2>1. pushed \in Nat
        BY DEF Inv, TypeOK
    <2>2. W # {} => Len(queue) = 0
        BY <1>2, EmptyFacts
    <2> QED
        BY <2>1, <2>2
<1>4. {c \in Consumers : consumer'[c] \in {"over", "returned"}}
        = {c \in Consumers : consumer[c] \in {"over", "returned"}} \cup W
    BY <1>1
<1>5. W \in SUBSET Consumers
    OBVIOUS
<1> HIDE DEF W
<1>6. \E X \in SUBSET Consumers : Channel!Close(X)
    BY <1>1, <1>3, <1>4, <1>5 DEF Channel!Close
<1> QED
    BY <1>6 DEF Channel!Next

LEMMA TakeChannel ==
    ASSUME Inv, NEW c \in Consumers, Take(c)
    PROVE  Channel!Next
<1>1. /\ queue # <<>> /\ queue \in Seq(1..MaxEvents) /\ queue' = Tail(queue)
      /\ received' = [received EXCEPT ![c] = Append(received[c], Head(queue))]
      /\ done' = done /\ consumer' = consumer /\ pushed' = pushed /\ consumer[c] = "body"
    BY DEF Take, Inv, TypeOK
<1>2. /\ Len(queue') = Len(queue) - 1 /\ Len(queue) \in Nat \ {0} /\ pushed \in Nat
      /\ Len(queue) <= pushed
    BY <1>1, TailFacts DEF Inv, TypeOK, QueueIsTheRest
<1>3. Head(queue) = pushed - Len(queue) + 1
    BY <1>1, TailFacts DEF Inv, QueueIsTheRest
<1>4. pushed' - Len(queue') = pushed - Len(queue) + 1 /\ pushed - Len(queue) < pushed
    BY <1>1, <1>2
<1>5. received' = [received EXCEPT ![c] = Append(received[c], pushed - Len(queue) + 1)]
    BY <1>1, <1>3
<1>6. c \notin {d \in Consumers : consumer[d] \in {"over", "returned"}}
    BY <1>1
<1>7. Channel!Deliver(c)
    BY <1>1, <1>4, <1>5, <1>6 DEF Channel!Deliver
<1> QED
    BY <1>7 DEF Channel!Next

LEMMA MoveChannel ==
    ASSUME Inv, NEW c \in Consumers, ReachEnd(c) \/ Wait(c) \/ Resume(c) \/ Leave(c)
    PROVE  Channel!Next \/ UNCHANGED Channel!channelVars
<1> DEFINE Over == {d \in Consumers : consumer[d] \in {"over", "returned"}}
<1>1. queue' = queue /\ done' = done /\ received' = received /\ pushed' = pushed
    BY DEF ReachEnd, Wait, Resume, Leave
<1>2. CASE ReachEnd(c)
    <2>1. done /\ pushed - Len(queue) = pushed
        BY <1>2, EmptyFacts DEF ReachEnd, Inv, TypeOK
    <2>2. Over' = Over \cup {c}
        BY <1>2 DEF ReachEnd, Inv, TypeOK
    <2>3. Channel!Finish(c)
        BY <1>1, <2>1, <2>2 DEF Channel!Finish
    <2> QED
        BY <2>3 DEF Channel!Next
<1>3. CASE Wait(c)
    <2>1. Over' = Over
        BY <1>3 DEF Wait, Inv, TypeOK
    <2> QED
        BY <1>1, <2>1 DEF Channel!channelVars
<1>4. CASE Resume(c)
    <2>1. Over' = Over
        BY <1>4 DEF Resume, Inv, TypeOK
    <2> QED
        BY <1>1, <2>1 DEF Channel!channelVars
<1>5. CASE Leave(c)
    <2>1. Over' = Over \cup {c}
        BY <1>5 DEF Leave, Inv, TypeOK
    <2>2. Channel!Leave(c)
        BY <1>1, <2>1 DEF Channel!Leave
    <2> QED
        BY <2>2 DEF Channel!Next
<1> QED
    BY <1>2, <1>3, <1>4, <1>5

LEMMA NextChannel == Inv /\ [Next]_vars => [Channel!Next]_(Channel!channelVars)
<1> SUFFICES ASSUME Inv, [Next]_vars
             PROVE  Channel!Next \/ UNCHANGED Channel!channelVars
    OBVIOUS
<1>1. CASE UNCHANGED vars
    BY <1>1 DEF vars, Channel!channelVars
<1> QED
    BY <1>1, PushChannel, EndChannel, TakeChannel, MoveChannel DEF Next, ConsumerStep

(* The stream implements the channel: events are handed out in the order   *)
(* they were pushed, each once, none after the end, and an iteration       *)
(* returns by itself only when every event was handed out.                 *)
THEOREM StreamImplementsChannel == Spec => ImplementsChannel
<1>1. Spec => []Inv
    BY InitInv, NextInv, PTL DEF Spec
<1> QED
    BY <1>1, InitChannel, NextChannel, PTL DEF Spec, ImplementsChannel, Channel!Spec
=============================================================================
