-------------------------- MODULE ChatBridgeProofs --------------------------
(* Proofs about ChatBridge, for any senders, limits and bounds: prompts    *)
(* are serialized per sender and bounded by maxConcurrent, no wakeup is    *)
(* lost, and the messages of a sender are answered in order.  Take, the    *)
(* one way a prompt starts, is studied for any bridge state b and any set  *)
(* of waiting sessions S; the handlers are then compositions of it.        *)
EXTENDS ChatBridge, SharedFacts, FiniteSetTheorems, SequenceTheorems, TLAPS

-----------------------------------------------------------------------------
(* Turn counts the waiting sessions up to one of them.                     *)

FirstOf(W, free) == {i \in W : Turn(W, i) <= free}

(* The first free of a set of waiting sessions, in the order of creation,  *)
(* are free of them, or all there are.                                     *)
LEMMA TurnBounds ==
    ASSUME NEW n \in Nat, NEW W, W \subseteq 1..n, NEW free \in Nat
    PROVE  /\ IsFiniteSet(FirstOf(W, free))
           /\ Cardinality(FirstOf(W, free)) <= free
           /\ FirstOf(W, free) # W => Cardinality(FirstOf(W, free)) = free
<1> DEFINE T == {i \in W : Turn(W, i) <= free}
           UpTo(i) == {j \in W : j <= i}
<1>1. IsFiniteSet(W) /\ IsFiniteSet(T) /\ W \subseteq Nat
    <2>1. IsFiniteSet(1..n)
        BY FS_Interval
    <2>2. IsFiniteSet(W)
        BY <2>1, FS_Subset
    <2>3. T \subseteq W
        OBVIOUS
    <2>4. IsFiniteSet(T)
        BY <2>2, <2>3, FS_Subset
    <2> QED
        BY <2>2, <2>4
<1>2. \A i \in W : IsFiniteSet(UpTo(i)) /\ Turn(W, i) = Cardinality(UpTo(i)) /\ Turn(W, i) \in Nat
    BY <1>1, FS_Subset, FS_CardinalityType DEF Turn
<1>3. \A i, j \in W : i <= j => Turn(W, i) <= Turn(W, j)
    <2> SUFFICES ASSUME NEW i \in W, NEW j \in W, i <= j PROVE Turn(W, i) <= Turn(W, j)
        OBVIOUS
    <2>1. UpTo(i) \subseteq UpTo(j)
        <3> SUFFICES ASSUME NEW k \in UpTo(i) PROVE k <= j
            OBVIOUS
        <3>1. k \in Nat /\ i \in Nat /\ j \in Nat /\ k <= i
            BY <1>1
        <3> QED
            BY <3>1
    <2> QED
        BY <1>2, <2>1, FS_Subset
<1>4. Cardinality(T) \in Nat
    BY <1>1, FS_CardinalityType
<1>5. Cardinality(T) <= free
    <2>1. CASE T = {}
        BY <2>1, FS_EmptySet
    <2>2. CASE T # {}
        <3>1. PICK g \in T : \A y \in T : y <= g
            BY <2>2, GreatestNatural
        <3>2. T \subseteq UpTo(g)
            BY <3>1
        <3>3. Cardinality(T) <= Cardinality(UpTo(g))
            BY <1>2, <3>2, FS_Subset
        <3> QED
            BY <1>2, <1>4, <3>1, <3>3
    <2> QED
        BY <2>1, <2>2
<1>6. ASSUME T # W PROVE Cardinality(T) = free
    <2>0. W \ T # {} /\ W \ T \subseteq Nat
        BY <1>1, <1>6
    <2>1. PICK r \in W \ T : \A y \in W \ T : r <= y
        <3> HIDE DEF T
        <3> QED
            BY <2>0, LeastNatural
    <2>2. UpTo(r) = T \cup {r}
        <3>1. ASSUME NEW k \in UpTo(r), k # r PROVE k \in T
            <4>1. k \in Nat /\ r \in Nat /\ k < r
                BY <1>1, <3>1
            <4> QED
                BY <2>1, <4>1
        <3>2. ASSUME NEW k \in T PROVE k <= r
            <4>1. k \in Nat /\ r \in Nat
                BY <1>1
            <4>2. ASSUME r <= k PROVE FALSE
                <5>1. Turn(W, r) <= Turn(W, k) /\ Turn(W, k) <= free /\ ~(Turn(W, r) <= free)
                    BY <1>3, <4>2
                <5>2. Turn(W, r) \in Nat /\ Turn(W, k) \in Nat
                    BY <1>2
                <5> QED
                    BY <5>1, <5>2
            <4> QED
                BY <4>1, <4>2
        <3>3. r <= r
            BY <1>1
        <3> QED
            BY <3>1, <3>2, <3>3
    <2>3. Turn(W, r) = Cardinality(T) + 1
        <3>1. r \notin T /\ Turn(W, r) = Cardinality(T \cup {r})
            BY <1>2, <2>2
        <3> HIDE DEF T
        <3> QED
            BY <1>1, <3>1, FS_AddElement
    <2>4. Turn(W, r) \in Nat /\ ~(Turn(W, r) <= free)
        BY <1>2, <2>1
    <2> QED
        BY <1>4, <1>5, <2>3, <2>4
<1> QED
    BY <1>1, <1>5, <1>6 DEF FirstOf

-----------------------------------------------------------------------------
(* The invariant, stated for a bridge state b and a map.                   *)

Object == [key : Keys, queue : Seq(MessageIds), processing : BOOLEAN]
Message == [key : Keys, fate : {"pending", "answered", "dropped"}]
BridgeState == [object : Seq(Object), activeCount : Int,
                inFlight : SUBSET (Nat \X MessageIds), messages : Seq(Message)]

\* A prompt in flight keeps its session object busy, and no two share one.
Busy(b) ==
    /\ b \in BridgeState
    /\ IsFiniteSet(b.inFlight)
    /\ \A p \in b.inFlight : p[1] \in DOMAIN b.object /\ b.object[p[1]].processing
    /\ \A p, q \in b.inFlight : p[1] = q[1] => p = q

\* The slots are those of the prompts in flight.
Counted(b) == b.activeCount = Cardinality(b.inFlight) /\ b.activeCount <= MaxConcurrent

KeysDiffer(b, map) ==
    /\ map \subseteq DOMAIN b.object
    /\ \A i, j \in map : b.object[i].key = b.object[j].key => i = j

PendingOf(b, i, m) ==
    m \in DOMAIN b.messages /\ b.messages[m].key = b.object[i].key /\ b.messages[m].fate = "pending"

\* What is pending is in flight or queued, in the order it came.
Orderly(b, map) ==
    /\ \A p \in b.inFlight :
           /\ p[1] \in map /\ PendingOf(b, p[1], p[2])
           /\ \A n \in DOMAIN b.object[p[1]].queue : p[2] < b.object[p[1]].queue[n]
    /\ \A i \in map : \A n \in DOMAIN b.object[i].queue :
           /\ PendingOf(b, i, b.object[i].queue[n])
           /\ \A l \in DOMAIN b.object[i].queue :
                  n < l => b.object[i].queue[n] < b.object[i].queue[l]
    /\ \A m \in DOMAIN b.messages : b.messages[m].fate = "pending" =>
           \/ \E p \in b.inFlight : p[2] = m
           \/ \E i \in map : \E n \in DOMAIN b.object[i].queue : b.object[i].queue[n] = m
    /\ \A m, n \in DOMAIN b.messages :
           m < n /\ b.messages[m].key = b.messages[n].key /\ b.messages[n].fate = "answered"
               => b.messages[m].fate # "pending"

NobodyIdles(b, map) ==
    gateway /\ b.activeCount < MaxConcurrent => \A i \in map : ~Waiting(b.object, i)

-----------------------------------------------------------------------------
(* Take.                                                                   *)

LEMMA TakeBusy ==
    ASSUME NEW b, Busy(b), NEW S, S \subseteq DOMAIN b.object, \A i \in S : Waiting(b.object, i),
           gateway \in BOOLEAN
    PROVE  LET t == Take(b, S)
           IN  /\ Busy(t)
               /\ DOMAIN t.object = DOMAIN b.object
               /\ \A i \in DOMAIN b.object : t.object[i].key = b.object[i].key
               /\ \A i \in DOMAIN b.object \ S : t.object[i] = b.object[i]
               /\ gateway => \A i \in S : ~Waiting(t.object, i)
               /\ DOMAIN t.messages = DOMAIN b.messages
<1> DEFINE heads == {<<i, Head(b.object[i].queue)>> : i \in S}
           t == Take(b, S)
<1>1. /\ b.object \in Seq(Object) /\ b.activeCount \in Int /\ b.messages \in Seq(Message)
      /\ b.inFlight \subseteq Nat \X MessageIds
    BY DEF Busy, BridgeState
<1>l. DOMAIN b.object = 1..Len(b.object) /\ Len(b.object) \in Nat
    BY <1>1
<1>e. \A i \in DOMAIN b.object : b.object[i] \in Object
    BY <1>1, <1>l, ElementOfSeq
<1>2. \A i \in S : /\ b.object[i] \in Object /\ b.object[i].queue # <<>>
                   /\ Head(b.object[i].queue) \in MessageIds
                   /\ Tail(b.object[i].queue) \in Seq(MessageIds)
                   /\ ~b.object[i].processing
    <2> SUFFICES ASSUME NEW i \in S
                 PROVE  /\ b.object[i] \in Object /\ b.object[i].queue # <<>>
                        /\ Head(b.object[i].queue) \in MessageIds
                        /\ Tail(b.object[i].queue) \in Seq(MessageIds)
                        /\ ~b.object[i].processing
        OBVIOUS
    <2>1. b.object[i] \in Object /\ b.object[i].queue # <<>> /\ ~b.object[i].processing
        BY <1>e DEF Waiting
    <2>2. b.object[i].queue \in Seq(MessageIds)
        BY <2>1 DEF Object
    <2> QED
        BY <2>1, <2>2, HeadTailProperties
<1>3. IsFiniteSet(S)
    <2>1. IsFiniteSet(DOMAIN b.object)
        BY <1>l, FS_Interval
    <2> QED
        BY <2>1, FS_Subset
<1>4. Cardinality(S) \in Nat
    BY <1>3, FS_CardinalityType
<1>5. heads \subseteq Nat \X MessageIds
    BY <1>1, <1>2
<1>6. IsFiniteSet(heads)
    <2> DEFINE f == [i \in S |-> <<i, Head(b.object[i].queue)>>]
    <2>1. f \in Surjection(S, heads)
        BY DEF Surjection
    <2> QED
        BY <1>3, <2>1, FS_Surjection
<1>7. t.object \in Seq(Object) /\ DOMAIN t.object = DOMAIN b.object
    <2>1. DOMAIN t.object = 1..Len(b.object) /\ t.object = [i \in 1..Len(b.object) |-> t.object[i]]
        BY <1>l DEF Take
    <2>2. ASSUME NEW i \in 1..Len(b.object) PROVE t.object[i] \in Object
        BY <1>2, <1>e, <1>l DEF Take, Object
    <2> HIDE DEF t
    <2> QED
        BY <1>l, <2>1, <2>2, SeqOfFunction
<1>8. t.activeCount \in Int
    BY <1>1, <1>4 DEF Take
<1>9. t.inFlight \in SUBSET (Nat \X MessageIds) /\ IsFiniteSet(t.inFlight)
    <2>1. IsFiniteSet(b.inFlight \cup heads)
        BY <1>6, FS_Union DEF Busy
    <2> QED
        BY <1>1, <1>5, <2>1 DEF Take, Busy
<1>10. t.messages \in Seq(Message) /\ DOMAIN t.messages = DOMAIN b.messages
    <2> DEFINE M == {h[2] : h \in heads}
    <2>1. t.messages = IF gateway THEN b.messages ELSE Mark(b.messages, M, "answered")
        BY DEF Take
    <2>2. DOMAIN b.messages = 1..Len(b.messages) /\ Len(b.messages) \in Nat
        BY <1>1
    <2>3. \A m \in 1..Len(b.messages) : b.messages[m] \in Message
        BY <1>1, <2>2, ElementOfSeq
    <2> HIDE DEF t, M
    <2> DEFINE marked == Mark(b.messages, M, "answered")
    <2>4. DOMAIN marked = 1..Len(b.messages) /\ marked = [m \in 1..Len(b.messages) |-> marked[m]]
        BY <2>2 DEF Mark
    <2>5. \A m \in 1..Len(b.messages) : marked[m] \in Message
        BY <2>2, <2>3 DEF Mark, Message
    <2> HIDE DEF marked
    <2>6. marked \in Seq(Message)
        BY <2>2, <2>4, <2>5, SeqOfFunction
    <2> QED
        BY <1>1, <2>1, <2>2, <2>4, <2>6 DEF marked
<1>11. t \in BridgeState
    <2>1. t = [object |-> t.object, activeCount |-> t.activeCount, inFlight |-> t.inFlight,
               messages |-> t.messages]
        BY DEF Take
    <2> HIDE DEF t
    <2> QED
        BY <1>7, <1>8, <1>9, <1>10, <2>1 DEF BridgeState
<1>12. /\ \A i \in DOMAIN b.object : t.object[i].key = b.object[i].key
       /\ \A i \in DOMAIN b.object \ S : t.object[i] = b.object[i]
       /\ \A i \in S : t.object[i].processing = gateway
    BY <1>1, <1>2 DEF Take, Object
<1>13. t.inFlight = IF gateway THEN b.inFlight \cup heads ELSE b.inFlight
    BY DEF Take
<1> HIDE DEF t
<1>14. \A p \in t.inFlight : p[1] \in DOMAIN t.object /\ t.object[p[1]].processing
    <2> SUFFICES ASSUME NEW p \in t.inFlight
                 PROVE  p[1] \in DOMAIN t.object /\ t.object[p[1]].processing
        OBVIOUS
    <2>1. CASE p \in b.inFlight
        BY <2>1, <1>2, <1>7, <1>12 DEF Busy
    <2>2. CASE p \notin b.inFlight
        BY <2>2, <1>7, <1>12, <1>13
    <2> QED
        BY <2>1, <2>2
<1>15. \A p, q \in t.inFlight : p[1] = q[1] => p = q
    <2>1. \A p \in b.inFlight : p[1] \notin S
        BY <1>2 DEF Busy
    <2> QED
        BY <1>13, <2>1 DEF Busy
<1>16. gateway => \A i \in S : ~Waiting(t.object, i)
    BY <1>12 DEF Waiting
<1> QED
    BY <1>7, <1>9, <1>10, <1>11, <1>12, <1>14, <1>15, <1>16 DEF Busy, t

LEMMA TakeCounted ==
    ASSUME NEW b, Busy(b), Counted(b), NEW S, S \subseteq DOMAIN b.object,
           \A i \in S : Waiting(b.object, i),
           IsFiniteSet(S), gateway => Cardinality(S) <= MaxConcurrent - b.activeCount
    PROVE  Counted(Take(b, S))
<1> DEFINE heads == {<<i, Head(b.object[i].queue)>> : i \in S}
           f == [i \in S |-> <<i, Head(b.object[i].queue)>>]
           t == Take(b, S)
<1>1. CASE gateway
    <2>1. f \in Surjection(S, heads) /\ f \in Injection(S, heads)
        BY DEF Surjection, Injection, IsInjective
    <2>2. IsFiniteSet(heads) /\ Cardinality(heads) = Cardinality(S)
        BY <2>1, FS_Surjection
    <2>3. b.inFlight \cap heads = {}
        BY DEF Busy, Waiting
    <2>4. t.inFlight = b.inFlight \cup heads /\ t.activeCount = b.activeCount + Cardinality(S)
        BY <1>1 DEF Take
    <2> HIDE DEF heads, t
    <2>5. Cardinality(t.inFlight) = Cardinality(b.inFlight) + Cardinality(heads)
        <3>1. IsFiniteSet(b.inFlight)
            BY DEF Busy
        <3>2. Cardinality(b.inFlight \cup heads)
              = Cardinality(b.inFlight) + Cardinality(heads) - Cardinality(b.inFlight \cap heads)
            BY <3>1, <2>2, FS_Union
        <3>3. Cardinality({}) = 0 /\ Cardinality(b.inFlight) \in Nat /\ Cardinality(heads) \in Nat
            BY <3>1, <2>2, FS_EmptySet, FS_CardinalityType
        <3>4. Cardinality(b.inFlight \cap heads) = 0
            BY <2>3, <3>3
        <3> QED
            BY <2>4, <3>2, <3>3, <3>4
    <2>6. Cardinality(S) \in Nat /\ b.activeCount \in Int
        BY FS_CardinalityType DEF Busy, BridgeState
    <2> QED
        BY <1>1, <2>2, <2>4, <2>5, <2>6, BridgeAssumption DEF Counted, t
<1>2. CASE ~gateway
    <2>1. t.inFlight = b.inFlight /\ t.activeCount = b.activeCount + 0
        BY <1>2 DEF Take
    <2>2. b.activeCount \in Int
        BY DEF Busy, BridgeState
    <2> HIDE DEF t
    <2>3. Counted(t)
        BY <2>1, <2>2 DEF Counted
    <2> QED
        BY <2>3 DEF t
<1> QED
    BY <1>1, <1>2

LEMMA TakeOrderly ==
    ASSUME NEW b, Busy(b), NEW map, KeysDiffer(b, map), Orderly(b, map),
           NEW S, S \subseteq map, \A i \in S : Waiting(b.object, i), gateway \in BOOLEAN
    PROVE  Orderly(Take(b, S), map)
<1> DEFINE heads == {<<i, Head(b.object[i].queue)>> : i \in S}
           M == {h[2] : h \in heads}
           t == Take(b, S)
<1>1. S \subseteq DOMAIN b.object
    BY DEF KeysDiffer
<1>2. /\ Busy(t) /\ DOMAIN t.object = DOMAIN b.object /\ DOMAIN t.messages = DOMAIN b.messages
      /\ \A i \in DOMAIN b.object : t.object[i].key = b.object[i].key
      /\ \A i \in DOMAIN b.object \ S : t.object[i] = b.object[i]
    BY <1>1, TakeBusy
<1>3. /\ b.object \in Seq(Object) /\ DOMAIN b.object = 1..Len(b.object)
      /\ b.messages \in Seq(Message) /\ DOMAIN b.messages = 1..Len(b.messages)
    BY DEF Busy, BridgeState
<1>4. ASSUME NEW i \in S
      PROVE  /\ DOMAIN b.object[i].queue = 1..Len(b.object[i].queue)
             /\ Len(b.object[i].queue) \in Nat \ {0}
             /\ Head(b.object[i].queue) = b.object[i].queue[1]
             /\ DOMAIN t.object[i].queue = 1..(Len(b.object[i].queue) - 1)
             /\ \A n \in 1..(Len(b.object[i].queue) - 1) :
                    t.object[i].queue[n] = b.object[i].queue[n + 1]
    <2>1. b.object[i] \in Object
        BY <1>1, <1>3, ElementOfSeq
    <2>2. b.object[i].queue \in Seq(MessageIds) /\ b.object[i].queue # <<>>
        BY <2>1 DEF Object, Waiting
    <2>3. t.object[i].queue = Tail(b.object[i].queue)
        BY <1>1, <2>1 DEF Take, Object
    <2> HIDE DEF t
    <2> QED
        BY <2>2, <2>3, HeadTailProperties, LenProperties
<1> HIDE DEF t
<1>q. ASSUME NEW i \in S
      PROVE  /\ 1 \in DOMAIN b.object[i].queue /\ Head(b.object[i].queue) = b.object[i].queue[1]
             /\ \A n \in DOMAIN t.object[i].queue :
                    /\ n \in Nat /\ n + 1 \in Nat /\ 1 < n + 1 /\ n + 1 \in DOMAIN b.object[i].queue
                    /\ t.object[i].queue[n] = b.object[i].queue[n + 1]
             /\ \A n \in DOMAIN b.object[i].queue :
                    n # 1 => /\ n - 1 \in DOMAIN t.object[i].queue
                             /\ t.object[i].queue[n - 1] = b.object[i].queue[n]
    <2>1. 1 \in DOMAIN b.object[i].queue /\ Head(b.object[i].queue) = b.object[i].queue[1]
        BY <1>4
    <2>2. ASSUME NEW n \in DOMAIN t.object[i].queue
          PROVE  /\ n \in Nat /\ n + 1 \in Nat /\ 1 < n + 1 /\ n + 1 \in DOMAIN b.object[i].queue
                 /\ t.object[i].queue[n] = b.object[i].queue[n + 1]
        <3>1. n \in 1..(Len(b.object[i].queue) - 1) /\ Len(b.object[i].queue) \in Nat
            BY <1>4
        <3>2. n \in Nat /\ n + 1 \in Nat /\ 1 < n + 1 /\ n + 1 \in 1..Len(b.object[i].queue)
            BY <3>1
        <3> QED
            BY <1>4, <3>1, <3>2
    <2>3. ASSUME NEW n \in DOMAIN b.object[i].queue, n # 1
          PROVE  /\ n - 1 \in DOMAIN t.object[i].queue
                 /\ t.object[i].queue[n - 1] = b.object[i].queue[n]
        <3>1. n - 1 \in 1..(Len(b.object[i].queue) - 1) /\ (n - 1) + 1 = n
            BY <1>4, <2>3
        <3> QED
            BY <1>4, <3>1
    <2> QED
        BY <2>1, <2>2, <2>3
<1>5. /\ t.inFlight = IF gateway THEN b.inFlight \cup heads ELSE b.inFlight
      /\ \A m \in DOMAIN b.messages :
             /\ t.messages[m].key = b.messages[m].key
             /\ t.messages[m].fate = IF ~gateway /\ m \in M THEN "answered"
                                     ELSE b.messages[m].fate
    <2>1. \A m \in DOMAIN b.messages : b.messages[m] \in Message
        BY <1>3, ElementOfSeq
    <2> QED
        BY <2>1 DEF t, Take, Mark, Message
<1>6. \A p \in b.inFlight : p[1] \in map \ S /\ p[1] \in DOMAIN b.object
    BY DEF Orderly, Busy, Waiting
<1>7. \A i \in map : \A n \in DOMAIN b.object[i].queue :
          /\ PendingOf(b, i, b.object[i].queue[n])
          /\ \A l \in DOMAIN b.object[i].queue :
                 n < l => b.object[i].queue[n] < b.object[i].queue[l]
    BY DEF Orderly
<1>8. \A m \in M : \E i \in S : m = b.object[i].queue[1] /\ PendingOf(b, i, m)
    BY <1>4, <1>7
<1>9. \A p \in b.inFlight : PendingOf(b, p[1], p[2]) /\ p[2] \notin M
    <2> SUFFICES ASSUME NEW p \in b.inFlight PROVE PendingOf(b, p[1], p[2]) /\ p[2] \notin M
        OBVIOUS
    <2>1. PendingOf(b, p[1], p[2])
        BY DEF Orderly
    <2>2. \A i \in S : ~PendingOf(b, i, p[2])
        BY <1>6, <2>1 DEF PendingOf, KeysDiffer
    <2> QED
        BY <1>8, <2>1, <2>2
<1>10. \A i \in map, m \in Nat : PendingOf(b, i, m) /\ m \notin M => PendingOf(t, i, m)
    BY <1>2, <1>5 DEF PendingOf, KeysDiffer
<1>11. \A i \in map, m \in Nat : PendingOf(b, i, m) /\ gateway => PendingOf(t, i, m)
    BY <1>2, <1>5 DEF PendingOf, KeysDiffer
<1> HIDE DEF M
(* What stays in the queue of a session is not taken.                      *)
<1>12. \A i \in map : \A n \in DOMAIN t.object[i].queue :
           /\ PendingOf(t, i, t.object[i].queue[n])
           /\ \A l \in DOMAIN t.object[i].queue :
                  n < l => t.object[i].queue[n] < t.object[i].queue[l]
    <2> SUFFICES ASSUME NEW i \in map, NEW n \in DOMAIN t.object[i].queue
                 PROVE  /\ PendingOf(t, i, t.object[i].queue[n])
                        /\ \A l \in DOMAIN t.object[i].queue :
                               n < l => t.object[i].queue[n] < t.object[i].queue[l]
        OBVIOUS
    <2>1. CASE i \in S
        <3>1. PendingOf(b, i, t.object[i].queue[n])
            BY <2>1, <1>q, <1>7
        <3>2. b.object[i].queue[1] < t.object[i].queue[n]
            BY <2>1, <1>q, <1>7
        <3>3. ASSUME t.object[i].queue[n] \in M PROVE FALSE
            <4>1. PICK j \in S : /\ t.object[i].queue[n] = b.object[j].queue[1]
                                 /\ PendingOf(b, j, t.object[i].queue[n])
                BY <1>8, <3>3
            <4>2. i = j
                BY <3>1, <4>1 DEF PendingOf, KeysDiffer
            <4>3. b.object[i].queue[1] \in Nat
                BY <2>1, <1>4, <1>7, <1>3 DEF PendingOf
            <4> QED
                BY <3>2, <4>1, <4>2, <4>3
        <3>4. t.object[i].queue[n] \in Nat
            BY <3>1, <1>3 DEF PendingOf
        <3>5. ASSUME NEW l \in DOMAIN t.object[i].queue, n < l
              PROVE  t.object[i].queue[n] < t.object[i].queue[l]
            <4>1. n + 1 < l + 1
                BY <2>1, <3>5, <1>q
            <4> QED
                BY <2>1, <4>1, <1>q, <1>7
        <3> QED
            BY <3>1, <3>3, <3>4, <3>5, <1>10
    <2>2. CASE i \notin S
        <3>1. t.object[i] = b.object[i]
            BY <2>2, <1>2 DEF KeysDiffer
        <3>2. PendingOf(b, i, t.object[i].queue[n])
            BY <3>1, <1>7
        <3>3. t.object[i].queue[n] \notin M
            BY <2>2, <3>2, <1>8 DEF PendingOf, KeysDiffer
        <3>4. t.object[i].queue[n] \in Nat
            BY <3>2, <1>3 DEF PendingOf
        <3> QED
            BY <3>1, <3>2, <3>3, <3>4, <1>7, <1>10
    <2> QED
        BY <2>1, <2>2
<1>13. \A p \in t.inFlight :
           /\ p[1] \in map /\ PendingOf(t, p[1], p[2])
           /\ \A n \in DOMAIN t.object[p[1]].queue : p[2] < t.object[p[1]].queue[n]
    <2> SUFFICES ASSUME NEW p \in t.inFlight
                 PROVE  /\ p[1] \in map /\ PendingOf(t, p[1], p[2])
                        /\ \A n \in DOMAIN t.object[p[1]].queue : p[2] < t.object[p[1]].queue[n]
        OBVIOUS
    <2>1. CASE p \in b.inFlight
        <3>1. p[2] \in Nat /\ t.object[p[1]] = b.object[p[1]]
            BY <2>1, <1>2, <1>3, <1>6, <1>9 DEF PendingOf
        <3> QED
            BY <2>1, <3>1, <1>6, <1>9, <1>10 DEF Orderly
    <2>2. CASE p \notin b.inFlight
        <3>1. PICK i \in S : p = <<i, Head(b.object[i].queue)>>
            BY <2>2, <1>5
        <3>2. gateway /\ p[1] = i /\ p[2] = b.object[i].queue[1]
            BY <2>2, <3>1, <1>4, <1>5
        <3>3. PendingOf(b, i, p[2])
            BY <3>2, <1>q, <1>7
        <3>4. p[2] \in Nat
            BY <3>3, <1>3 DEF PendingOf
        <3> QED
            BY <3>2, <3>3, <3>4, <1>q, <1>7, <1>11
    <2> QED
        BY <2>1, <2>2
<1>14. \A m \in DOMAIN t.messages : t.messages[m].fate = "pending" =>
           \/ \E p \in t.inFlight : p[2] = m
           \/ \E i \in map : \E n \in DOMAIN t.object[i].queue : t.object[i].queue[n] = m
    <2> SUFFICES ASSUME NEW m \in DOMAIN b.messages, b.messages[m].fate = "pending",
                        gateway \/ m \notin M, \A p \in t.inFlight : p[2] # m
                 PROVE  \E i \in map : \E n \in DOMAIN t.object[i].queue : t.object[i].queue[n] = m
        BY <1>2, <1>5
    <2>1. PICK i \in map : \E n \in DOMAIN b.object[i].queue : b.object[i].queue[n] = m
        BY <1>5 DEF Orderly
    <2>2. PICK n \in DOMAIN b.object[i].queue : b.object[i].queue[n] = m
        BY <2>1
    <2>3. CASE i \in S
        <3>1. n # 1
            <4> SUFFICES ASSUME n = 1 PROVE FALSE
                OBVIOUS
            <4>0. <<i, m>> \in heads /\ <<i, m>>[2] = m
                BY <2>2, <2>3, <1>q
            <4>1. CASE gateway
                BY <4>0, <4>1, <1>5
            <4>2. CASE ~gateway
                BY <4>0, <4>2 DEF M
            <4> QED
                BY <4>1, <4>2
        <3>2. n - 1 \in DOMAIN t.object[i].queue /\ t.object[i].queue[n - 1] = m
            BY <2>2, <2>3, <3>1, <1>q
        <3> QED
            BY <3>2
    <2>4. CASE i \notin S
        BY <2>2, <2>4, <1>2 DEF KeysDiffer
    <2> QED
        BY <2>3, <2>4
<1>15. ASSUME NEW m \in DOMAIN t.messages, NEW n \in DOMAIN t.messages, m < n,
              t.messages[m].key = t.messages[n].key, t.messages[n].fate = "answered",
              t.messages[m].fate = "pending"
       PROVE  FALSE
    <2>1. /\ m \in DOMAIN b.messages /\ n \in DOMAIN b.messages /\ m \in Nat /\ n \in Nat
          /\ b.messages[m].key = b.messages[n].key /\ b.messages[m].fate = "pending"
        BY <1>15, <1>2, <1>3, <1>5
    <2>2. b.messages[n].fate # "answered"
        BY <2>1, <1>15 DEF Orderly
    <2>3. n \in M /\ ~gateway
        BY <1>15, <1>5, <2>1, <2>2
    <2>4. PICK i \in S : n = b.object[i].queue[1] /\ PendingOf(b, i, n)
        BY <2>3, <1>8
    <2>5. m \notin M
        BY <1>15, <1>5, <2>1, <2>3
    <2>6. CASE \E p \in b.inFlight : p[2] = m
        <3>1. PICK p \in b.inFlight : p[2] = m
            BY <2>6
        <3>2. p[1] = i
            BY <2>1, <2>4, <3>1, <1>6, <1>9 DEF PendingOf, KeysDiffer
        <3> QED
            BY <3>2, <1>6
    <2>7. CASE \E j \in map : \E l \in DOMAIN b.object[j].queue : b.object[j].queue[l] = m
        <3>1. PICK j \in map : \E l \in DOMAIN b.object[j].queue : b.object[j].queue[l] = m
            BY <2>7
        <3>2. PICK l \in DOMAIN b.object[j].queue : b.object[j].queue[l] = m
            BY <3>1
        <3>3. j = i
            BY <2>1, <2>4, <3>2, <1>7 DEF PendingOf, KeysDiffer
        <3>4. l # 1 => n < m
            BY <2>4, <3>2, <3>3, <1>4, <1>7
        <3> QED
            BY <1>15, <2>1, <2>4, <3>2, <3>3, <3>4
    <2> QED
        BY <2>1, <2>6, <2>7 DEF Orderly
<1> QED
    BY <1>12, <1>13, <1>14, <1>15 DEF Orderly, t

-----------------------------------------------------------------------------
(* processNext and drainWaiting.                                           *)

(* What both keep: c is the bridge after b has been through one of them.   *)
Kept(b, c, map) ==
    /\ Busy(c)
    /\ DOMAIN c.object = DOMAIN b.object /\ DOMAIN c.messages = DOMAIN b.messages
    /\ \A i \in DOMAIN b.object : c.object[i].key = b.object[i].key
    /\ KeysDiffer(c, map)
    /\ Counted(b) => Counted(c)
    /\ Orderly(b, map) => Orderly(c, map)

LEMMA ProcessNextKeeps ==
    ASSUME NEW b, Busy(b), NEW map, KeysDiffer(b, map), NEW k, gateway \in BOOLEAN
    PROVE  LET c == ProcessNext(b, map, k)
           IN  /\ Kept(b, c, map)
               /\ \A i \in map : b.object[i].key # k => c.object[i] = b.object[i]
               /\ gateway /\ c.activeCount < MaxConcurrent =>
                      \A i \in map : b.object[i].key = k => ~Waiting(c.object, i)
               /\ c.activeCount >= b.activeCount
<1> DEFINE S == {i \in map : b.object[i].key = k /\ Waiting(b.object, i)}
           c == ProcessNext(b, map, k)
<1>0. b.activeCount \in Int /\ MaxConcurrent \in Int
    BY BridgeAssumption DEF Busy, BridgeState
<1>1. CASE b.activeCount >= MaxConcurrent
    <2>1. c = b
        BY <1>1 DEF ProcessNext
    <2> HIDE DEF c
    <2> QED
        BY <1>0, <1>1, <2>1 DEF Kept, c
<1>2. CASE ~(b.activeCount >= MaxConcurrent)
    <2>1. c = Take(b, S)
        BY <1>2 DEF ProcessNext
    <2>2. S \subseteq map /\ S \subseteq DOMAIN b.object /\ \A i \in S : Waiting(b.object, i)
        BY DEF KeysDiffer
    <2>3. IsFiniteSet(S) /\ Cardinality(S) \in Nat /\ Cardinality(S) <= 1
        <3>1. CASE S = {}
            BY <3>1, FS_EmptySet
        <3>2. CASE S # {}
            <4>1. PICK i \in S : S = {i}
                BY <3>2 DEF KeysDiffer
            <4> HIDE DEF S
            <4> QED
                <5>1. IsFiniteSet({i}) /\ Cardinality({i}) = 1
                    BY FS_Singleton
                <5> QED
                    BY <4>1, <5>1
        <3> QED
            BY <3>1, <3>2
    <2>4. Cardinality(S) <= MaxConcurrent - b.activeCount
        BY <1>0, <1>2, <2>3
    <2>5. \A i \in map : i \notin S /\ b.object[i].key = k => ~Waiting(b.object, i)
        OBVIOUS
    <2>6. \A i \in map : b.object[i].key # k => i \in DOMAIN b.object \ S
        BY DEF KeysDiffer
    <2> HIDE DEF S, c
    <2>7. c.activeCount >= b.activeCount
        <3>1. c.activeCount = b.activeCount + IF gateway THEN Cardinality(S) ELSE 0
            BY <2>1 DEF Take
        <3> QED
            BY <1>0, <2>3, <3>1
    <2>8. /\ Busy(c) /\ DOMAIN c.object = DOMAIN b.object /\ DOMAIN c.messages = DOMAIN b.messages
          /\ \A i \in DOMAIN b.object : c.object[i].key = b.object[i].key
          /\ \A i \in DOMAIN b.object \ S : c.object[i] = b.object[i]
          /\ gateway => \A i \in S : ~Waiting(c.object, i)
        BY <2>1, <2>2, TakeBusy
    <2>9. Counted(b) => Counted(c)
        BY <2>1, <2>2, <2>3, <2>4, TakeCounted
    <2>10. Orderly(b, map) => Orderly(c, map)
        BY <2>1, <2>2, TakeOrderly
    <2>11. KeysDiffer(c, map)
        BY <2>8 DEF KeysDiffer
    <2>12. gateway => \A i \in map : b.object[i].key = k => ~Waiting(c.object, i)
        BY <2>5, <2>8 DEF KeysDiffer, Waiting
    <2> QED
        BY <2>6, <2>7, <2>8, <2>9, <2>10, <2>11, <2>12 DEF Kept, c
<1> QED
    BY <1>1, <1>2

LEMMA DrainWaitingKeeps ==
    ASSUME NEW b, Busy(b), KeysDiffer(b, sessions), gateway \in BOOLEAN
    PROVE  Kept(b, DrainWaiting(b), sessions) /\ NobodyIdles(DrainWaiting(b), sessions)
<1> DEFINE W == {i \in sessions : Waiting(b.object, i)}
           free == MaxConcurrent - b.activeCount
           S == {i \in W : Turn(W, i) <= free \/ (~gateway /\ free > 0)}
           T == FirstOf(W, free)
           c == DrainWaiting(b)
<1>0. b.activeCount \in Int /\ MaxConcurrent \in Int /\ free \in Int
    BY BridgeAssumption DEF Busy, BridgeState
<1>1. c = Take(b, S)
    BY DEF DrainWaiting
<1>2. DOMAIN b.object = 1..Len(b.object) /\ Len(b.object) \in Nat
    BY DEF Busy, BridgeState
<1>3. W \subseteq 1..Len(b.object) /\ S \subseteq sessions /\ T \subseteq W /\ S \subseteq W
    BY <1>2 DEF KeysDiffer, FirstOf
<1>4. S \subseteq DOMAIN b.object /\ \A i \in S : Waiting(b.object, i)
    BY <1>2, <1>3
<1>5. IsFiniteSet(1..Len(b.object))
    BY <1>2, FS_Interval
<1>6. IsFiniteSet(S) /\ IsFiniteSet(W)
    <2> HIDE DEF W, S
    <2> QED
        BY <1>2, <1>4, <1>3, <1>5, FS_Subset
<1>7. gateway => S = T
    BY DEF FirstOf
<1>8. free >= 0 =>
          Cardinality(T) <= free /\ (T # W => Cardinality(T) = free)
    <2> SUFFICES ASSUME free >= 0
                 PROVE  Cardinality(T) <= free /\ (T # W => Cardinality(T) = free)
        OBVIOUS
    <2>1. free \in Nat
        BY <1>0
    <2> HIDE DEF W, free
    <2> QED
        BY <1>2, <1>3, <2>1, TurnBounds
<1>9. Counted(b) => free >= 0
    BY <1>0 DEF Counted
<1> HIDE DEF W, S, T, c
<1>10. c.activeCount = b.activeCount + IF gateway THEN Cardinality(S) ELSE 0
    BY <1>1 DEF Take
<1>11. /\ Busy(c) /\ DOMAIN c.object = DOMAIN b.object /\ DOMAIN c.messages = DOMAIN b.messages
       /\ \A i \in DOMAIN b.object : c.object[i].key = b.object[i].key
       /\ \A i \in DOMAIN b.object \ S : c.object[i] = b.object[i]
       /\ gateway => \A i \in S : ~Waiting(c.object, i)
    BY <1>1, <1>4, TakeBusy
<1>12. Counted(b) => Counted(c)
    BY <1>1, <1>4, <1>6, <1>7, <1>8, <1>9, TakeCounted
<1>13. Orderly(b, sessions) => Orderly(c, sessions)
    BY <1>1, <1>3, <1>4, TakeOrderly
<1>14. KeysDiffer(c, sessions)
    BY <1>11 DEF KeysDiffer
<1>15. NobodyIdles(c, sessions)
    <2> SUFFICES ASSUME gateway, c.activeCount < MaxConcurrent, NEW i \in sessions
                 PROVE  ~Waiting(c.object, i)
        BY DEF NobodyIdles
    <2>1. Cardinality(S) \in Nat
        BY <1>6, FS_CardinalityType
    <2>2. c.activeCount = b.activeCount + Cardinality(S)
        BY <1>10
    <2>3. free > 0 /\ Cardinality(T) < free
        BY <1>0, <1>7, <2>1, <2>2
    <2>4. S = W
        BY <1>0, <1>7, <1>8, <2>1, <2>3
    <2>5. i \notin S => ~Waiting(b.object, i)
        BY <2>4 DEF W
    <2> QED
        BY <1>11, <2>5 DEF Waiting, KeysDiffer
<1> QED
    BY <1>11, <1>12, <1>13, <1>14, <1>15 DEF Kept, c

-----------------------------------------------------------------------------
(* The inductive invariant.                                                *)

BridgeInv ==
    /\ running \in BOOLEAN /\ gateway \in BOOLEAN
    /\ Busy(Bridge) /\ KeysDiffer(Bridge, sessions)
    /\ Len(messages) <= MaxMessages
    /\ "stop" \notin met => Counted(Bridge)
    /\ met = {} => Orderly(Bridge, sessions)
    /\ NobodyIdles(Bridge, sessions)

LEMMA BridgeFields ==
    /\ Bridge.object = object /\ Bridge.activeCount = activeCount
    /\ Bridge.inFlight = inFlight /\ Bridge.messages = messages
BY DEF Bridge

LEMMA BecomesBridge ==
    ASSUME NEW c, c \in BridgeState, Becomes(c)
    PROVE  Bridge' = c
BY DEF Becomes, Bridge, BridgeState

LEMMA InitInv == Init => BridgeInv
<1> SUFFICES ASSUME Init PROVE BridgeInv
    OBVIOUS
<1>1. /\ object = <<>> /\ messages = <<>> /\ inFlight = {} /\ activeCount = 0 /\ sessions = {}
      /\ running = TRUE /\ gateway = TRUE
    BY DEF Init
<1>2. /\ Bridge.object = <<>> /\ Bridge.messages = <<>> /\ Bridge.inFlight = {}
      /\ Bridge.activeCount = 0
    BY <1>1, BridgeFields
<1>3. Bridge \in BridgeState
    <2>1. <<>> \in Seq(Object) /\ <<>> \in Seq(Message)
        BY EmptySeq
    <2> QED
        BY <1>1, <2>1 DEF Bridge, BridgeState
<1>4. IsFiniteSet({}) /\ Cardinality({}) = 0 /\ Len(<<>>) = 0
    BY FS_EmptySet
<1>5. MaxMessages >= 0 /\ MaxConcurrent >= 0
    BY BridgeAssumption
<1> QED
    BY <1>1, <1>2, <1>3, <1>4, <1>5
    DEF BridgeInv, Busy, KeysDiffer, Counted, Orderly, NobodyIdles, Waiting

\* A session object is created for k when the map has none.
LEMMA OpenKeeps ==
    ASSUME BridgeInv, NEW k \in Keys
    PROVE  LET b == [Bridge EXCEPT !.object = Objects(k)]
           IN  /\ Busy(b) /\ KeysDiffer(b, Map(k))
               /\ SessionOf(k) \in Map(k) /\ b.object[SessionOf(k)].key = k
               /\ Counted(Bridge) => Counted(b)
               /\ Orderly(Bridge, sessions) => Orderly(b, Map(k))
               /\ NobodyIdles(b, Map(k))
<1> DEFINE b == [Bridge EXCEPT !.object = Objects(k)]
           n == Len(object) + 1
<1>1. /\ object \in Seq(Object) /\ Len(object) \in Nat /\ DOMAIN object = 1..Len(object)
      /\ activeCount \in Int /\ messages \in Seq(Message)
      /\ inFlight \in SUBSET (Nat \X MessageIds)
    BY BridgeFields DEF BridgeInv, Busy, BridgeState
<1>2. /\ b.object = Objects(k) /\ b.activeCount = activeCount
      /\ b.inFlight = inFlight /\ b.messages = messages
    BY DEF Bridge
<1>3. CASE KeyInMap(k)
    <2>1. Objects(k) = object /\ Map(k) = sessions
        BY <1>3 DEF Objects, Map
    <2>2. b = Bridge
        BY <2>1 DEF Bridge
    <2>3. SessionOf(k) \in sessions /\ object[SessionOf(k)].key = k
        BY <1>3 DEF SessionOf, KeyInMap
    <2> HIDE DEF b
    <2>4. /\ Busy(b) /\ KeysDiffer(b, Map(k))
          /\ SessionOf(k) \in Map(k) /\ b.object[SessionOf(k)].key = k
          /\ Counted(Bridge) => Counted(b)
          /\ Orderly(Bridge, sessions) => Orderly(b, Map(k))
          /\ NobodyIdles(b, Map(k))
        BY <2>1, <2>2, <2>3, BridgeFields DEF BridgeInv
    <2> QED
        BY <2>4 DEF b
<1>4. CASE ~KeyInMap(k)
    <2>1. /\ Objects(k) = Append(object, NewSession(k)) /\ Map(k) = sessions \cup {n}
          /\ SessionOf(k) = n
        BY <1>4 DEF Objects, Map, SessionOf
    <2>2. NewSession(k) \in Object /\ NewSession(k).key = k /\ NewSession(k).queue = <<>>
        <3>1. <<>> \in Seq(MessageIds)
            BY EmptySeq
        <3> QED
            BY <3>1 DEF NewSession, Object
    <2>3. /\ Objects(k) \in Seq(Object) /\ DOMAIN Objects(k) = 1..n /\ n \in 1..n
          /\ \A i \in 1..Len(object) : Objects(k)[i] = object[i] /\ i \in 1..n /\ i # n
          /\ Objects(k)[n] = NewSession(k)
        BY <1>1, <2>1, <2>2, AppendProperties
    <2>4. b \in BridgeState
        BY <1>1, <2>3 DEF Bridge, BridgeState
    <2> HIDE DEF b, n
    <2>5. Busy(b)
        BY <1>1, <1>2, <2>3, <2>4, BridgeFields DEF BridgeInv, Busy
    <2>6. \A i \in sessions : object[i].key # k /\ i \in 1..Len(object)
        BY <1>1, <1>4, BridgeFields DEF BridgeInv, KeysDiffer, KeyInMap
    <2>7. KeysDiffer(b, Map(k))
        BY <1>2, <2>1, <2>2, <2>3, <2>6, BridgeFields DEF BridgeInv, KeysDiffer
    <2>8. Counted(Bridge) => Counted(b)
        BY <1>2, BridgeFields DEF Counted
    <2>9. NobodyIdles(b, Map(k))
        BY <1>2, <2>1, <2>2, <2>3, <2>6, BridgeFields DEF BridgeInv, NobodyIdles, Waiting
    <2>10. Orderly(Bridge, sessions) => Orderly(b, Map(k))
        <3>1. \A i \in Map(k) : i \in sessions \/ Objects(k)[i].queue = <<>>
            BY <2>1, <2>2, <2>3
        <3>2. \A i \in sessions : Objects(k)[i] = object[i]
            BY <2>3, <2>6
        <3>3. DOMAIN <<>> = {}
            OBVIOUS
        <3>4. sessions \subseteq Map(k)
            BY <2>1
        <3>5. \A i \in sessions, m \in Nat : PendingOf(Bridge, i, m) => PendingOf(b, i, m)
            BY <1>2, <3>2, BridgeFields DEF PendingOf
        <3>6. \A m \in DOMAIN messages : m \in Nat
            BY <1>1
        <3> SUFFICES ASSUME Orderly(Bridge, sessions) PROVE Orderly(b, Map(k))
            OBVIOUS
        <3>7. \A p \in inFlight :
                  /\ p[1] \in Map(k) /\ PendingOf(b, p[1], p[2])
                  /\ \A l \in DOMAIN b.object[p[1]].queue : p[2] < b.object[p[1]].queue[l]
            <4> SUFFICES ASSUME NEW p \in inFlight
                         PROVE  /\ p[1] \in Map(k) /\ PendingOf(b, p[1], p[2])
                                /\ \A l \in DOMAIN b.object[p[1]].queue :
                                       p[2] < b.object[p[1]].queue[l]
                OBVIOUS
            <4>1. /\ p[1] \in sessions /\ PendingOf(Bridge, p[1], p[2])
                  /\ \A l \in DOMAIN object[p[1]].queue : p[2] < object[p[1]].queue[l]
                BY BridgeFields DEF Orderly
            <4>2. p[2] \in Nat
                BY <3>6, <4>1, BridgeFields DEF PendingOf
            <4> QED
                BY <1>2, <3>2, <3>4, <3>5, <4>1, <4>2
        <3>8. \A i \in Map(k) : \A l \in DOMAIN b.object[i].queue :
                  /\ PendingOf(b, i, b.object[i].queue[l])
                  /\ \A j \in DOMAIN b.object[i].queue :
                         l < j => b.object[i].queue[l] < b.object[i].queue[j]
            BY <1>2, <3>1, <3>2, <3>3, <3>5, <3>6, BridgeFields DEF Orderly, PendingOf
        <3>9. \A m \in DOMAIN messages : messages[m].fate = "pending" =>
                  \/ \E p \in inFlight : p[2] = m
                  \/ \E i \in Map(k) : \E l \in DOMAIN b.object[i].queue : b.object[i].queue[l] = m
            BY <1>2, <3>2, <3>4, BridgeFields DEF Orderly
        <3>10. \A m, l \in DOMAIN messages :
                   m < l /\ messages[m].key = messages[l].key /\ messages[l].fate = "answered"
                       => messages[m].fate # "pending"
            BY BridgeFields DEF Orderly
        <3> QED
            BY <1>2, <3>7, <3>8, <3>9, <3>10 DEF Orderly
    <2>11. /\ Busy(b) /\ KeysDiffer(b, Map(k))
           /\ SessionOf(k) \in Map(k) /\ b.object[SessionOf(k)].key = k
        BY <1>2, <2>1, <2>2, <2>3, <2>5, <2>7
    <2> QED
        BY <2>8, <2>9, <2>10, <2>11 DEF b
<1> QED
    BY <1>3, <1>4

\* A message of session i's key is accepted: it is queued behind the others.
LEMMA PushKeeps ==
    ASSUME NEW b, Busy(b), NEW map, KeysDiffer(b, map), NEW i \in map,
           Len(b.messages) < MaxMessages
    PROVE  LET n == Len(b.messages) + 1
               c == [b EXCEPT !.object = [b.object EXCEPT ![i].queue = Append(@, n)],
                              !.messages = Append(@, [key |-> b.object[i].key,
                                                      fate |-> "pending"])]
           IN  /\ Busy(c) /\ KeysDiffer(c, map) /\ Len(c.messages) = n
               /\ \A j \in DOMAIN b.object : c.object[j].key = b.object[j].key
               /\ \A j \in map : j # i => c.object[j] = b.object[j]
               /\ c.activeCount = b.activeCount
               /\ Counted(b) => Counted(c)
               /\ Orderly(b, map) => Orderly(c, map)
<1> DEFINE n == Len(b.messages) + 1
           msg == [key |-> b.object[i].key, fate |-> "pending"]
           c == [b EXCEPT !.object = [b.object EXCEPT ![i].queue = Append(@, n)],
                          !.messages = Append(@, msg)]
<1>1. /\ b.object \in Seq(Object) /\ DOMAIN b.object = 1..Len(b.object) /\ Len(b.object) \in Nat
      /\ b.activeCount \in Int /\ b.inFlight \in SUBSET (Nat \X MessageIds)
      /\ b.messages \in Seq(Message) /\ DOMAIN b.messages = 1..Len(b.messages)
      /\ Len(b.messages) \in Nat /\ i \in DOMAIN b.object
    BY DEF Busy, BridgeState, KeysDiffer
<1>2. \A j \in DOMAIN b.object : b.object[j] \in Object
    BY <1>1, ElementOfSeq
<1>3. /\ b.object[i].queue \in Seq(MessageIds) /\ b.object[i].key \in Keys
      /\ DOMAIN b.object[i].queue = 1..Len(b.object[i].queue) /\ Len(b.object[i].queue) \in Nat
    BY <1>1, <1>2 DEF Object
<1>4. n \in MessageIds /\ msg \in Message
    BY <1>1, <1>3, BridgeAssumption DEF MessageIds, Message
<1>5. DEFINE q == Append(b.object[i].queue, n)
             l == Len(b.object[i].queue) + 1
<1>6. /\ q \in Seq(MessageIds) /\ DOMAIN q = 1..l /\ q[l] = n
      /\ \A x \in 1..Len(b.object[i].queue) : q[x] = b.object[i].queue[x]
    BY <1>3, <1>4, AppendProperties
<1>7. /\ c.activeCount = b.activeCount /\ c.inFlight = b.inFlight
      /\ c.messages = Append(b.messages, msg)
      /\ c.object = [b.object EXCEPT ![i].queue = q]
    BY DEF Busy, BridgeState
<1>8. /\ DOMAIN c.object = DOMAIN b.object
      /\ c.object[i].queue = q /\ c.object[i].key = b.object[i].key
      /\ c.object[i].processing = b.object[i].processing
      /\ \A j \in DOMAIN b.object : j # i => c.object[j] = b.object[j]
    <2>1. DOMAIN c.object = DOMAIN b.object /\ c.object[i] = [b.object[i] EXCEPT !.queue = q]
        BY <1>1, <1>7
    <2>2. /\ c.object[i].queue = q /\ c.object[i].key = b.object[i].key
          /\ c.object[i].processing = b.object[i].processing
        BY <1>1, <1>2, <2>1 DEF Object
    <2>3. \A j \in DOMAIN b.object : j # i => c.object[j] = b.object[j]
        BY <1>1, <1>7
    <2> QED
        BY <2>1, <2>2, <2>3
<1>9. c.object \in Seq(Object)
    <2> DEFINE e == [b.object[i] EXCEPT !.queue = q]
    <2>1. e \in Object
        BY <1>1, <1>2, <1>6 DEF Object
    <2>2. c.object = [b.object EXCEPT ![i] = e]
        BY <1>7
    <2>3. i \in 1..Len(b.object)
        BY <1>1
    <2> HIDE DEF e, c
    <2>4. [b.object EXCEPT ![i] = e] \in Seq(Object)
        BY <1>1, <2>1, <2>3, ExceptSeq
    <2> QED
        BY <2>2, <2>4
<1>10. /\ c.messages \in Seq(Message) /\ DOMAIN c.messages = 1..n /\ Len(c.messages) = n
       /\ c.messages[n] = msg
       /\ \A m \in DOMAIN b.messages : m \in DOMAIN c.messages /\ c.messages[m] = b.messages[m]
    BY <1>1, <1>4, <1>7, AppendProperties
<1>11. c \in BridgeState
    BY <1>1, <1>7, <1>9, <1>10 DEF Busy, BridgeState
<1> HIDE DEF c, q, msg
<1>12. Busy(c)
    BY <1>1, <1>7, <1>8, <1>11 DEF Busy
<1>13. /\ KeysDiffer(c, map) /\ \A j \in DOMAIN b.object : c.object[j].key = b.object[j].key
       /\ \A j \in map : j # i => c.object[j] = b.object[j]
    BY <1>1, <1>8 DEF KeysDiffer
<1>14. Counted(b) => Counted(c)
    BY <1>7 DEF Counted
<1>15. ASSUME Orderly(b, map) PROVE Orderly(c, map)
    <2>1. \A j \in map, m \in Nat : PendingOf(b, j, m) => PendingOf(c, j, m) /\ m < n
        <3> SUFFICES ASSUME NEW j \in map, NEW m \in Nat, PendingOf(b, j, m)
                     PROVE  PendingOf(c, j, m) /\ m < n
            OBVIOUS
        <3>1. m \in DOMAIN b.messages /\ j \in DOMAIN b.object
            BY DEF PendingOf, KeysDiffer
        <3>2. m < n
            BY <1>1, <3>1
        <3> QED
            BY <1>10, <1>13, <3>1, <3>2 DEF PendingOf
    <2>2. PendingOf(c, i, n)
        BY <1>1, <1>8, <1>10 DEF PendingOf, msg
    <2>3. \A m \in DOMAIN b.messages : m \in Nat
        BY <1>1
    <2>4. \A p \in c.inFlight :
              /\ p[1] \in map /\ PendingOf(c, p[1], p[2])
              /\ \A x \in DOMAIN c.object[p[1]].queue : p[2] < c.object[p[1]].queue[x]
        <3> SUFFICES ASSUME NEW p \in b.inFlight
                     PROVE  /\ p[1] \in map /\ PendingOf(c, p[1], p[2])
                            /\ \A x \in DOMAIN c.object[p[1]].queue : p[2] < c.object[p[1]].queue[x]
            BY <1>7
        <3>1. /\ p[1] \in map /\ PendingOf(b, p[1], p[2])
              /\ \A x \in DOMAIN b.object[p[1]].queue : p[2] < b.object[p[1]].queue[x]
            BY <1>15 DEF Orderly
        <3>2. p[2] \in Nat
            BY <2>3, <3>1 DEF PendingOf
        <3>3. p[2] < n /\ PendingOf(c, p[1], p[2])
            BY <2>1, <3>1, <3>2
        <3>4. CASE p[1] = i
            <4>1. \A x \in 1..l : x \in 1..Len(b.object[i].queue) \/ x = l
                BY <1>3
            <4> QED
                BY <1>3, <1>6, <1>8, <3>1, <3>3, <3>4, <4>1
        <3>5. CASE p[1] # i
            BY <1>13, <3>1, <3>3, <3>5
        <3> QED
            BY <3>4, <3>5
    <2>5. \A j \in map : \A x \in DOMAIN c.object[j].queue :
              /\ PendingOf(c, j, c.object[j].queue[x])
              /\ \A y \in DOMAIN c.object[j].queue :
                     x < y => c.object[j].queue[x] < c.object[j].queue[y]
        <3> SUFFICES ASSUME NEW j \in map, NEW x \in DOMAIN c.object[j].queue
                     PROVE  /\ PendingOf(c, j, c.object[j].queue[x])
                            /\ \A y \in DOMAIN c.object[j].queue :
                                   x < y => c.object[j].queue[x] < c.object[j].queue[y]
            OBVIOUS
        <3>1. \A y \in DOMAIN b.object[j].queue :
                  /\ PendingOf(b, j, b.object[j].queue[y]) /\ b.object[j].queue[y] \in Nat
                  /\ \A z \in DOMAIN b.object[j].queue :
                         y < z => b.object[j].queue[y] < b.object[j].queue[z]
            BY <1>15, <2>3 DEF Orderly, PendingOf
        <3>2. CASE j = i
            <4>1. \A y \in 1..Len(b.object[i].queue) : q[y] < n
                BY <1>3, <1>6, <2>1, <3>1, <3>2
            <4>2. PendingOf(c, i, q[x])
                <5>1. x \in 1..Len(b.object[i].queue) \/ x = l
                    BY <1>3, <1>6, <1>8, <3>2
                <5> QED
                    BY <1>3, <1>6, <2>1, <2>2, <3>1, <3>2, <5>1
            <4>3. ASSUME NEW y \in 1..l, x < y PROVE q[x] < q[y]
                <5>1. x \in 1..Len(b.object[i].queue) /\ (y = l \/ y \in 1..Len(b.object[i].queue))
                    BY <1>3, <1>6, <1>8, <3>2, <4>3
                <5> QED
                    BY <1>3, <1>6, <3>1, <3>2, <4>1, <4>3, <5>1
            <4> QED
                BY <1>6, <1>8, <3>2, <4>2, <4>3
        <3>3. CASE j # i
            BY <1>13, <2>1, <3>1, <3>3
        <3> QED
            BY <3>2, <3>3
    <2>6. \A m \in DOMAIN c.messages : c.messages[m].fate = "pending" =>
              \/ \E p \in c.inFlight : p[2] = m
              \/ \E j \in map : \E x \in DOMAIN c.object[j].queue : c.object[j].queue[x] = m
        <3> SUFFICES ASSUME NEW m \in DOMAIN c.messages, c.messages[m].fate = "pending"
                     PROVE  \/ \E p \in c.inFlight : p[2] = m
                            \/ \E j \in map : \E x \in DOMAIN c.object[j].queue :
                                   c.object[j].queue[x] = m
            OBVIOUS
        <3>1. CASE m = n
            <4>1. l \in DOMAIN c.object[i].queue /\ c.object[i].queue[l] = n
                BY <1>3, <1>6, <1>8
            <4> QED
                BY <3>1, <4>1
        <3>2. CASE m # n
            <4>1. m \in DOMAIN b.messages /\ b.messages[m].fate = "pending"
                BY <1>1, <1>10, <3>2
            <4>2. CASE \E p \in b.inFlight : p[2] = m
                BY <1>7, <4>2
            <4>3. CASE \E j \in map : \E x \in DOMAIN b.object[j].queue : b.object[j].queue[x] = m
                <5>1. PICK j \in map : \E x \in DOMAIN b.object[j].queue : b.object[j].queue[x] = m
                    BY <4>3
                <5>2. PICK x \in DOMAIN b.object[j].queue : b.object[j].queue[x] = m
                    BY <5>1
                <5>3. x \in DOMAIN c.object[j].queue /\ c.object[j].queue[x] = m
                    <6>1. \A z \in 1..Len(b.object[i].queue) : z \in 1..l
                        BY <1>3
                    <6>2. CASE j = i
                        BY <1>3, <1>6, <1>8, <5>2, <6>1, <6>2
                    <6>3. CASE j # i
                        BY <1>13, <5>2, <6>3
                    <6> QED
                        BY <6>2, <6>3
                <5> QED
                    BY <5>3
            <4> QED
                BY <1>15, <4>1, <4>2, <4>3 DEF Orderly
        <3> QED
            BY <3>1, <3>2
    <2>7. \A m, y \in DOMAIN c.messages :
              m < y /\ c.messages[m].key = c.messages[y].key /\ c.messages[y].fate = "answered"
                  => c.messages[m].fate # "pending"
        <3> SUFFICES ASSUME NEW m \in DOMAIN c.messages, NEW y \in DOMAIN c.messages, m < y,
                            c.messages[m].key = c.messages[y].key,
                            c.messages[y].fate = "answered"
                     PROVE  c.messages[m].fate # "pending"
            OBVIOUS
        <3>1. y # n
            BY <1>10 DEF msg
        <3>2. y \in DOMAIN b.messages /\ m \in DOMAIN b.messages
            BY <1>1, <1>10, <3>1
        <3> QED
            BY <1>10, <1>15, <3>2 DEF Orderly
    <2> QED
        BY <2>4, <2>5, <2>6, <2>7 DEF Orderly
<1> QED
    BY <1>7, <1>10, <1>12, <1>13, <1>14, <1>15 DEF c, msg

-----------------------------------------------------------------------------
(* Every step keeps the invariant.                                         *)

LEMMA HandleMessageInv ==
    ASSUME BridgeInv, NEW k \in Keys, HandleMessage(k)
    PROVE  BridgeInv'
<1> DEFINE a == [Bridge EXCEPT !.object = Objects(k)]
           i == SessionOf(k)
           n == Len(a.messages) + 1
           b == [a EXCEPT !.object = [a.object EXCEPT ![i].queue = Append(@, n)],
                          !.messages = Append(@, [key |-> a.object[i].key, fate |-> "pending"])]
           c == ProcessNext(b, Map(k), k)
<1>1. /\ Busy(a) /\ KeysDiffer(a, Map(k)) /\ i \in Map(k) /\ a.object[i].key = k
      /\ Counted(Bridge) => Counted(a)
      /\ Orderly(Bridge, sessions) => Orderly(a, Map(k))
      /\ NobodyIdles(a, Map(k))
    BY OpenKeeps
<1>2. a.messages = messages /\ a.activeCount = activeCount /\ a.object = Objects(k)
    BY DEF Bridge
<1>3. b = [Bridge EXCEPT !.object = [Objects(k) EXCEPT ![i].queue = Append(@, Len(messages) + 1)],
                         !.messages = Append(@, [key |-> k, fate |-> "pending"])]
    BY <1>1, <1>2 DEF Bridge
<1>4. Becomes(c) /\ sessions' = Map(k) /\ UNCHANGED <<running, gateway, met>>
    BY <1>3 DEF HandleMessage
<1>5. Len(a.messages) < MaxMessages /\ Len(messages) \in Nat
    BY <1>2, BridgeFields DEF HandleMessage, BridgeInv, Busy, BridgeState
<1> HIDE DEF a, i
<1>6. /\ Busy(b) /\ KeysDiffer(b, Map(k)) /\ Len(b.messages) = n
      /\ \A j \in DOMAIN a.object : b.object[j].key = a.object[j].key
      /\ \A j \in Map(k) : j # i => b.object[j] = a.object[j]
      /\ b.activeCount = a.activeCount
      /\ Counted(a) => Counted(b)
      /\ Orderly(a, Map(k)) => Orderly(b, Map(k))
    BY <1>1, <1>2, <1>5, PushKeeps
<1> HIDE DEF b, n
<1>7. gateway \in BOOLEAN
    BY DEF BridgeInv
<1>8. /\ Kept(b, c, Map(k))
      /\ \A j \in Map(k) : b.object[j].key # k => c.object[j] = b.object[j]
      /\ gateway /\ c.activeCount < MaxConcurrent =>
             \A j \in Map(k) : b.object[j].key = k => ~Waiting(c.object, j)
      /\ c.activeCount >= b.activeCount
    BY <1>6, <1>7, ProcessNextKeeps
<1> HIDE DEF c
<1>9. Bridge' = c
    BY <1>4, <1>8, BecomesBridge DEF Kept, Busy
<1>10. Len(messages') <= MaxMessages
    <2>1. messages' = c.messages
        BY <1>4 DEF Becomes
    <2>2. DOMAIN c.messages = DOMAIN b.messages /\ b.messages \in Seq(Message) /\ c.messages \in Seq(Message)
        BY <1>6, <1>8 DEF Kept, Busy, BridgeState
    <2>3. Len(c.messages) = Len(b.messages)
        BY <2>2, LenProperties
    <2> QED
        BY <1>2, <1>5, <1>6, <2>1, <2>3, BridgeAssumption DEF n
<1>11. NobodyIdles(c, Map(k))
    <2> SUFFICES ASSUME gateway, c.activeCount < MaxConcurrent, NEW j \in Map(k)
                 PROVE  ~Waiting(c.object, j)
        BY DEF NobodyIdles
    <2>1. CASE b.object[j].key = k
        BY <1>8, <2>1
    <2>2. CASE b.object[j].key # k
        <3>1. c.object[j] = b.object[j]
            BY <1>8, <2>2
        <3>2. b.object[j] = a.object[j]
            BY <1>1, <1>6, <2>2 DEF KeysDiffer
        <3>3. a.activeCount < MaxConcurrent
            <4>1. /\ c.activeCount \in Int /\ b.activeCount \in Int /\ a.activeCount \in Int
                  /\ MaxConcurrent \in Int
                BY <1>1, <1>6, <1>8, BridgeAssumption DEF Kept, Busy, BridgeState
            <4> QED
                BY <1>6, <1>8, <4>1
        <3> QED
            BY <1>1, <3>1, <3>2, <3>3 DEF NobodyIdles, Waiting
    <2> QED
        BY <2>1, <2>2
<1>12. NobodyIdles(Bridge, sessions)'
    BY <1>4, <1>9, <1>11 DEF NobodyIdles
<1>13. KeysDiffer(Bridge, sessions)' /\ Busy(Bridge)'
    BY <1>4, <1>8, <1>9 DEF Kept, KeysDiffer, Busy
<1>14. "stop" \notin met' => Counted(Bridge)'
    BY <1>1, <1>4, <1>6, <1>8, <1>9 DEF BridgeInv, Kept, Counted
<1>15. met' = {} => Orderly(Bridge, sessions)'
    <2>1. met' = {} => Orderly(c, Map(k))
        BY <1>1, <1>4, <1>6, <1>8 DEF BridgeInv, Kept
    <2> QED
        BY <1>4, <1>9, <2>1 DEF Orderly, PendingOf
<1>16. running' \in BOOLEAN /\ gateway' \in BOOLEAN
    BY <1>4 DEF BridgeInv
<1> QED
    BY <1>10, <1>12, <1>13, <1>14, <1>15, <1>16 DEF BridgeInv

\* The prompt m of session i is answered; nobody has been woken yet.
LEMMA EndedKeeps ==
    ASSUME BridgeInv, NEW i, NEW m, <<i, m>> \in inFlight
    PROVE  LET b == [object |-> [object EXCEPT ![i].processing = FALSE],
                     activeCount |-> activeCount - 1,
                     inFlight |-> inFlight \ {<<i, m>>},
                     messages |-> Mark(messages, {m}, "answered")]
           IN  /\ Busy(b) /\ KeysDiffer(b, sessions)
               /\ DOMAIN b.messages = DOMAIN messages
               /\ Counted(Bridge) => Counted(b)
               /\ Orderly(Bridge, sessions) => Orderly(b, sessions)
<1> DEFINE b == [object |-> [object EXCEPT ![i].processing = FALSE],
                 activeCount |-> activeCount - 1,
                 inFlight |-> inFlight \ {<<i, m>>},
                 messages |-> Mark(messages, {m}, "answered")]
<1>1. /\ object \in Seq(Object) /\ DOMAIN object = 1..Len(object) /\ Len(object) \in Nat
      /\ activeCount \in Int /\ inFlight \in SUBSET (Nat \X MessageIds)
      /\ messages \in Seq(Message) /\ DOMAIN messages = 1..Len(messages) /\ Len(messages) \in Nat
      /\ i \in 1..Len(object) /\ IsFiniteSet(inFlight)
      /\ \A p \in inFlight : p[1] \in DOMAIN object /\ object[p[1]].processing
      /\ \A p, q \in inFlight : p[1] = q[1] => p = q
    BY BridgeFields DEF BridgeInv, Busy, BridgeState
<1>2. \A j \in 1..Len(object) : object[j] \in Object
    BY <1>1, ElementOfSeq
<1>3. \A j \in 1..Len(messages) : messages[j] \in Message
    BY <1>1, ElementOfSeq
<1>4. b.object \in Seq(Object) /\ DOMAIN b.object = DOMAIN object
    <2> DEFINE e == [object[i] EXCEPT !.processing = FALSE]
    <2>1. e \in Object
        BY <1>1, <1>2 DEF Object
    <2>2. b.object = [object EXCEPT ![i] = e]
        OBVIOUS
    <2> HIDE DEF e, b
    <2>3. [object EXCEPT ![i] = e] \in Seq(Object)
        BY <1>1, <2>1, ExceptSeq
    <2> QED
        BY <1>1, <2>2, <2>3
<1>5. /\ \A j \in DOMAIN object : b.object[j].key = object[j].key
      /\ \A j \in DOMAIN object : b.object[j].queue = object[j].queue
      /\ \A j \in DOMAIN object : j # i => b.object[j] = object[j]
    BY <1>1, <1>2 DEF Object
<1>6. /\ DOMAIN b.messages = 1..Len(messages)
      /\ b.messages = [j \in 1..Len(messages) |-> b.messages[j]]
      /\ \A j \in 1..Len(messages) :
             /\ b.messages[j] \in Message /\ b.messages[j].key = messages[j].key
             /\ b.messages[j].fate = IF j = m THEN "answered" ELSE messages[j].fate
    BY <1>1, <1>3 DEF Mark, Message
<1>7. b.inFlight = inFlight \ {<<i, m>>} /\ b.activeCount = activeCount - 1
    OBVIOUS
<1>8. b = [object |-> b.object, activeCount |-> b.activeCount, inFlight |-> b.inFlight,
           messages |-> b.messages]
    OBVIOUS
<1> HIDE DEF b
<1>9. b.messages \in Seq(Message)
    BY <1>1, <1>6, SeqOfFunction
<1>10. b \in BridgeState
    BY <1>1, <1>4, <1>7, <1>8, <1>9 DEF BridgeState
<1>11. IsFiniteSet(b.inFlight) /\ Cardinality(b.inFlight) = Cardinality(inFlight) - 1
    <2>1. IsFiniteSet(inFlight)
        BY <1>1
    <2>2. /\ IsFiniteSet(inFlight \ {<<i, m>>})
          /\ Cardinality(inFlight \ {<<i, m>>}) = Cardinality(inFlight) - 1
        BY <2>1, FS_RemoveElement
    <2> QED
        BY <1>7, <2>2
<1>12. Busy(b)
    <2>1. \A p \in b.inFlight : p \in inFlight /\ p[1] # i
        BY <1>1, <1>7
    <2>2. \A p \in b.inFlight : p[1] \in DOMAIN b.object /\ b.object[p[1]].processing
        BY <1>1, <1>4, <1>5, <2>1
    <2> QED
        BY <1>1, <1>10, <1>11, <2>1, <2>2 DEF Busy
<1>13. KeysDiffer(b, sessions)
    BY <1>4, <1>5, BridgeFields DEF BridgeInv, KeysDiffer
<1>14. Counted(Bridge) => Counted(b)
    <2>1. Cardinality(inFlight) \in Nat /\ MaxConcurrent \in Nat
        BY <1>1, FS_CardinalityType, BridgeAssumption
    <2> QED
        BY <1>1, <1>7, <1>11, <2>1, BridgeFields DEF Counted
<1>15. ASSUME Orderly(Bridge, sessions) PROVE Orderly(b, sessions)
    <2>1. /\ i \in sessions /\ PendingOf(Bridge, i, m)
          /\ \A x \in DOMAIN object[i].queue : m < object[i].queue[x]
        BY <1>15, BridgeFields DEF Orderly
    <2>2. \A j \in sessions : j \in DOMAIN object
        BY BridgeFields DEF BridgeInv, KeysDiffer
    <2>3. \A j \in sessions, l \in Nat : PendingOf(Bridge, j, l) /\ l # m => PendingOf(b, j, l)
        BY <1>1, <1>5, <1>6, <2>2, BridgeFields DEF PendingOf
    <2>4. \A j \in sessions, l \in Nat :
              PendingOf(Bridge, j, l) => (l # m \/ j = i) /\ l \in 1..Len(messages)
        BY <1>1, <2>1, BridgeFields DEF PendingOf, BridgeInv, KeysDiffer
    <2>5. \A p \in b.inFlight :
              /\ p[1] \in sessions /\ PendingOf(b, p[1], p[2])
              /\ \A x \in DOMAIN b.object[p[1]].queue : p[2] < b.object[p[1]].queue[x]
        <3> SUFFICES ASSUME NEW p \in b.inFlight
                     PROVE  /\ p[1] \in sessions /\ PendingOf(b, p[1], p[2])
                            /\ \A x \in DOMAIN b.object[p[1]].queue : p[2] < b.object[p[1]].queue[x]
            OBVIOUS
        <3>1. p \in inFlight /\ p[1] # i
            BY <1>1, <1>7
        <3>2. /\ p[1] \in sessions /\ PendingOf(Bridge, p[1], p[2])
              /\ \A x \in DOMAIN object[p[1]].queue : p[2] < object[p[1]].queue[x]
            BY <1>15, <3>1, BridgeFields DEF Orderly
        <3>3. p[2] \in Nat
            BY <1>1, <3>2, BridgeFields DEF PendingOf
        <3> QED
            BY <1>5, <2>2, <2>3, <2>4, <3>1, <3>2, <3>3
    <2>6. \A j \in sessions : \A x \in DOMAIN b.object[j].queue :
              /\ PendingOf(b, j, b.object[j].queue[x])
              /\ \A y \in DOMAIN b.object[j].queue :
                     x < y => b.object[j].queue[x] < b.object[j].queue[y]
        <3> SUFFICES ASSUME NEW j \in sessions, NEW x \in DOMAIN object[j].queue
                     PROVE  /\ PendingOf(b, j, object[j].queue[x])
                            /\ \A y \in DOMAIN object[j].queue :
                                   x < y => object[j].queue[x] < object[j].queue[y]
            BY <1>5, <2>2
        <3>1. /\ PendingOf(Bridge, j, object[j].queue[x])
              /\ \A y \in DOMAIN object[j].queue :
                     x < y => object[j].queue[x] < object[j].queue[y]
            BY <1>15, BridgeFields DEF Orderly
        <3>2. object[j].queue[x] \in Nat
            BY <1>1, <3>1, BridgeFields DEF PendingOf
        <3>3. object[j].queue[x] # m
            BY <1>1, <2>1, <2>4, <3>1, <3>2
        <3> QED
            BY <2>3, <3>1, <3>2, <3>3
    <2>7. \A l \in DOMAIN b.messages : b.messages[l].fate = "pending" =>
              \/ \E p \in b.inFlight : p[2] = l
              \/ \E j \in sessions : \E x \in DOMAIN b.object[j].queue : b.object[j].queue[x] = l
        <3> SUFFICES ASSUME NEW l \in DOMAIN messages, messages[l].fate = "pending", l # m
                     PROVE  \/ \E p \in b.inFlight : p[2] = l
                            \/ \E j \in sessions : \E x \in DOMAIN b.object[j].queue :
                                   b.object[j].queue[x] = l
            BY <1>1, <1>6
        <3>1. CASE \E p \in inFlight : p[2] = l
            BY <1>7, <3>1
        <3>2. CASE \E j \in sessions : \E x \in DOMAIN object[j].queue : object[j].queue[x] = l
            BY <1>5, <2>2, <3>2
        <3> QED
            BY <1>15, <3>1, <3>2, BridgeFields DEF Orderly
    <2>8. ASSUME NEW l \in DOMAIN b.messages, NEW n \in DOMAIN b.messages, l < n,
                 b.messages[l].key = b.messages[n].key, b.messages[n].fate = "answered",
                 b.messages[l].fate = "pending"
          PROVE  FALSE
        <3>1. /\ l \in DOMAIN messages /\ n \in DOMAIN messages /\ l \in Nat /\ l # m
              /\ messages[l].key = messages[n].key /\ messages[l].fate = "pending"
            BY <1>1, <1>6, <2>8
        <3>2. ASSUME n # m PROVE FALSE
            <4>1. messages[n].fate = "answered"
                BY <1>1, <1>6, <2>8, <3>2
            <4> QED
                BY <1>15, <2>8, <3>1, <4>1, BridgeFields DEF Orderly
        <3>3. messages[l].key = object[i].key
            BY <2>1, <3>1, <3>2, BridgeFields DEF PendingOf
        <3>4. CASE \E p \in inFlight : p[2] = l
            <4>1. PICK p \in inFlight : p[2] = l
                BY <3>4
            <4>2. p[1] \in sessions /\ PendingOf(Bridge, p[1], l)
                BY <1>15, <4>1, BridgeFields DEF Orderly
            <4>3. p[1] = i
                BY <2>1, <3>3, <4>2, BridgeFields DEF PendingOf, BridgeInv, KeysDiffer
            <4> QED
                BY <1>1, <3>1, <4>1, <4>3
        <3>5. CASE \E j \in sessions : \E x \in DOMAIN object[j].queue : object[j].queue[x] = l
            <4>1. PICK j \in sessions : \E x \in DOMAIN object[j].queue : object[j].queue[x] = l
                BY <3>5
            <4>2. PendingOf(Bridge, j, l)
                BY <1>15, <4>1, BridgeFields DEF Orderly
            <4>3. j = i
                BY <2>1, <3>3, <4>2, BridgeFields DEF PendingOf, BridgeInv, KeysDiffer
            <4>4. m < l /\ l < m
                BY <2>1, <2>8, <3>2, <4>1, <4>3
            <4> QED
                BY <1>1, <2>1, <3>1, <4>4, BridgeFields DEF PendingOf
        <3> QED
            BY <1>15, <3>1, <3>4, <3>5, BridgeFields DEF Orderly
    <2> QED
        BY <2>5, <2>6, <2>7, <2>8 DEF Orderly
<1> QED
    BY <1>1, <1>6, <1>12, <1>13, <1>14, <1>15 DEF b

LEMMA PromptEndsInv ==
    ASSUME BridgeInv, NEW i \in SessionIds, NEW m \in MessageIds, PromptEnds(i, m)
    PROVE  BridgeInv'
<1> DEFINE b == [object |-> [object EXCEPT ![i].processing = FALSE],
                 activeCount |-> activeCount - 1,
                 inFlight |-> inFlight \ {<<i, m>>},
                 messages |-> Mark(messages, {m}, "answered")]
           c == IF object[i].queue # <<>> THEN ProcessNext(b, sessions, object[i].key) ELSE b
           d == DrainWaiting(c)
<1>1. <<i, m>> \in inFlight /\ Becomes(d) /\ UNCHANGED <<running, sessions, gateway, met>>
    BY DEF PromptEnds
<1>2. /\ Busy(b) /\ KeysDiffer(b, sessions) /\ DOMAIN b.messages = DOMAIN messages
      /\ Counted(Bridge) => Counted(b)
      /\ Orderly(Bridge, sessions) => Orderly(b, sessions)
    BY <1>1, EndedKeeps
<1>3. gateway \in BOOLEAN
    BY DEF BridgeInv
<1> HIDE DEF b
<1>4. Kept(b, c, sessions)
    <2>1. CASE object[i].queue # <<>>
        BY <1>2, <1>3, <2>1, ProcessNextKeeps
    <2>2. CASE object[i].queue = <<>>
        BY <1>2, <2>2 DEF Kept
    <2> QED
        BY <2>1, <2>2
<1> HIDE DEF c
<1>5. Kept(c, d, sessions) /\ NobodyIdles(d, sessions)
    BY <1>3, <1>4, DrainWaitingKeeps DEF Kept
<1> HIDE DEF d
<1>6. Bridge' = d
    BY <1>1, <1>5, BecomesBridge DEF Kept, Busy
<1>7. Len(messages') = Len(messages)
    <2>1. messages' = d.messages
        BY <1>1 DEF Becomes
    <2>2. DOMAIN d.messages = DOMAIN messages /\ messages \in Seq(Message) /\ d.messages \in Seq(Message)
        BY <1>2, <1>4, <1>5, BridgeFields DEF BridgeInv, Kept, Busy, BridgeState
    <2> QED
        BY <2>1, <2>2, LenProperties
<1>8. "stop" \notin met' => Counted(Bridge)'
    BY <1>1, <1>2, <1>4, <1>5, <1>6 DEF BridgeInv, Kept, Counted
<1>9. met' = {} => Orderly(Bridge, sessions)'
    <2>1. met' = {} => Orderly(d, sessions)
        BY <1>1, <1>2, <1>4, <1>5 DEF BridgeInv, Kept
    <2> QED
        BY <1>1, <1>6, <2>1 DEF Orderly, PendingOf
<1>10. NobodyIdles(Bridge, sessions)'
    BY <1>1, <1>5, <1>6 DEF NobodyIdles
<1>11. KeysDiffer(Bridge, sessions)' /\ Busy(Bridge)'
    BY <1>1, <1>5, <1>6 DEF Kept, KeysDiffer, Busy
<1> QED
    BY <1>1, <1>7, <1>8, <1>9, <1>10, <1>11 DEF BridgeInv

LEMMA CommandInv ==
    ASSUME BridgeInv, NEW k \in Keys, Command(k)
    PROVE  BridgeInv'
<1> DEFINE b == [Bridge EXCEPT !.object = Objects(k)]
<1>1. /\ Busy(b) /\ KeysDiffer(b, Map(k)) /\ NobodyIdles(b, Map(k))
      /\ Counted(Bridge) => Counted(b)
      /\ Orderly(Bridge, sessions) => Orderly(b, Map(k))
    BY OpenKeeps
<1>2. /\ object' = Objects(k) /\ sessions' = Map(k)
      /\ UNCHANGED <<running, activeCount, inFlight, gateway, messages, met>>
    BY DEF Command
<1>3. Bridge' = b
    BY <1>2 DEF Bridge
<1> HIDE DEF b
<1>4. Busy(Bridge)' /\ KeysDiffer(Bridge, sessions)' /\ NobodyIdles(Bridge, sessions)'
    BY <1>1, <1>2, <1>3 DEF Busy, KeysDiffer, NobodyIdles
<1>5. "stop" \notin met' => Counted(Bridge)'
    BY <1>1, <1>2, <1>3 DEF BridgeInv, Counted
<1>6. met' = {} => Orderly(Bridge, sessions)'
    <2>1. met' = {} => Orderly(b, Map(k))
        BY <1>1, <1>2 DEF BridgeInv
    <2> QED
        BY <1>2, <1>3, <2>1 DEF Orderly, PendingOf
<1> QED
    BY <1>2, <1>4, <1>5, <1>6 DEF BridgeInv

LEMMA NewInv ==
    ASSUME BridgeInv, NEW k \in Keys, New(k)
    PROVE  BridgeInv'
<1> DEFINE D == SameSender(k)
           queued == UNION {{object[i].queue[n] : n \in DOMAIN object[i].queue} : i \in D}
<1>1. /\ messages' = Mark(messages, queued, "dropped")
      /\ object' = [i \in DOMAIN object |->
                      IF i \in D THEN [object[i] EXCEPT !.queue = <<>>] ELSE object[i]]
      /\ sessions' = IF gateway THEN sessions \ D ELSE sessions
      /\ met' = IF gateway /\ InFlightOf(D) # {} THEN met \cup {"new"} ELSE met
      /\ UNCHANGED <<running, activeCount, inFlight, gateway>>
    BY DEF New, Meet
<1>2. /\ object \in Seq(Object) /\ DOMAIN object = 1..Len(object) /\ Len(object) \in Nat
      /\ activeCount \in Int /\ inFlight \in SUBSET (Nat \X MessageIds)
      /\ messages \in Seq(Message) /\ DOMAIN messages = 1..Len(messages) /\ Len(messages) \in Nat
      /\ sessions \subseteq DOMAIN object
    BY BridgeFields DEF BridgeInv, Busy, BridgeState, KeysDiffer
<1>3. \A j \in 1..Len(object) : object[j] \in Object
    BY <1>2, ElementOfSeq
<1>4. \A j \in 1..Len(messages) : messages[j] \in Message
    BY <1>2, ElementOfSeq
<1>5. D \subseteq sessions
    BY DEF SameSender
<1>6. \A m \in queued : \E i \in D : \E n \in DOMAIN object[i].queue : object[i].queue[n] = m
    OBVIOUS
<1>7. \A i \in D : \A n \in DOMAIN object[i].queue : object[i].queue[n] \in queued
    OBVIOUS
<1> HIDE DEF D, queued
<1>8. /\ DOMAIN object' = DOMAIN object
      /\ \A j \in DOMAIN object :
             /\ object'[j] \in Object /\ object'[j].key = object[j].key
             /\ object'[j].processing = object[j].processing
             /\ object'[j].queue = IF j \in D THEN <<>> ELSE object[j].queue
    <2>1. <<>> \in Seq(MessageIds)
        BY EmptySeq
    <2> QED
        BY <1>1, <1>2, <1>3, <2>1 DEF Object
<1>9. object' \in Seq(Object)
    <2>1. object' = [j \in 1..Len(object) |-> object'[j]]
        BY <1>1, <1>2
    <2> QED
        BY <1>2, <1>8, <2>1, SeqOfFunction
<1>10. /\ DOMAIN messages' = 1..Len(messages)
       /\ messages' = [j \in 1..Len(messages) |-> messages'[j]]
       /\ \A j \in 1..Len(messages) :
              /\ messages'[j] \in Message /\ messages'[j].key = messages[j].key
              /\ messages'[j].fate = IF j \in queued THEN "dropped" ELSE messages[j].fate
    BY <1>1, <1>2, <1>4 DEF Mark, Message
<1>11. messages' \in Seq(Message) /\ Len(messages') = Len(messages)
    BY <1>2, <1>10, SeqOfFunction
<1>12. /\ Bridge'.object = object' /\ Bridge'.activeCount = activeCount
       /\ Bridge'.inFlight = inFlight /\ Bridge'.messages = messages'
    BY <1>1 DEF Bridge
<1>13. Bridge' \in BridgeState
    BY <1>1, <1>2, <1>9, <1>11 DEF Bridge, BridgeState
<1>14. Busy(Bridge)'
    BY <1>8, <1>12, <1>13, BridgeFields DEF BridgeInv, Busy
<1>15. KeysDiffer(Bridge, sessions)'
    BY <1>1, <1>2, <1>8, <1>12, BridgeFields DEF BridgeInv, KeysDiffer
<1>16. "stop" \notin met' => Counted(Bridge)'
    BY <1>1, <1>12, BridgeFields DEF BridgeInv, Counted
<1>17. NobodyIdles(Bridge, sessions)'
    BY <1>1, <1>2, <1>8, <1>12, BridgeFields DEF BridgeInv, NobodyIdles, Waiting
<1>18. ASSUME met' = {} PROVE Orderly(Bridge, sessions)'
    <2>1. Orderly(Bridge, sessions) /\ (gateway => \A p \in inFlight : p[1] \notin D)
        BY <1>1, <1>18 DEF BridgeInv, InFlightOf
    <2>2. \A j \in sessions, l \in Nat :
              PendingOf(Bridge, j, l) /\ l \notin queued => PendingOf(Bridge', j, l)
        BY <1>2, <1>8, <1>10, <1>12, BridgeFields DEF PendingOf
    <2>3. \A j \in sessions : \A x \in DOMAIN object[j].queue :
              /\ PendingOf(Bridge, j, object[j].queue[x])
              /\ \A y \in DOMAIN object[j].queue :
                     x < y => object[j].queue[x] < object[j].queue[y]
        BY <2>1, BridgeFields DEF Orderly
    <2>4. ASSUME NEW p \in inFlight
          PROVE  /\ p[1] \in sessions /\ PendingOf(Bridge, p[1], p[2]) /\ p[2] \in Nat
                 /\ \A x \in DOMAIN object[p[1]].queue : p[2] < object[p[1]].queue[x]
        <3>1. /\ p[1] \in sessions /\ PendingOf(Bridge, p[1], p[2])
              /\ \A x \in DOMAIN object[p[1]].queue : p[2] < object[p[1]].queue[x]
            BY <2>1, BridgeFields DEF Orderly
        <3> QED
            BY <1>2, <3>1, BridgeFields DEF PendingOf
    <2>5. \A p \in inFlight : p[2] \notin queued
        <3> SUFFICES ASSUME NEW p \in inFlight, p[2] \in queued PROVE FALSE
            OBVIOUS
        <3>1. PICK j \in D : \E x \in DOMAIN object[j].queue : object[j].queue[x] = p[2]
            BY <1>6
        <3>2. PendingOf(Bridge, j, p[2])
            BY <1>5, <2>3, <3>1
        <3>3. j = p[1]
            BY <1>5, <2>4, <3>2, BridgeFields DEF PendingOf, BridgeInv, KeysDiffer
        <3>4. p[2] < p[2]
            BY <2>4, <3>1, <3>3
        <3> QED
            BY <2>4, <3>4
    <2>6. ASSUME NEW p \in inFlight
          PROVE  /\ p[1] \in sessions' /\ PendingOf(Bridge', p[1], p[2])
                 /\ \A x \in DOMAIN object'[p[1]].queue : p[2] < object'[p[1]].queue[x]
        <3>1. p[1] \in sessions'
            BY <1>1, <2>1, <2>4
        <3>2. PendingOf(Bridge', p[1], p[2])
            BY <2>2, <2>4, <2>5
        <3>3. DOMAIN <<>> = {}
            OBVIOUS
        <3>4. \A x \in DOMAIN object'[p[1]].queue : p[2] < object'[p[1]].queue[x]
            BY <1>2, <1>8, <2>4, <3>3
        <3> QED
            BY <3>1, <3>2, <3>4
    <2>7. ASSUME NEW j \in sessions', NEW x \in DOMAIN object'[j].queue
          PROVE  /\ PendingOf(Bridge', j, object'[j].queue[x])
                 /\ \A y \in DOMAIN object'[j].queue :
                        x < y => object'[j].queue[x] < object'[j].queue[y]
        <3>1. j \in sessions
            BY <1>1
        <3>2. j \notin D
            <4>1. DOMAIN <<>> = {}
                OBVIOUS
            <4> QED
                BY <1>2, <1>8, <2>7, <3>1, <4>1
        <3>3. object'[j].queue = object[j].queue
            BY <1>2, <1>8, <3>1, <3>2
        <3>4. PendingOf(Bridge, j, object[j].queue[x]) /\ object[j].queue[x] \in Nat
            BY <1>2, <2>3, <3>1, <3>3, BridgeFields DEF PendingOf
        <3>5. object[j].queue[x] \notin queued
            <4> SUFFICES ASSUME object[j].queue[x] \in queued PROVE FALSE
                OBVIOUS
            <4>1. PICK i \in D : \E y \in DOMAIN object[i].queue : object[i].queue[y] = object[j].queue[x]
                BY <1>6
            <4>2. PendingOf(Bridge, i, object[j].queue[x])
                BY <1>5, <2>3, <4>1
            <4>3. i = j
                BY <1>5, <3>1, <3>4, <4>2, BridgeFields DEF PendingOf, BridgeInv, KeysDiffer
            <4> QED
                BY <3>2, <4>3
        <3>6. PendingOf(Bridge', j, object'[j].queue[x])
            BY <2>2, <3>1, <3>3, <3>4, <3>5
        <3>7. \A y \in DOMAIN object'[j].queue :
                  x < y => object'[j].queue[x] < object'[j].queue[y]
            BY <2>3, <3>1, <3>3
        <3> QED
            BY <3>6, <3>7
    <2>8. ASSUME NEW l \in DOMAIN messages', messages'[l].fate = "pending"
          PROVE  \/ \E p \in inFlight : p[2] = l
                 \/ \E j \in sessions' : \E x \in DOMAIN object'[j].queue : object'[j].queue[x] = l
        <3>1. l \in DOMAIN messages /\ l \notin queued /\ messages[l].fate = "pending"
            BY <1>2, <1>10, <2>8
        <3>2. CASE \E j \in sessions : \E x \in DOMAIN object[j].queue : object[j].queue[x] = l
            <4>1. PICK j \in sessions : \E x \in DOMAIN object[j].queue : object[j].queue[x] = l
                BY <3>2
            <4>2. j \notin D
                BY <1>7, <3>1, <4>1
            <4>3. j \in sessions' /\ object'[j].queue = object[j].queue
                BY <1>1, <1>2, <1>8, <4>2
            <4> QED
                BY <4>1, <4>3
        <3> QED
            BY <2>1, <3>1, <3>2, BridgeFields DEF Orderly
    <2>9. ASSUME NEW l \in DOMAIN messages', NEW n \in DOMAIN messages', l < n,
                 messages'[l].key = messages'[n].key, messages'[n].fate = "answered"
          PROVE  messages'[l].fate # "pending"
        <3>1. /\ l \in DOMAIN messages /\ n \in DOMAIN messages
              /\ messages[l].key = messages[n].key /\ messages[n].fate = "answered"
            BY <1>2, <1>10, <2>9
        <3> QED
            BY <1>2, <1>10, <2>1, <2>9, <3>1, BridgeFields DEF Orderly
    <2>10. Orderly(Bridge', sessions')
        BY <1>12, <2>6, <2>7, <2>8, <2>9 DEF Orderly
    <2> QED
        BY <2>10
<1> QED
    BY <1>1, <1>11, <1>14, <1>15, <1>16, <1>17, <1>18 DEF BridgeInv

LEMMA StopInv ==
    ASSUME BridgeInv, Stop
    PROVE  BridgeInv'
<1>1. /\ running' = FALSE /\ sessions' = {} /\ activeCount' = 0
      /\ met' = IF inFlight # {} THEN met \cup {"stop"} ELSE met
      /\ UNCHANGED <<object, inFlight, gateway>>
    BY DEF Stop, Meet
<1>2. /\ object \in Seq(Object) /\ inFlight \in SUBSET (Nat \X MessageIds)
      /\ messages \in Seq(Message) /\ DOMAIN messages = 1..Len(messages) /\ Len(messages) \in Nat
    BY BridgeFields DEF BridgeInv, Busy, BridgeState
<1>3. \A j \in 1..Len(messages) : messages[j] \in Message
    BY <1>2, ElementOfSeq
<1>4. /\ DOMAIN messages' = 1..Len(messages)
      /\ messages' = [j \in 1..Len(messages) |-> messages'[j]]
      /\ \A j \in 1..Len(messages) :
             /\ messages'[j] \in Message /\ messages'[j].key = messages[j].key
             /\ messages'[j].fate = IF messages[j].fate = "pending"
                                       /\ \A i \in SessionIds : <<i, j>> \notin inFlight
                                    THEN "dropped" ELSE messages[j].fate
    BY <1>2, <1>3 DEF Stop, Message
<1>5. messages' \in Seq(Message) /\ Len(messages') = Len(messages)
    BY <1>2, <1>4, SeqOfFunction
<1>6. /\ Bridge'.object = object /\ Bridge'.activeCount = 0
      /\ Bridge'.inFlight = inFlight /\ Bridge'.messages = messages'
    BY <1>1 DEF Bridge
<1>7. Bridge' \in BridgeState
    BY <1>1, <1>2, <1>5 DEF Bridge, BridgeState
<1>8. Busy(Bridge)'
    BY <1>6, <1>7, BridgeFields DEF BridgeInv, Busy
<1>9. KeysDiffer(Bridge, sessions)' /\ NobodyIdles(Bridge, sessions)'
    BY <1>1 DEF KeysDiffer, NobodyIdles
<1>10. "stop" \notin met' => Counted(Bridge)'
    BY <1>1, <1>6, FS_EmptySet, BridgeAssumption DEF Counted
<1>11. ASSUME met' = {} PROVE Orderly(Bridge, sessions)'
    <2>1. inFlight = {} /\ met = {}
        BY <1>1, <1>11
    <2>2. \A j \in 1..Len(messages) : messages'[j].fate # "pending"
        BY <1>4, <2>1
    <2> QED
        BY <1>1, <1>4, <1>6, <2>1, <2>2 DEF Orderly
<1> QED
    BY <1>1, <1>5, <1>8, <1>9, <1>10, <1>11 DEF BridgeInv

LEMMA StepInv == BridgeInv /\ [Next]_vars => BridgeInv'
<1> SUFFICES ASSUME BridgeInv, [Next]_vars PROVE BridgeInv'
    OBVIOUS
<1>1. ASSUME NEW k \in Keys, HandleMessage(k) PROVE BridgeInv'
    BY <1>1, HandleMessageInv
<1>2. ASSUME NEW k \in Keys, Command(k) PROVE BridgeInv'
    BY <1>2, CommandInv
<1>3. ASSUME NEW k \in Keys, New(k) PROVE BridgeInv'
    BY <1>3, NewInv
<1>4. ASSUME NEW i \in SessionIds, NEW m \in MessageIds, PromptEnds(i, m) PROVE BridgeInv'
    BY <1>4, PromptEndsInv
<1>5. CASE Stop
    BY <1>5, StopInv
<1>6. CASE Start \/ GatewayStops \/ UNCHANGED vars
    <2>1. /\ UNCHANGED <<activeCount, sessions, object, inFlight, messages, met>>
          /\ running' \in BOOLEAN /\ gateway' \in BOOLEAN /\ (gateway' => gateway)
        <3>0. running \in BOOLEAN /\ gateway \in BOOLEAN
            BY DEF BridgeInv
        <3>1. CASE Start
            BY <3>0, <3>1 DEF Start
        <3>2. CASE GatewayStops
            BY <3>0, <3>2 DEF GatewayStops
        <3>3. CASE UNCHANGED vars
            BY <3>0, <3>3 DEF vars
        <3> QED
            BY <1>6, <3>1, <3>2, <3>3
    <2>2. Bridge' = Bridge
        BY <2>1 DEF Bridge
    <2>3. Busy(Bridge)' /\ KeysDiffer(Bridge, sessions)' /\ NobodyIdles(Bridge, sessions)'
        BY <2>1, <2>2 DEF BridgeInv, Busy, KeysDiffer, NobodyIdles
    <2>4. "stop" \notin met' => Counted(Bridge)'
        BY <2>1, <2>2 DEF BridgeInv, Counted
    <2>5. met' = {} => Orderly(Bridge, sessions)'
        BY <2>1, <2>2 DEF BridgeInv, Orderly, PendingOf
    <2> QED
        BY <2>1, <2>3, <2>4, <2>5 DEF BridgeInv
<1> QED
    BY <1>1, <1>2, <1>3, <1>4, <1>5, <1>6 DEF Next

LEMMA BridgeInvariant == Spec => []BridgeInv
BY InitInv, StepInv, PTL DEF Spec

-----------------------------------------------------------------------------
(* Prompts of one sender are at the gateway one at a time until a session  *)
(* is dropped while its prompt is in flight, for any number of senders and *)
(* messages.                                                               *)
THEOREM PromptsAreSerialized == Spec => []OnePromptPerSender
<1>1. BridgeInv => OnePromptPerSender
    <2> SUFFICES ASSUME BridgeInv, met = {}, NEW p \in inFlight, NEW q \in inFlight,
                        object[p[1]].key = object[q[1]].key
                 PROVE  p = q
        BY DEF OnePromptPerSender, Serialized
    <2>1. p[1] \in sessions /\ q[1] \in sessions
        BY BridgeFields DEF BridgeInv, Orderly
    <2>2. p[1] = q[1]
        BY <2>1, BridgeFields DEF BridgeInv, KeysDiffer
    <2> QED
        BY <2>2, BridgeFields DEF BridgeInv, Busy
<1> QED
    BY BridgeInvariant, <1>1, PTL

(* Never more prompts than maxConcurrent are at the gateway until a stop().*)
THEOREM PromptsAreBounded == Spec => []AtMostMaxConcurrent
<1>1. BridgeInv => AtMostMaxConcurrent
    BY BridgeFields DEF BridgeInv, Counted, AtMostMaxConcurrent
<1> QED
    BY BridgeInvariant, <1>1, PTL

(* No wakeup is lost: while the gateway is there and a slot is free,       *)
(* nobody waits, whatever was reset or stopped.                            *)
THEOREM NoWakeupIsLost == Spec => []NoIdleSlotWhileWaiting
<1>1. BridgeInv => NoIdleSlotWhileWaiting
    BY BridgeFields DEF BridgeInv, NobodyIdles, NoIdleSlotWhileWaiting
<1> QED
    BY BridgeInvariant, <1>1, PTL

(* A sender's messages are answered in the order they were sent.           *)
THEOREM RepliesAreInOrder == Spec => []RepliesInOrder
<1>1. BridgeInv => RepliesInOrder
    BY BridgeFields DEF BridgeInv, Orderly, RepliesInOrder
<1> QED
    BY BridgeInvariant, <1>1, PTL
=============================================================================
