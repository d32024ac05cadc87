---------------------------- MODULE GatewayProofs ----------------------------
(* Proofs about Gateway, for any keys, requests, teardowns and bounds: its *)
(* types, that a key never leads to a disposed session, and that prompts   *)
(* of one key are serialized on the session the key leads to while nothing *)
(* is torn down.                                                           *)
EXTENDS Gateway, SharedFacts, SequenceTheorems, TLAPS

Managed == [key : Keys, queue : Seq(Requests), processing : BOOLEAN, disposed : BOOLEAN]
RequestOf(n) == [phase : Phases, key : Keys, on : 0..n, chat : BOOLEAN, stream : 0..n]
TeardownOf(n) == [phase : {"new", "aborting", "switching", "renewing", "done"}, on : 0..n,
                  awaits : SUBSET Requests]

\* The phases of a request that a managed session carries.
Carried == {"found", "queued"} \cup InFlight

-----------------------------------------------------------------------------
(* The operators that the handlers are built from.                         *)

LEMMA ManagedExcept ==
    ASSUME NEW m \in Seq(Managed), NEW i \in 1..Len(m), NEW e \in Managed
    PROVE  LET c == [m EXCEPT ![i] = e]
           IN  /\ c \in Seq(Managed) /\ Len(c) = Len(m)
               /\ c[i] = e /\ \A j \in 1..Len(m) : j # i => c[j] = m[j]
<1> DEFINE c == [m EXCEPT ![i] = e]
<1>1. DOMAIN m = 1..Len(m) /\ Len(m) \in Nat /\ \A j \in 1..Len(m) : m[j] \in Managed
    BY ElementOfSeq
<1>2. /\ c = [j \in 1..Len(m) |-> c[j]] /\ DOMAIN c = 1..Len(m)
      /\ c[i] = e /\ \A j \in 1..Len(m) : j # i => c[j] = m[j]
    BY <1>1
<1>3. c \in Seq(Managed) /\ Len(c) = Len(m)
    <2> HIDE DEF c
    <2> QED
        BY <1>1, <1>2, SeqOfFunction
<1> QED
    BY <1>2, <1>3

LEMMA StartedFacts ==
    ASSUME NEW m \in Seq(Managed), NEW i \in 1..Len(m)
    PROVE  LET c == Started(m, i)
           IN  /\ c \in Seq(Managed) /\ Len(c) = Len(m)
               /\ \A j \in 1..Len(m) : /\ c[j].key = m[j].key /\ c[j].disposed = m[j].disposed
                                       /\ j # i => c[j] = m[j]
               /\ Idle(m, i) => /\ m[i].queue # <<>> /\ ~m[i].processing
                                /\ c[i].queue = Tail(m[i].queue) /\ c[i].processing
                                /\ Starting(m, i) = {m[i].queue[1]}
               /\ ~Idle(m, i) => c = m /\ Starting(m, i) = {}
               /\ Starting(m, i) \subseteq Requests
<1> DEFINE c == Started(m, i)
<1>1. m[i] \in Managed /\ Len(m) \in Nat /\ DOMAIN m = 1..Len(m)
    BY ElementOfSeq
<1>2. CASE Idle(m, i)
    <2> DEFINE e == [m[i] EXCEPT !.queue = Tail(@), !.processing = TRUE]
    <2>1. m[i].queue \in Seq(Requests) /\ m[i].queue # <<>> /\ ~m[i].processing
        BY <1>1, <1>2 DEF Idle, Managed
    <2>2. Tail(m[i].queue) \in Seq(Requests) /\ m[i].queue[1] \in Requests
        BY <2>1
    <2>3. e \in Managed /\ e.queue = Tail(m[i].queue) /\ e.processing
          /\ e.key = m[i].key /\ e.disposed = m[i].disposed
        BY <1>1, <2>2 DEF Managed
    <2>4. c = [m EXCEPT ![i] = e]
        BY <1>1, <1>2 DEF Started
    <2>5. Starting(m, i) = {m[i].queue[1]}
        BY <1>2 DEF Starting
    <2> HIDE DEF c, e
    <2>6. /\ c \in Seq(Managed) /\ Len(c) = Len(m)
          /\ c[i] = e /\ \A j \in 1..Len(m) : j # i => c[j] = m[j]
        BY <2>3, <2>4, ManagedExcept
    <2> QED
        BY <1>2, <2>1, <2>2, <2>3, <2>5, <2>6 DEF c
<1>3. CASE ~Idle(m, i)
    BY <1>3 DEF Started, Starting
<1> QED
    BY <1>2, <1>3

LEMMA MovedFacts ==
    ASSUME NEW n \in Nat, NEW req \in [Requests -> RequestOf(n)], NEW S,
           NEW phase \in Phases
    PROVE  LET c == Moved(req, S, phase)
           IN  /\ c \in [Requests -> RequestOf(n)]
               /\ \A r \in Requests :
                      /\ r \notin S => c[r] = req[r]
                      /\ r \in S => c[r].phase = phase
                      /\ r \in S /\ phase \notin {"answered", "lost"} =>
                             /\ c[r].key = req[r].key /\ c[r].on = req[r].on
                             /\ c[r].chat = req[r].chat /\ c[r].stream = req[r].stream
<1> DEFINE c == Moved(req, S, phase)
<1>1. ASSUME NEW r \in Requests
      PROVE  /\ c[r] \in RequestOf(n)
             /\ r \notin S => c[r] = req[r]
             /\ r \in S => c[r].phase = phase
             /\ r \in S /\ phase \notin {"answered", "lost"} =>
                    /\ c[r].key = req[r].key /\ c[r].on = req[r].on
                    /\ c[r].chat = req[r].chat /\ c[r].stream = req[r].stream
    <2>1. req[r] \in RequestOf(n) /\ PrimaryKey \in Keys /\ 0 \in 0..n
        BY GatewayAssumption
    <2>2. CASE r \notin S
        BY <2>1, <2>2 DEF Moved
    <2>3. CASE r \in S /\ phase \in {"answered", "lost"}
        <3>1. c[r] = [NoRequest EXCEPT !.phase = phase]
            BY <2>3 DEF Moved
        <3> QED
            BY <2>1, <2>3, <3>1 DEF NoRequest, None, RequestOf, Phases
    <2>4. CASE r \in S /\ phase \notin {"answered", "lost"}
        <3>1. c[r] = [req[r] EXCEPT !.phase = phase]
            BY <2>4 DEF Moved
        <3> QED
            BY <2>1, <2>4, <3>1 DEF RequestOf
    <2> QED
        BY <2>2, <2>3, <2>4
<1>2. c = [r \in Requests |-> c[r]]
    BY DEF Moved
<1> HIDE DEF c
<1>3. c \in [Requests -> RequestOf(n)]
    BY <1>1, <1>2
<1> QED
    BY <1>1, <1>3 DEF c

-----------------------------------------------------------------------------
(* Types, and what the map and the captured sessions refer to.             *)

Typed ==
    /\ managed \in Seq(Managed) /\ Len(managed) \in Nat \ {0}
    /\ sessions \in [Keys -> 0..Len(managed)]
    /\ request \in [Requests -> RequestOf(Len(managed))]
    /\ teardown \in [Teardowns -> TeardownOf(Len(managed))]
    /\ stopped \in BOOLEAN /\ twins \in BOOLEAN

\* The primary session is never disposed of, and a captured session exists.
Captured ==
    /\ managed[1].key = PrimaryKey /\ ~managed[1].disposed
    /\ \A r \in Requests : request[r].phase \in Carried => request[r].on # None
    /\ \A t \in Teardowns : teardown[t].phase \notin {"new", "done"} => teardown[t].on # None

TypedInv == Typed /\ Captured /\ MapHoldsLiveSessions

LEMMA InitTyped == Init => TypedInv
<1> SUFFICES ASSUME Init PROVE TypedInv
    OBVIOUS
<1>1. NewManaged(PrimaryKey) \in Managed
    <2>1. <<>> \in Seq(Requests)
        BY EmptySeq
    <2> QED
        BY <2>1, GatewayAssumption DEF NewManaged, Managed
<1>2. managed \in Seq(Managed) /\ Len(managed) = 1 /\ managed[1] = NewManaged(PrimaryKey)
    BY <1>1 DEF Init
<1>3. sessions \in [Keys -> 0..1] /\ \A k \in Keys : sessions[k] # None => k = PrimaryKey /\ sessions[k] = 1
    BY DEF Init, None, Primary
<1>4. request \in [Requests -> RequestOf(1)] /\ \A r \in Requests : request[r].phase = "new"
    BY GatewayAssumption DEF Init, NoRequest, RequestOf, Phases, None
<1>5. teardown \in [Teardowns -> TeardownOf(1)] /\ \A t \in Teardowns : teardown[t].phase = "new"
    BY DEF Init, TeardownOf, None
<1>6. Typed
    <2>1. stopped \in BOOLEAN /\ twins \in BOOLEAN
        BY DEF Init
    <2> QED
        BY <1>2, <1>3, <1>4, <1>5, <2>1 DEF Typed
<1>7. Captured /\ MapHoldsLiveSessions
    BY <1>2, <1>3, <1>4, <1>5 DEF Captured, MapHoldsLiveSessions, NewManaged, Carried, InFlight
<1> QED
    BY <1>6, <1>7 DEF TypedInv

LEMMA TypedFacts ==
    ASSUME TypedInv
    PROVE  /\ DOMAIN managed = 1..Len(managed) /\ Len(managed) \in Nat /\ Len(managed) >= 1
           /\ \A i \in 1..Len(managed) : managed[i] \in Managed
           /\ \A r \in Requests :
                  /\ request[r] \in RequestOf(Len(managed))
                  /\ request[r].on \in 0..Len(managed) /\ request[r].stream \in 0..Len(managed)
                  /\ request[r].phase \in Carried => request[r].on \in 1..Len(managed)
           /\ \A k \in Keys : sessions[k] # None =>
                  /\ sessions[k] \in 1..Len(managed)
                  /\ managed[sessions[k]].key = k /\ ~managed[sessions[k]].disposed
           /\ \A t \in Teardowns : /\ teardown[t] \in TeardownOf(Len(managed))
                                   /\ teardown[t].phase \notin {"new", "done"} =>
                                          teardown[t].on \in 1..Len(managed)
<1>1. DOMAIN managed = 1..Len(managed) /\ Len(managed) \in Nat /\ Len(managed) >= 1
      /\ \A i \in 1..Len(managed) : managed[i] \in Managed
    BY ElementOfSeq DEF TypedInv, Typed
<1> QED
    BY <1>1 DEF TypedInv, Typed, Captured, MapHoldsLiveSessions, RequestOf, TeardownOf, None

(* A step that creates no session and leaves keys and disposals alone.     *)
LEMMA SameSessionsTyped ==
    ASSUME TypedInv,
           managed' \in Seq(Managed), Len(managed') = Len(managed),
           \A i \in 1..Len(managed) : /\ managed'[i].key = managed[i].key
                                      /\ managed'[i].disposed = managed[i].disposed,
           sessions' = sessions, stopped' = stopped, twins' \in BOOLEAN,
           request' \in [Requests -> RequestOf(Len(managed))],
           \A r \in Requests : request'[r].phase \in Carried => request'[r].on # None,
           teardown' \in [Teardowns -> TeardownOf(Len(managed))],
           \A t \in Teardowns : teardown'[t].phase \notin {"new", "done"} => teardown'[t].on # None
    PROVE  TypedInv'
<1>1. Typed'
    BY DEF TypedInv, Typed
<1>2. Captured'
    BY TypedFacts DEF TypedInv, Captured
<1>3. MapHoldsLiveSessions'
    BY TypedFacts DEF MapHoldsLiveSessions
<1> QED
    BY <1>1, <1>2, <1>3 DEF TypedInv

\* What ensureSession() does to a request.
LEMMA EnsuredFacts ==
    ASSUME TypedInv, NEW c \in RequestOf(Len(managed))
    PROVE  /\ Ensured(c) \in RequestOf(Len(managed))
           /\ Ensured(c).key = c.key /\ Ensured(c).chat = c.chat /\ Ensured(c).stream = c.stream
           /\ sessions[c.key] # None => Ensured(c).phase = "found" /\ Ensured(c).on = sessions[c.key]
           /\ sessions[c.key] = None => Ensured(c).phase = "ensuring" /\ Ensured(c).on = c.on
<1>1. c.key \in Keys /\ sessions[c.key] \in 0..Len(managed)
    BY DEF RequestOf, TypedInv, Typed
<1>2. CASE sessions[c.key] # None
    BY <1>1, <1>2 DEF Ensured, RequestOf, Phases
<1>3. CASE sessions[c.key] = None
    BY <1>1, <1>3 DEF Ensured, RequestOf, Phases
<1> QED
    BY <1>2, <1>3

LEMMA SendTyped ==
    ASSUME TypedInv, NEW r \in Requests, NEW k \in Keys, NEW chat \in BOOLEAN, Send(r, k, chat)
    PROVE  TypedInv'
<1> DEFINE c == [request[r] EXCEPT !.key = k, !.chat = chat]
           e == Ensured(c)
<1>1. c \in RequestOf(Len(managed))
    BY TypedFacts DEF RequestOf
<1>2. request' = [request EXCEPT ![r] = e]
    BY DEF Send
<1> HIDE DEF c
<1>3. e \in RequestOf(Len(managed)) /\ (e.phase \in Carried => e.on # None)
    BY <1>1, EnsuredFacts DEF Carried, InFlight
<1> HIDE DEF e
<1>4. request' \in [Requests -> RequestOf(Len(managed))]
      /\ \A q \in Requests : request'[q].phase \in Carried => request'[q].on # None
    BY <1>2, <1>3 DEF TypedInv, Typed, Captured
<1>5. twins' \in BOOLEAN
    BY DEF Send, TwinOf
<1> QED
    BY <1>4, <1>5, SameSessionsTyped DEF Send, TypedInv, Typed, Captured

LEMMA ChatContinuesTyped ==
    ASSUME TypedInv, NEW r \in Requests, ChatContinues(r)
    PROVE  TypedInv'
<1> DEFINE c == [request[r] EXCEPT !.stream = request[r].on]
           e == Ensured(c)
<1>1. c \in RequestOf(Len(managed))
    BY TypedFacts DEF RequestOf
<1>2. request' = [request EXCEPT ![r] = e]
    BY DEF ChatContinues
<1> HIDE DEF c
<1>3. e \in RequestOf(Len(managed)) /\ (e.phase \in Carried => e.on # None)
    BY <1>1, EnsuredFacts DEF Carried, InFlight
<1> HIDE DEF e
<1>4. request' \in [Requests -> RequestOf(Len(managed))]
      /\ \A q \in Requests : request'[q].phase \in Carried => request'[q].on # None
    BY <1>2, <1>3 DEF TypedInv, Typed, Captured
<1>5. twins' \in BOOLEAN
    BY DEF ChatContinues, TwinOf
<1> QED
    BY <1>4, <1>5, SameSessionsTyped DEF ChatContinues, TypedInv, Typed, Captured

LEMMA SessionCreatedTyped ==
    ASSUME TypedInv, NEW r \in Requests, SessionCreated(r)
    PROVE  TypedInv'
<1> DEFINE k == request[r].key
           n == Len(managed)
           e == NewManaged(k)
<1>1. k \in Keys /\ n \in Nat
    BY TypedFacts DEF RequestOf
<1>2. e \in Managed /\ e.key = k /\ ~e.disposed
    <2>1. <<>> \in Seq(Requests)
        BY EmptySeq
    <2> QED
        BY <1>1, <2>1 DEF NewManaged, Managed
<1>3. /\ managed' = Append(managed, e)
      /\ sessions' = [sessions EXCEPT ![k] = n + 1]
      /\ request' = [request EXCEPT ![r] = [@ EXCEPT !.phase = "found", !.on = n + 1]]
      /\ UNCHANGED <<teardown, stopped, twins>>
    BY DEF SessionCreated
<1> HIDE DEF k, e
<1>4. /\ managed' \in Seq(Managed) /\ Len(managed') = n + 1 /\ managed'[n + 1] = e
      /\ \A i \in 1..n : managed'[i] = managed[i]
    BY <1>2, <1>3 DEF TypedInv, Typed
<1>5. sessions' \in [Keys -> 0..(n + 1)]
    BY <1>1, <1>3 DEF TypedInv, Typed
<1>6. ASSUME NEW q \in Requests
      PROVE  request'[q] \in RequestOf(n + 1) /\ (request'[q].phase \in Carried => request'[q].on # None)
    <2>1. request[q] \in RequestOf(n) /\ n + 1 \in 0..(n + 1) /\ n + 1 # 0 /\ \A x \in 0..n : x \in 0..(n + 1)
        BY <1>1, TypedFacts
    <2>2. CASE q = r
        <3>1. request'[q] = [request[q] EXCEPT !.phase = "found", !.on = n + 1]
            BY <1>3, <2>2 DEF TypedInv, Typed
        <3> HIDE DEF n
        <3> QED
            BY <2>1, <3>1 DEF RequestOf, Phases, None
    <2>3. CASE q # r
        <3>1. request'[q] = request[q]
            BY <1>3, <2>3 DEF TypedInv, Typed
        <3>2. request[q].phase \in Carried => request[q].on # None
            BY DEF TypedInv, Captured
        <3> HIDE DEF n
        <3> QED
            BY <2>1, <3>1, <3>2 DEF RequestOf
    <2> QED
        BY <2>2, <2>3
<1>7. request' \in [Requests -> RequestOf(n + 1)]
    BY <1>3, <1>6 DEF TypedInv, Typed
<1>8. teardown' \in [Teardowns -> TeardownOf(n + 1)]
    <2>1. \A t \in Teardowns : teardown[t] \in TeardownOf(n + 1)
        BY <1>1, TypedFacts DEF TeardownOf
    <2> QED
        BY <1>3, <2>1 DEF TypedInv, Typed
<1>9. Typed'
    BY <1>1, <1>3, <1>4, <1>5, <1>7, <1>8 DEF TypedInv, Typed
<1>10. Captured'
    BY <1>3, <1>4, <1>6, TypedFacts DEF TypedInv, Captured
<1>11. MapHoldsLiveSessions'
    <2> SUFFICES ASSUME NEW l \in Keys, sessions'[l] # None
                 PROVE  ~managed'[sessions'[l]].disposed /\ managed'[sessions'[l]].key = l
        BY DEF MapHoldsLiveSessions
    <2>1. CASE l = k
        BY <1>1, <1>2, <1>3, <1>4, <2>1 DEF TypedInv, Typed
    <2>2. CASE l # k
        <3>1. sessions'[l] = sessions[l]
            BY <1>3, <2>2 DEF TypedInv, Typed
        <3> QED
            BY <1>4, <3>1, TypedFacts
    <2> QED
        BY <2>1, <2>2
<1> QED
    BY <1>9, <1>10, <1>11 DEF TypedInv

\* A request moves and its session stays.
LEMMA MoveTyped ==
    ASSUME TypedInv, NEW r \in Requests, NEW phase \in Phases,
           request' = Moved(request, {r}, phase),
           phase \in Carried => request[r].phase \in Carried,
           UNCHANGED <<sessions, managed, teardown, stopped, twins>>
    PROVE  TypedInv'
<1>1. /\ request' \in [Requests -> RequestOf(Len(managed))]
      /\ \A q \in Requests : request'[q].phase \in Carried => request'[q].on # None
    <2>1. request \in [Requests -> RequestOf(Len(managed))] /\ Len(managed) \in Nat
        BY DEF TypedInv, Typed
    <2>2. /\ request' \in [Requests -> RequestOf(Len(managed))]
          /\ \A q \in Requests : q # r => request'[q] = request[q]
          /\ request'[r].phase = phase
          /\ phase \notin {"answered", "lost"} => request'[r].on = request[r].on
        BY <2>1, MovedFacts
    <2> QED
        BY <2>2 DEF TypedInv, Captured, Carried, InFlight
<1> QED
    BY <1>1, SameSessionsTyped, TypedFacts DEF TypedInv, Typed, Captured

\* Enqueue and Finally: the request moves, and its session may start another.
LEMMA StartTyped ==
    ASSUME TypedInv, NEW i \in 1..Len(managed), NEW m \in Seq(Managed), Len(m) = Len(managed),
           \A j \in 1..Len(managed) : m[j].key = managed[j].key /\ m[j].disposed = managed[j].disposed,
           NEW req \in [Requests -> RequestOf(Len(managed))],
           \A q \in Requests : req[q].phase \in Carried => req[q].on # None,
           \A q \in Starting(m, i) : req[q].phase \in Carried,
           managed' = Started(m, i), request' = Moved(req, Starting(m, i), "preparing"),
           UNCHANGED <<sessions, teardown, stopped, twins>>
    PROVE  TypedInv'
<1>1. /\ managed' \in Seq(Managed) /\ Len(managed') = Len(managed)
      /\ \A j \in 1..Len(managed) : /\ managed'[j].key = managed[j].key
                                    /\ managed'[j].disposed = managed[j].disposed
    BY StartedFacts
<1>2. /\ request' \in [Requests -> RequestOf(Len(managed))]
      /\ \A q \in Requests :
             /\ q \notin Starting(m, i) => request'[q] = req[q]
             /\ q \in Starting(m, i) => request'[q].on = req[q].on
    <2>1. Len(managed) \in Nat /\ "preparing" \in Phases
        BY DEF TypedInv, Typed, Phases
    <2> QED
        BY <2>1, MovedFacts
<1>3. \A q \in Requests : request'[q].phase \in Carried => request'[q].on # None
    BY <1>2
<1> QED
    BY <1>1, <1>2, <1>3, SameSessionsTyped DEF TypedInv, Typed, Captured

-----------------------------------------------------------------------------
(* Queues and the prompts that they feed, for sessions m and requests req. *)

\* A queue holds the queued requests of its session, each once.
Queues(m, req) ==
    /\ \A i \in DOMAIN m : \A x \in DOMAIN m[i].queue :
           /\ req[m[i].queue[x]].phase = "queued" /\ req[m[i].queue[x]].on = i
           /\ \A y \in DOMAIN m[i].queue : m[i].queue[x] = m[i].queue[y] => x = y
    /\ \A r \in Requests : req[r].phase = "queued" =>
           \E i \in DOMAIN m : \E x \in DOMAIN m[i].queue : m[i].queue[x] = r

\* A session processes one request at a time.
Serial(m, req) ==
    \A r \in Requests : req[r].phase \in InFlight =>
        /\ m[req[r].on].processing
        /\ \A q \in Requests : req[q].phase \in InFlight /\ req[q].on = req[r].on => q = r

LEMMA QueueTypes ==
    ASSUME NEW m \in Seq(Managed)
    PROVE  /\ DOMAIN m = 1..Len(m)
           /\ \A i \in 1..Len(m) :
                  /\ m[i] \in Managed /\ m[i].queue \in Seq(Requests)
                  /\ DOMAIN m[i].queue = 1..Len(m[i].queue) /\ Len(m[i].queue) \in Nat
                  /\ \A x \in 1..Len(m[i].queue) : m[i].queue[x] \in Requests
<1>1. DOMAIN m = 1..Len(m) /\ \A i \in 1..Len(m) : m[i] \in Managed
    BY ElementOfSeq
<1>2. ASSUME NEW i \in 1..Len(m)
      PROVE  /\ m[i].queue \in Seq(Requests)
             /\ DOMAIN m[i].queue = 1..Len(m[i].queue) /\ Len(m[i].queue) \in Nat
             /\ \A x \in 1..Len(m[i].queue) : m[i].queue[x] \in Requests
    <2>1. m[i].queue \in Seq(Requests)
        BY <1>1 DEF Managed
    <2> QED
        BY <2>1, ElementOfSeq
<1> QED
    BY <1>1, <1>2

LEMMA StartQueues ==
    ASSUME NEW m \in Seq(Managed), NEW n \in Nat, NEW req \in [Requests -> RequestOf(n)],
           NEW i \in 1..Len(m), Queues(m, req),
           \A r \in Requests : req[r].phase \in InFlight => req[r].on \in 1..Len(m)
    PROVE  LET c == Started(m, i)  d == Moved(req, Starting(m, i), "preparing")
           IN  /\ Queues(c, d)
               /\ Serial(m, req) => Serial(c, d)
<1> DEFINE c == Started(m, i)
           d == Moved(req, Starting(m, i), "preparing")
           s == m[i].queue
<1>1. CASE ~Idle(m, i)
    <2>1. c = m /\ Starting(m, i) = {}
        BY <1>1 DEF Started, Starting
    <2>2. d = [r \in Requests |-> req[r]]
        BY <2>1 DEF Moved
    <2>3. d = req
        BY <2>2
    <2> QED
        BY <2>1, <2>3
<1>2. CASE Idle(m, i)
    <2> DEFINE h == s[1]
    <2>1. /\ s # <<>> /\ ~m[i].processing
          /\ c[i].queue = Tail(s) /\ c[i].processing /\ Starting(m, i) = {h}
          /\ c \in Seq(Managed) /\ Len(c) = Len(m)
          /\ \A j \in 1..Len(m) : j # i => c[j] = m[j]
        BY <1>2, StartedFacts
    <2>2. /\ s \in Seq(Requests) /\ DOMAIN s = 1..Len(s) /\ Len(s) \in Nat /\ Len(s) >= 1
          /\ h \in Requests /\ DOMAIN m = 1..Len(m)
        BY <2>1, QueueTypes
    <2>3. /\ DOMAIN Tail(s) = 1..(Len(s) - 1)
          /\ \A x \in 1..(Len(s) - 1) : Tail(s)[x] = s[x + 1] /\ x + 1 \in 1..Len(s) /\ x + 1 # 1
        BY <2>1, <2>2
    <2>4. /\ \A r \in Requests : r # h => d[r] = req[r]
          /\ d[h].phase = "preparing" /\ d[h].on = req[h].on
        <3>1. "preparing" \in Phases
            BY DEF Phases
        <3> QED
            BY <2>1, <2>2, <3>1, MovedFacts
    <2>5. req[h].phase = "queued" /\ req[h].on = i
        BY <2>2 DEF Queues
    <2>6. DOMAIN c = 1..Len(m)
        BY <2>1, QueueTypes
    <2>11. \A x \in 1..Len(s) :
               /\ s[x] \in Requests /\ req[s[x]].phase = "queued" /\ req[s[x]].on = i
               /\ \A y \in 1..Len(s) : s[x] = s[y] => x = y
        <3>1. \A x \in DOMAIN s :
               /\ req[s[x]].phase = "queued" /\ req[s[x]].on = i
               /\ \A y \in DOMAIN s : s[x] = s[y] => x = y
            BY <2>2 DEF Queues
        <3> QED
            BY <2>2, <3>1, QueueTypes
    <2>12. \A j \in 1..Len(m) : \A x \in DOMAIN m[j].queue :
               /\ m[j].queue[x] \in Requests
               /\ req[m[j].queue[x]].phase = "queued" /\ req[m[j].queue[x]].on = j
               /\ \A y \in DOMAIN m[j].queue : m[j].queue[x] = m[j].queue[y] => x = y
        BY <2>2, QueueTypes DEF Queues
    <2>13. \A r \in Requests : req[r].phase \in InFlight => req[r].on \in 1..Len(m)
        OBVIOUS
    <2> HIDE DEF c, d
    <2>7. ASSUME NEW j \in 1..Len(m), NEW x \in DOMAIN c[j].queue
          PROVE  /\ d[c[j].queue[x]].phase = "queued" /\ d[c[j].queue[x]].on = j
                 /\ \A y \in DOMAIN c[j].queue : c[j].queue[x] = c[j].queue[y] => x = y
        <3>1. CASE j = i
            <4>1. c[j].queue[x] = s[x + 1] /\ x \in 1..(Len(s) - 1)
                BY <2>1, <2>3, <3>1
            <4>2. s[x + 1] # h /\ s[x + 1] \in Requests
                <5>1. x + 1 \in 1..Len(s) /\ x + 1 # 1 /\ 1 \in 1..Len(s)
                    BY <2>2, <2>3, <4>1
                <5> QED
                    BY <2>11, <5>1
            <4>3. d[s[x + 1]] = req[s[x + 1]] /\ req[s[x + 1]].phase = "queued" /\ req[s[x + 1]].on = i
                BY <2>3, <2>4, <2>11, <4>1, <4>2
            <4>4. ASSUME NEW y \in DOMAIN c[j].queue, c[j].queue[x] = c[j].queue[y] PROVE x = y
                <5>1. y \in 1..(Len(s) - 1) /\ s[x + 1] = s[y + 1]
                    BY <2>1, <2>3, <3>1, <4>1, <4>4
                <5>2. x + 1 = y + 1
                    <6>1. x + 1 \in 1..Len(s) /\ y + 1 \in 1..Len(s)
                        BY <2>3, <4>1, <5>1
                    <6> QED
                        BY <2>11, <5>1, <6>1
                <5>3. x \in Int /\ y \in Int
                    BY <4>1, <5>1
                <5> QED
                    BY <5>2, <5>3
            <4> QED
                BY <3>1, <4>1, <4>3, <4>4
        <3>2. CASE j # i
            <4>1. c[j].queue = m[j].queue
                BY <2>1, <3>2
            <4>2. m[j].queue[x] # h /\ m[j].queue[x] \in Requests
                BY <2>5, <2>12, <3>2, <4>1
            <4> QED
                BY <2>4, <2>12, <4>1, <4>2
        <3> QED
            BY <3>1, <3>2
    <2>8. ASSUME NEW r \in Requests, d[r].phase = "queued"
          PROVE  \E j \in 1..Len(m) : \E x \in DOMAIN c[j].queue : c[j].queue[x] = r
        <3>1. r # h /\ req[r].phase = "queued"
            BY <2>4, <2>8
        <3>2. PICK j \in 1..Len(m) : \E x \in DOMAIN m[j].queue : m[j].queue[x] = r
            BY <2>2, <3>1 DEF Queues
        <3>3. PICK x \in DOMAIN m[j].queue : m[j].queue[x] = r
            BY <3>2
        <3>4. CASE j = i
            <4>1. x \in 1..Len(s) /\ x # 1 /\ x - 1 \in 1..(Len(s) - 1) /\ (x - 1) + 1 = x
                BY <2>2, <3>1, <3>3, <3>4
            <4>2. c[j].queue[x - 1] = r /\ x - 1 \in DOMAIN c[j].queue
                BY <2>1, <2>3, <3>3, <3>4, <4>1
            <4> QED
                BY <4>2
        <3>5. CASE j # i
            BY <2>1, <3>3, <3>5
        <3> QED
            BY <3>4, <3>5
    <2>9. Queues(c, d)
        BY <2>6, <2>7, <2>8 DEF Queues
    <2>10. ASSUME Serial(m, req) PROVE Serial(c, d)
        <3>1. \A r \in Requests : req[r].phase \in InFlight => r # h /\ req[r].on # i
            BY <2>1, <2>5, <2>10 DEF Serial, InFlight
        <3>2. \A r \in Requests : req[r].phase \in InFlight => m[req[r].on].processing
            BY <2>10 DEF Serial
        <3>3. \A r \in Requests : d[r].phase \in InFlight =>
                  r = h \/ (req[r].phase \in InFlight /\ d[r].on = req[r].on)
            BY <2>4
        <3>4. \A r \in Requests : req[r].phase \in InFlight => c[req[r].on].processing
            BY <2>1, <2>13, <3>1, <3>2
        <3> QED
            BY <2>1, <2>4, <2>5, <2>10, <3>1, <3>3, <3>4 DEF Serial
    <2> QED
        BY <2>9, <2>10 DEF c, d
<1> QED
    BY <1>1, <1>2

LEMMA QueuesFrame ==
    ASSUME NEW m \in Seq(Managed), NEW c \in Seq(Managed), Len(c) = Len(m),
           \A i \in 1..Len(m) : c[i].queue = m[i].queue,
           NEW req, NEW d,
           \A r \in Requests : /\ d[r].phase = "queued" <=> req[r].phase = "queued"
                               /\ req[r].phase = "queued" => d[r].on = req[r].on,
           Queues(m, req)
    PROVE  Queues(c, d)
<1>1. DOMAIN m = 1..Len(m) /\ DOMAIN c = 1..Len(m)
    BY QueueTypes
<1>2. \A i \in 1..Len(m) : \A x \in DOMAIN m[i].queue : m[i].queue[x] \in Requests
    BY QueueTypes
<1>3. \A i \in DOMAIN c : \A x \in DOMAIN c[i].queue :
          /\ d[c[i].queue[x]].phase = "queued" /\ d[c[i].queue[x]].on = i
          /\ \A y \in DOMAIN c[i].queue : c[i].queue[x] = c[i].queue[y] => x = y
    <2> SUFFICES ASSUME NEW i \in 1..Len(m), NEW x \in DOMAIN m[i].queue
                 PROVE  /\ d[m[i].queue[x]].phase = "queued" /\ d[m[i].queue[x]].on = i
                        /\ \A y \in DOMAIN m[i].queue : m[i].queue[x] = m[i].queue[y] => x = y
        BY <1>1
    <2>1. m[i].queue[x] \in Requests
        BY <1>2
    <2>2. /\ req[m[i].queue[x]].phase = "queued" /\ req[m[i].queue[x]].on = i
          /\ \A y \in DOMAIN m[i].queue : m[i].queue[x] = m[i].queue[y] => x = y
        BY <1>1 DEF Queues
    <2> QED
        BY <2>1, <2>2
<1>4. \A r \in Requests : d[r].phase = "queued" =>
          \E i \in DOMAIN c : \E x \in DOMAIN c[i].queue : c[i].queue[x] = r
    BY <1>1 DEF Queues
<1> QED
    BY <1>3, <1>4 DEF Queues

\* clearQueue() and rejectQueuedMessages().
LEMMA ClearKeeps ==
    ASSUME NEW m \in Seq(Managed), NEW c \in Seq(Managed), Len(c) = Len(m), NEW i \in 1..Len(m),
           c[i].queue = <<>>, \A j \in 1..Len(m) : j # i => c[j].queue = m[j].queue,
           NEW n \in Nat, NEW req \in [Requests -> RequestOf(n)],
           NEW phase \in {"answered", "lost"}, Queues(m, req)
    PROVE  LET d == Moved(req, Elements(m[i].queue), phase)
           IN  /\ d \in [Requests -> RequestOf(n)]
               /\ \A r \in Requests : d[r] = req[r] \/ d[r].phase = phase
               /\ Queues(c, d)
<1> DEFINE d == Moved(req, Elements(m[i].queue), phase)
<1>1. phase \in Phases
    BY DEF Phases
<1>2. /\ d \in [Requests -> RequestOf(n)]
      /\ \A r \in Requests : /\ r \notin Elements(m[i].queue) => d[r] = req[r]
                             /\ r \in Elements(m[i].queue) => d[r].phase = phase
    BY <1>1, MovedFacts
<1>3. DOMAIN m = 1..Len(m) /\ DOMAIN c = 1..Len(m)
    BY QueueTypes
<1>4. \A j \in 1..Len(m) : \A x \in DOMAIN m[j].queue : m[j].queue[x] \in Requests
    BY QueueTypes
<1> HIDE DEF d
<1>5. ASSUME NEW j \in 1..Len(m), NEW x \in DOMAIN c[j].queue
      PROVE  /\ d[c[j].queue[x]].phase = "queued" /\ d[c[j].queue[x]].on = j
             /\ \A y \in DOMAIN c[j].queue : c[j].queue[x] = c[j].queue[y] => x = y
    <2>1. j # i /\ c[j].queue = m[j].queue
        <3>1. DOMAIN <<>> = {}
            OBVIOUS
        <3> QED
            BY <1>5, <3>1
    <2>2. /\ req[m[j].queue[x]].phase = "queued" /\ req[m[j].queue[x]].on = j
          /\ \A y \in DOMAIN m[j].queue : m[j].queue[x] = m[j].queue[y] => x = y
        BY <1>3, <2>1 DEF Queues
    <2>3. m[j].queue[x] \notin Elements(m[i].queue)
        BY <1>3, <2>1, <2>2 DEF Queues, Elements
    <2> QED
        BY <1>2, <1>4, <2>1, <2>2, <2>3
<1>6. ASSUME NEW r \in Requests, d[r].phase = "queued"
      PROVE  \E j \in 1..Len(m) : \E x \in DOMAIN c[j].queue : c[j].queue[x] = r
    <2>1. r \notin Elements(m[i].queue) /\ req[r].phase = "queued"
        BY <1>2, <1>6
    <2>2. PICK j \in 1..Len(m) : \E x \in DOMAIN m[j].queue : m[j].queue[x] = r
        BY <1>3, <2>1 DEF Queues
    <2>3. j # i
        BY <2>1, <2>2 DEF Elements
    <2> QED
        BY <2>2, <2>3
<1>7. Queues(c, d)
    BY <1>3, <1>5, <1>6 DEF Queues
<1> QED
    BY <1>2, <1>7 DEF d

-----------------------------------------------------------------------------
(* While nothing is disturbed: who is ensuring a session, and who is       *)
(* carried by one.                                                         *)

Ensurings ==
    \A r \in Requests :
        /\ request[r].phase = "new" => request[r].on = None /\ request[r].stream = None
        /\ request[r].phase = "ensuring" =>
               /\ sessions[request[r].key] = None
               /\ request[r].on = None /\ request[r].stream = None
               /\ \A q \in Requests : request[q].phase = "ensuring" /\ request[q].key = request[r].key
                                          => q = r

Carries ==
    \A r \in Requests : request[r].phase \in Carried =>
        /\ sessions[request[r].key] = request[r].on
        /\ request[r].chat /\ request[r].stream # None => request[r].stream = request[r].on
        /\ request[r].chat /\ request[r].phase # "found" => request[r].stream # None

Calm == Ensurings /\ Carries /\ Serial(managed, request)

GatewayInv == TypedInv /\ Queues(managed, request) /\ (Undisturbed => Calm)

\* A request stays, is over, or moves on with the session that carries it.
LEMMA MovesKeep ==
    ASSUME sessions' = sessions,
           \A r \in Requests :
               \/ request'[r] = request[r]
               \/ request'[r].phase \in {"answered", "lost"}
               \/ /\ request[r].phase \in Carried /\ request'[r].phase \in Carried \ {"found"}
                  /\ request'[r].key = request[r].key /\ request'[r].on = request[r].on
                  /\ request'[r].chat = request[r].chat /\ request'[r].stream = request[r].stream
                  /\ request[r].chat => request[r].stream # None
    PROVE  Ensurings /\ Carries => Ensurings' /\ Carries'
<1> SUFFICES ASSUME Ensurings, Carries PROVE Ensurings' /\ Carries'
    OBVIOUS
<1>1. \A r \in Requests : request'[r].phase \in {"new", "ensuring"} => request'[r] = request[r]
    BY DEF Carried, InFlight
<1>2. Ensurings'
    BY <1>1 DEF Ensurings
<1>3. ASSUME NEW r \in Requests, request'[r].phase \in Carried
      PROVE  /\ sessions[request'[r].key] = request'[r].on
             /\ request'[r].chat /\ request'[r].stream # None => request'[r].stream = request'[r].on
             /\ request'[r].chat /\ request'[r].phase # "found" => request'[r].stream # None
    <2>1. request'[r].phase \notin {"answered", "lost"}
        BY <1>3 DEF Carried, InFlight
    <2> QED
        BY <1>3, <2>1 DEF Carries
<1>4. Carries'
    BY <1>3 DEF Carries
<1> QED
    BY <1>2, <1>4

LEMMA InitInv == Init => GatewayInv
<1> SUFFICES ASSUME Init PROVE GatewayInv
    OBVIOUS
<1>1. TypedInv
    BY InitTyped
<1>2. \A r \in Requests : /\ request[r].phase = "new" /\ request[r].on = None
                          /\ request[r].stream = None
    BY DEF Init, NoRequest
<1>3. DOMAIN managed = {1} /\ managed[1].queue = <<>> /\ DOMAIN <<>> = {}
    BY DEF Init, NewManaged
<1>4. Queues(managed, request)
    BY <1>2, <1>3 DEF Queues
<1>5. Ensurings /\ Carries /\ Serial(managed, request)
    BY <1>2 DEF Ensurings, Carries, Serial, Carried, InFlight
<1> QED
    BY <1>1, <1>4, <1>5 DEF GatewayInv, Calm

-----------------------------------------------------------------------------
(* Requests that have no session yet.                                      *)

LEMMA SendInv ==
    ASSUME GatewayInv, NEW r \in Requests, NEW k \in Keys, NEW chat \in BOOLEAN, Send(r, k, chat)
    PROVE  GatewayInv'
<1> DEFINE c == [request[r] EXCEPT !.key = k, !.chat = chat]
           e == Ensured(c)
<1>1. TypedInv /\ TypedInv' /\ Queues(managed, request)
    BY SendTyped DEF GatewayInv
<1>2. /\ c \in RequestOf(Len(managed)) /\ c.key = k
      /\ c.on = request[r].on /\ c.stream = request[r].stream
    BY <1>1, TypedFacts DEF RequestOf
<1>3. /\ request[r].phase = "new" /\ request' = [request EXCEPT ![r] = e]
      /\ twins' = (twins \/ TwinOf(r, request'[r]))
      /\ UNCHANGED <<sessions, managed, teardown, stopped>>
    BY DEF Send
<1> HIDE DEF c
<1>4. /\ e.key = k /\ e.stream = request[r].stream
      /\ sessions[k] # None => e.phase = "found" /\ e.on = sessions[k]
      /\ sessions[k] = None => e.phase = "ensuring" /\ e.on = request[r].on
    BY <1>1, <1>2, EnsuredFacts
<1> HIDE DEF e
<1>5. request'[r] = e /\ \A q \in Requests : q # r => request'[q] = request[q]
    BY <1>1, <1>3 DEF TypedInv, Typed
<1>6. Queues(managed, request)'
    BY <1>1, <1>3, <1>4, <1>5, QueuesFrame DEF TypedInv, Typed
<1>7. ASSUME Undisturbed' PROVE Calm'
    <2>1. Calm /\ ~TwinOf(r, request'[r])
        BY <1>3, <1>7 DEF GatewayInv, Undisturbed
    <2>2. request[r].on = None /\ request[r].stream = None
        BY <1>3, <2>1 DEF Calm, Ensurings
    <2>3. \A q \in Requests : request'[r].phase = "ensuring" /\ request'[q].phase = "ensuring"
                                  /\ request'[q].key = request'[r].key => q = r
        BY <1>5, <2>1 DEF TwinOf
    <2>4. Ensurings'
        BY <1>3, <1>4, <1>5, <2>1, <2>2, <2>3 DEF Calm, Ensurings
    <2>5. Carries'
        BY <1>3, <1>4, <1>5, <2>1, <2>2 DEF Calm, Carries, Carried, InFlight
    <2>6. Serial(managed, request)'
        BY <1>3, <1>4, <1>5, <2>1 DEF Calm, Serial, InFlight
    <2> QED
        BY <2>4, <2>5, <2>6 DEF Calm
<1> QED
    BY <1>1, <1>6, <1>7 DEF GatewayInv

LEMMA ChatContinuesInv ==
    ASSUME GatewayInv, NEW r \in Requests, ChatContinues(r)
    PROVE  GatewayInv'
<1> DEFINE c == [request[r] EXCEPT !.stream = request[r].on]
           e == Ensured(c)
<1>1. TypedInv /\ TypedInv' /\ Queues(managed, request)
    BY ChatContinuesTyped DEF GatewayInv
<1>2. /\ c \in RequestOf(Len(managed)) /\ c.key = request[r].key
      /\ c.on = request[r].on /\ c.stream = request[r].on /\ c.chat = request[r].chat
    BY <1>1, TypedFacts DEF RequestOf
<1>3. /\ request[r].phase = "found" /\ request' = [request EXCEPT ![r] = e]
      /\ twins' = (twins \/ TwinOf(r, request'[r]))
      /\ UNCHANGED <<sessions, managed, teardown, stopped>>
    BY DEF ChatContinues
<1> HIDE DEF c
<1>4. /\ e.key = c.key /\ e.stream = c.stream
      /\ sessions[c.key] # None => e.phase = "found" /\ e.on = sessions[c.key]
      /\ sessions[c.key] = None => e.phase = "ensuring"
    BY <1>1, <1>2, EnsuredFacts
<1> HIDE DEF e
<1>5. request'[r] = e /\ \A q \in Requests : q # r => request'[q] = request[q]
    BY <1>1, <1>3 DEF TypedInv, Typed
<1>6. Queues(managed, request)'
    BY <1>1, <1>3, <1>4, <1>5, QueuesFrame DEF TypedInv, Typed
<1>7. ASSUME Undisturbed' PROVE Calm'
    <2>1. Calm
        BY <1>3, <1>7 DEF GatewayInv, Undisturbed
    <2>2. request[r].on # None /\ sessions[request[r].key] = request[r].on
        BY <1>1, <1>3, <2>1 DEF Calm, Carries, Carried, TypedInv, Captured
    <2>3. /\ e.phase = "found" /\ e.key = request[r].key
          /\ e.on = request[r].on /\ e.stream = request[r].on
        BY <1>2, <1>4, <2>2
    <2>4. Ensurings'
        BY <1>3, <1>5, <2>1, <2>3 DEF Calm, Ensurings
    <2>5. Carries'
        BY <1>3, <1>5, <2>1, <2>2, <2>3 DEF Calm, Carries, Carried, InFlight
    <2>6. Serial(managed, request)'
        BY <1>3, <1>5, <2>1, <2>3 DEF Calm, Serial, InFlight
    <2> QED
        BY <2>4, <2>5, <2>6 DEF Calm
<1> QED
    BY <1>1, <1>6, <1>7 DEF GatewayInv

LEMMA SessionCreatedInv ==
    ASSUME GatewayInv, NEW r \in Requests, SessionCreated(r)
    PROVE  GatewayInv'
<1> DEFINE k == request[r].key
           n == Len(managed)
           e == NewManaged(k)
<1>1. TypedInv /\ TypedInv' /\ Queues(managed, request) /\ k \in Keys /\ n \in Nat
    BY SessionCreatedTyped, TypedFacts DEF GatewayInv, RequestOf
<1>2. /\ request[r].phase = "ensuring"
      /\ managed' = Append(managed, e)
      /\ sessions' = [sessions EXCEPT ![k] = n + 1]
      /\ request' = [request EXCEPT ![r] = [@ EXCEPT !.phase = "found", !.on = n + 1]]
      /\ UNCHANGED <<teardown, stopped, twins>>
    BY DEF SessionCreated
<1>3. e.queue = <<>> /\ DOMAIN <<>> = {}
    BY DEF NewManaged
<1>4. request[r] \in RequestOf(n)
    BY <1>1, TypedFacts
<1> HIDE DEF k, e
<1>5. /\ DOMAIN managed = 1..n /\ DOMAIN managed' = 1..(n + 1) /\ managed'[n + 1] = e
      /\ \A i \in 1..n : managed'[i] = managed[i]
    BY <1>1, <1>2 DEF TypedInv, Typed
<1>6. /\ request'[r].phase = "found" /\ request'[r].on = n + 1 /\ request'[r].key = k
      /\ request'[r].stream = request[r].stream
      /\ \A q \in Requests : q # r => request'[q] = request[q]
    BY <1>1, <1>2, <1>4 DEF TypedInv, Typed, RequestOf, k
<1>7. Queues(managed, request)'
    <2>1. ASSUME NEW i \in 1..(n + 1), NEW x \in DOMAIN managed'[i].queue
          PROVE  /\ request'[managed'[i].queue[x]].phase = "queued"
                 /\ request'[managed'[i].queue[x]].on = i
                 /\ \A y \in DOMAIN managed'[i].queue :
                        managed'[i].queue[x] = managed'[i].queue[y] => x = y
        <3>1. i \in 1..n /\ managed'[i] = managed[i]
            BY <1>1, <1>3, <1>5, <2>1
        <3>2. /\ request[managed[i].queue[x]].phase = "queued" /\ request[managed[i].queue[x]].on = i
              /\ \A y \in DOMAIN managed[i].queue : managed[i].queue[x] = managed[i].queue[y] => x = y
            BY <1>1, <1>5, <3>1 DEF Queues
        <3>3. managed[i].queue[x] \in Requests /\ managed[i].queue[x] # r
            BY <1>1, <1>2, <3>1, <3>2, QueueTypes DEF TypedInv, Typed
        <3> QED
            BY <1>6, <3>1, <3>2, <3>3
    <2>2. ASSUME NEW q \in Requests, request'[q].phase = "queued"
          PROVE  \E i \in 1..(n + 1) : \E x \in DOMAIN managed'[i].queue : managed'[i].queue[x] = q
        <3>1. request[q].phase = "queued"
            BY <1>6, <2>2
        <3>2. PICK i \in 1..n : \E x \in DOMAIN managed[i].queue : managed[i].queue[x] = q
            BY <1>1, <1>5, <3>1 DEF Queues
        <3>3. i \in 1..(n + 1) /\ managed'[i] = managed[i]
            BY <1>1, <1>5
        <3> QED
            BY <3>2, <3>3
    <2> QED
        BY <1>5, <2>1, <2>2 DEF Queues
<1>8. ASSUME Undisturbed' PROVE Calm'
    <2>1. Calm
        BY <1>2, <1>8 DEF GatewayInv, Undisturbed
    <2>2. /\ sessions[k] = None /\ request[r].stream = None
          /\ \A q \in Requests : request[q].phase = "ensuring" /\ request[q].key = k => q = r
        BY <1>2, <2>1 DEF Calm, Ensurings, k
    <2>3. \A q \in Requests : request[q].phase \in Carried =>
              /\ request[q].key # k /\ request[q].key \in Keys /\ request[q].on \in 1..n
        BY <1>1, <2>1, <2>2, TypedFacts DEF Calm, Carries, RequestOf, None
    <2>4. \A l \in Keys : l # k => sessions'[l] = sessions[l]
        BY <1>2, <1>1 DEF TypedInv, Typed
    <2>5. sessions'[k] = n + 1
        BY <1>2, <1>1 DEF TypedInv, Typed
    <2>6. \A q \in Requests : request[q].key \in Keys
        BY <1>1, TypedFacts DEF RequestOf
    <2>7. Ensurings'
        BY <1>6, <2>1, <2>2, <2>4, <2>6 DEF Calm, Ensurings
    <2>8. Carries'
        BY <1>6, <2>1, <2>2, <2>3, <2>4, <2>5 DEF Calm, Carries
    <2>9. Serial(managed, request)'
        <3>1. \A q \in Requests : request'[q].phase \in InFlight =>
                  q # r /\ request'[q] = request[q] /\ request[q].on \in 1..n
            BY <1>6, <2>3 DEF InFlight, Carried
        <3> QED
            BY <1>5, <2>1, <3>1 DEF Calm, Serial
    <2> QED
        BY <2>7, <2>8, <2>9 DEF Calm
<1> QED
    BY <1>1, <1>7, <1>8 DEF GatewayInv

-----------------------------------------------------------------------------
(* Requests that move, and the queues that follow them.                    *)

\* A request without a place in a queue moves, between the phases of a prompt or to its end.
LEMMA MoveInv ==
    ASSUME GatewayInv, NEW r \in Requests, NEW to \in {"running", "ending", "answered"},
           request[r].phase # "queued",
           to # "answered" => request[r].phase \in InFlight,
           request' = Moved(request, {r}, to),
           UNCHANGED <<sessions, managed, teardown, stopped, twins>>
    PROVE  GatewayInv'
<1>1. TypedInv /\ Queues(managed, request) /\ to \in Phases
    BY DEF GatewayInv, Phases
<1>2. TypedInv'
    BY <1>1, MoveTyped DEF Carried, InFlight
<1>3. /\ \A q \in Requests : q # r => request'[q] = request[q]
      /\ request'[r].phase = to
      /\ to # "answered" =>
             /\ request'[r].key = request[r].key /\ request'[r].on = request[r].on
             /\ request'[r].chat = request[r].chat /\ request'[r].stream = request[r].stream
    <2>1. request \in [Requests -> RequestOf(Len(managed))] /\ Len(managed) \in Nat
        BY <1>1 DEF TypedInv, Typed
    <2> QED
        BY <1>1, <2>1, MovedFacts
<1>4. Queues(managed', request')
    <2>1. managed \in Seq(Managed) /\ managed' = managed
        BY <1>1 DEF TypedInv, Typed
    <2>2. \A q \in Requests :
              /\ request'[q].phase = "queued" <=> request[q].phase = "queued"
              /\ request[q].phase = "queued" => request'[q].on = request[q].on
        BY <1>3
    <2>3. ASSUME NEW d, d = request' PROVE Queues(managed, d)
        <3>1. \A q \in Requests :
                  /\ d[q].phase = "queued" <=> request[q].phase = "queued"
                  /\ request[q].phase = "queued" => d[q].on = request[q].on
            BY <2>2, <2>3
        <3> QED
            BY <1>1, <2>1, <3>1, QueuesFrame
    <2> QED
        BY <2>1, <2>3
<1>5. ASSUME Undisturbed' PROVE Calm'
    <2>1. Calm
        BY <1>5 DEF GatewayInv, Undisturbed
    <2>2. \A q \in Requests : q # r => request'[q] = request[q]
        BY <1>3
    <2>3. \/ request'[r].phase \in {"answered", "lost"}
          \/ /\ request[r].phase \in Carried /\ request'[r].phase \in Carried \ {"found"}
             /\ request'[r].key = request[r].key /\ request'[r].on = request[r].on
             /\ request'[r].chat = request[r].chat /\ request'[r].stream = request[r].stream
             /\ request[r].chat => request[r].stream # None
        BY <1>3, <2>1 DEF Calm, Carries, Carried, InFlight
    <2>4. Ensurings' /\ Carries'
        BY <2>1, <2>2, <2>3, MovesKeep DEF Calm
    <2>5. Serial(managed, request)'
        <3>1. \A q \in Requests : request'[q].phase \in InFlight =>
                  request[q].phase \in InFlight /\ request'[q].on = request[q].on
            BY <1>3 DEF InFlight
        <3> QED
            BY <2>1, <3>1 DEF Calm, Serial
    <2> QED
        BY <2>4, <2>5 DEF Calm
<1> QED
    BY <1>2, <1>4, <1>5 DEF GatewayInv

\* m and req are the sessions and the requests before the next prompt starts.
LEMMA StartInv ==
    ASSUME GatewayInv, NEW i \in 1..Len(managed), NEW m \in Seq(Managed), Len(m) = Len(managed),
           \A j \in 1..Len(managed) : m[j].key = managed[j].key /\ m[j].disposed = managed[j].disposed,
           NEW req \in [Requests -> RequestOf(Len(managed))],
           \A q \in Requests : req[q].phase \in Carried =>
               /\ req[q].on = request[q].on /\ req[q].key = request[q].key
               /\ req[q].chat = request[q].chat /\ req[q].stream = request[q].stream
               /\ request[q].phase \in Carried,
           \A q \in Requests :
               \/ req[q] = request[q]
               \/ req[q].phase \in {"answered", "lost"}
               \/ req[q].phase = "queued" /\ (request[q].chat => request[q].stream # None),
           Queues(m, req),
           Undisturbed => Serial(m, req),
           managed' = Started(m, i), request' = Moved(req, Starting(m, i), "preparing"),
           UNCHANGED <<sessions, teardown, stopped, twins>>
    PROVE  GatewayInv'
<1>1. TypedInv /\ Len(managed) \in Nat /\ "preparing" \in Phases
    BY DEF GatewayInv, TypedInv, Typed, Phases
<1>2. \A q \in Requests : req[q].phase \in Carried => req[q].on # None /\ req[q].on \in 1..Len(m)
    BY <1>1, TypedFacts DEF TypedInv, Captured
<1>3. Starting(m, i) \subseteq Requests /\ \A q \in Starting(m, i) : req[q].phase = "queued"
    <2>1. CASE Idle(m, i)
        <3>1. Starting(m, i) = {m[i].queue[1]} /\ m[i].queue # <<>>
            BY <2>1, StartedFacts
        <3>2. DOMAIN m = 1..Len(m) /\ 1 \in DOMAIN m[i].queue /\ m[i].queue[1] \in Requests
            BY <3>1, QueueTypes
        <3> QED
            BY <3>1, <3>2 DEF Queues
    <2>2. CASE ~Idle(m, i)
        BY <2>2 DEF Starting
    <2> QED
        BY <2>1, <2>2
<1>4. TypedInv'
    BY <1>1, <1>2, <1>3, StartTyped DEF Carried
<1>5. Queues(managed', request') /\ (Undisturbed => Serial(managed', request'))
    BY <1>1, <1>2, StartQueues DEF Carried
<1>6. \A q \in Requests :
          /\ q \notin Starting(m, i) => request'[q] = req[q]
          /\ q \in Starting(m, i) =>
                 /\ request'[q].phase = "preparing"
                 /\ request'[q].key = req[q].key /\ request'[q].on = req[q].on
                 /\ request'[q].chat = req[q].chat /\ request'[q].stream = req[q].stream
    BY <1>1, MovedFacts
<1>7. ASSUME Undisturbed' PROVE Calm'
    <2>1. Calm /\ Undisturbed
        BY <1>7 DEF GatewayInv, Undisturbed
    <2>2. ASSUME NEW q \in Requests
          PROVE  \/ request'[q] = request[q]
                 \/ request'[q].phase \in {"answered", "lost"}
                 \/ /\ request[q].phase \in Carried /\ request'[q].phase \in Carried \ {"found"}
                    /\ request'[q].key = request[q].key /\ request'[q].on = request[q].on
                    /\ request'[q].chat = request[q].chat /\ request'[q].stream = request[q].stream
                    /\ request[q].chat => request[q].stream # None
        <3>1. CASE q \in Starting(m, i)
            <4>1. req[q].phase = "queued" /\ req[q].phase \in Carried
                BY <1>3, <3>1 DEF Carried
            <4>2. request[q].chat => request[q].stream # None
                BY <2>1, <4>1 DEF Calm, Carries
            <4> QED
                BY <1>6, <3>1, <4>1, <4>2 DEF Carried, InFlight
        <3>2. CASE q \notin Starting(m, i)
            <4>1. request'[q] = req[q]
                BY <1>6, <3>2
            <4> QED
                BY <4>1 DEF Carried
        <3> QED
            BY <3>1, <3>2
    <2>3. Ensurings' /\ Carries'
        BY <2>1, <2>2, MovesKeep DEF Calm
    <2> QED
        BY <1>5, <2>1, <2>3 DEF Calm
<1> QED
    BY <1>4, <1>5, <1>7 DEF GatewayInv

LEMMA EnqueueInv ==
    ASSUME GatewayInv, NEW r \in Requests, Enqueue(r)
    PROVE  GatewayInv'
<1> DEFINE i == request[r].on
           e == [managed[i] EXCEPT !.queue = Append(@, r)]
           m == [managed EXCEPT ![i] = e]
           req == Moved(request, {r}, "queued")
<1>1. /\ TypedInv /\ Queues(managed, request) /\ request[r].phase = "found"
      /\ request[r].chat => request[r].stream # None
      /\ UNCHANGED <<sessions, teardown, stopped, twins>>
    BY DEF GatewayInv, Enqueue
<1>2. /\ i \in 1..Len(managed) /\ Len(managed) \in Nat /\ managed \in Seq(Managed)
      /\ managed[i] \in Managed /\ DOMAIN managed = 1..Len(managed)
      /\ request \in [Requests -> RequestOf(Len(managed))]
    BY <1>1, TypedFacts DEF Carried, TypedInv, Typed
<1>3. CASE Len(managed[i].queue) >= MaxQueuePerSession
    <2>1. request' = Moved(request, {r}, "answered") /\ managed' = managed
        BY <1>3 DEF Enqueue
    <2> QED
        BY <1>1, <2>1, MoveInv
<1>4. CASE ~(Len(managed[i].queue) >= MaxQueuePerSession)
    <2>1. e \in Managed /\ e.queue = Append(managed[i].queue, r)
          /\ e.key = managed[i].key /\ e.disposed = managed[i].disposed
          /\ e.processing = managed[i].processing
        <3>1. Append(managed[i].queue, r) \in Seq(Requests)
            BY <1>2 DEF Managed
        <3> HIDE DEF i
        <3> QED
            BY <1>2, <3>1 DEF Managed
    <2>2. managed' = Started(m, i) /\ request' = Moved(req, Starting(m, i), "preparing")
        BY <1>4 DEF Enqueue
    <2> HIDE DEF e
    <2>3. /\ m \in Seq(Managed) /\ Len(m) = Len(managed) /\ m[i] = e
          /\ \A j \in 1..Len(managed) : j # i => m[j] = managed[j]
        BY <1>2, <2>1, ManagedExcept
    <2>4. /\ req \in [Requests -> RequestOf(Len(managed))]
          /\ \A q \in Requests : q # r => req[q] = request[q]
          /\ req[r].phase = "queued" /\ req[r].on = i /\ req[r].key = request[r].key
          /\ req[r].chat = request[r].chat /\ req[r].stream = request[r].stream
        <3>1. "queued" \in Phases
            BY DEF Phases
        <3> QED
            BY <1>2, <3>1, MovedFacts
    <2>5. /\ DOMAIN m = 1..Len(managed)
          /\ \A j \in 1..Len(managed) : \A x \in DOMAIN managed[j].queue :
                 managed[j].queue[x] \in Requests /\ managed[j].queue[x] # r
        <3>1. \A j \in 1..Len(managed) : \A x \in DOMAIN managed[j].queue :
                  request[managed[j].queue[x]].phase = "queued" /\ managed[j].queue[x] \in Requests
            BY <1>1, <1>2, QueueTypes DEF Queues
        <3> QED
            BY <1>1, <2>3, <3>1, QueueTypes
    <2>6. /\ managed[i].queue \in Seq(Requests)
          /\ DOMAIN managed[i].queue = 1..Len(managed[i].queue) /\ Len(managed[i].queue) \in Nat
        BY <1>2, QueueTypes
    <2>7. /\ DOMAIN m[i].queue = 1..(Len(managed[i].queue) + 1)
          /\ m[i].queue[Len(managed[i].queue) + 1] = r
          /\ \A x \in DOMAIN managed[i].queue : m[i].queue[x] = managed[i].queue[x]
        BY <2>1, <2>3, <2>6
    <2> DEFINE l == Len(managed[i].queue)
    <2>10. DOMAIN m[i].queue = DOMAIN managed[i].queue \cup {l + 1} /\ l + 1 \notin DOMAIN managed[i].queue
        <3>1. DOMAIN m[i].queue = 1..(l + 1) /\ DOMAIN managed[i].queue = 1..l /\ l \in Nat
            BY <2>6, <2>7
        <3> HIDE DEF l, m
        <3> QED
            BY <3>1
    <2> HIDE DEF m, req, i
    <2>8. Queues(m, req)
        <3>1. ASSUME NEW j \in 1..Len(managed), NEW x \in DOMAIN m[j].queue
              PROVE  /\ req[m[j].queue[x]].phase = "queued" /\ req[m[j].queue[x]].on = j
                     /\ \A y \in DOMAIN m[j].queue : m[j].queue[x] = m[j].queue[y] => x = y
            <4>1. \A z \in DOMAIN managed[j].queue :
                      /\ request[managed[j].queue[z]].phase = "queued"
                      /\ request[managed[j].queue[z]].on = j
                      /\ \A y \in DOMAIN managed[j].queue :
                             managed[j].queue[z] = managed[j].queue[y] => z = y
                BY <1>1, <1>2 DEF Queues
            <4>2. CASE j # i
                BY <2>3, <2>4, <2>5, <4>1, <4>2
            <4>3. CASE j = i
                BY <2>4, <2>5, <2>7, <2>10, <3>1, <4>1, <4>3
            <4> QED
                BY <4>2, <4>3
        <3>2. ASSUME NEW q \in Requests, req[q].phase = "queued"
              PROVE  \E j \in 1..Len(managed) : \E x \in DOMAIN m[j].queue : m[j].queue[x] = q
            <4>1. CASE q = r
                <5>1. Len(managed[i].queue) + 1 \in DOMAIN m[i].queue
                    BY <2>6, <2>7
                <5> QED
                    BY <1>2, <2>7, <4>1, <5>1
            <4>2. CASE q # r
                <5>1. PICK j \in 1..Len(managed) : \E x \in DOMAIN managed[j].queue : managed[j].queue[x] = q
                    BY <1>1, <1>2, <2>4, <3>2, <4>2 DEF Queues
                <5>2. PICK x \in DOMAIN managed[j].queue : managed[j].queue[x] = q
                    BY <5>1
                <5>3. x \in DOMAIN m[j].queue /\ m[j].queue[x] = q
                    BY <2>3, <2>7, <2>10, <5>2
                <5> QED
                    BY <5>3
            <4> QED
                BY <4>1, <4>2
        <3> QED
            BY <2>5, <3>1, <3>2 DEF Queues
    <2>9. Undisturbed => Serial(m, req)
        <3>1. \A q \in Requests : req[q].phase \in InFlight =>
                  req[q] = request[q] /\ request[q].on \in 1..Len(managed)
            BY <1>1, <2>4, TypedFacts DEF InFlight, Carried
        <3>2. \A j \in 1..Len(managed) : m[j].processing = managed[j].processing
            BY <2>1, <2>3
        <3> QED
            BY <3>1, <3>2 DEF GatewayInv, Calm, Serial
    <2>11. \A j \in 1..Len(managed) : m[j].key = managed[j].key /\ m[j].disposed = managed[j].disposed
        BY <2>1, <2>3
    <2>12. \A q \in Requests : req[q].phase \in Carried =>
               /\ req[q].on = request[q].on /\ req[q].key = request[q].key
               /\ req[q].chat = request[q].chat /\ req[q].stream = request[q].stream
               /\ request[q].phase \in Carried
        BY <1>1, <2>4 DEF Carried, i
    <2>13. \A q \in Requests :
               \/ req[q] = request[q]
               \/ req[q].phase \in {"answered", "lost"}
               \/ req[q].phase = "queued" /\ (request[q].chat => request[q].stream # None)
        BY <1>1, <2>4
    <2>14. i \in 1..Len(managed) /\ m \in Seq(Managed) /\ Len(m) = Len(managed)
           /\ req \in [Requests -> RequestOf(Len(managed))]
        BY <1>2, <2>3, <2>4
    <2> QED
        BY <1>1, <2>2, <2>8, <2>9, <2>11, <2>12, <2>13, <2>14, StartInv
<1> QED
    BY <1>3, <1>4

LEMMA FinallyInv ==
    ASSUME GatewayInv, NEW r \in Requests, Finally(r)
    PROVE  GatewayInv'
<1> DEFINE i == request[r].on
           e == [managed[i] EXCEPT !.processing = FALSE]
           m == [managed EXCEPT ![i] = e]
           req == Moved(request, {r}, "answered")
<1>1. /\ TypedInv /\ Queues(managed, request) /\ request[r].phase = "ending"
      /\ managed' = Started(m, i) /\ request' = Moved(req, Starting(m, i), "preparing")
      /\ UNCHANGED <<sessions, teardown, stopped, twins>>
    BY DEF GatewayInv, Finally
<1>2. /\ i \in 1..Len(managed) /\ Len(managed) \in Nat /\ managed \in Seq(Managed)
      /\ managed[i] \in Managed /\ DOMAIN managed = 1..Len(managed)
      /\ request \in [Requests -> RequestOf(Len(managed))]
    BY <1>1, TypedFacts DEF Carried, InFlight, TypedInv, Typed
<1>3. /\ e \in Managed /\ e.queue = managed[i].queue
      /\ e.key = managed[i].key /\ e.disposed = managed[i].disposed
    BY <1>2 DEF Managed
<1> HIDE DEF e
<1>4. /\ m \in Seq(Managed) /\ Len(m) = Len(managed) /\ m[i] = e
      /\ \A j \in 1..Len(managed) : j # i => m[j] = managed[j]
    BY <1>2, <1>3, ManagedExcept
<1>5. /\ req \in [Requests -> RequestOf(Len(managed))]
      /\ \A q \in Requests : q # r => req[q] = request[q]
      /\ req[r].phase = "answered"
    <2>1. "answered" \in Phases
        BY DEF Phases
    <2> QED
        BY <1>2, <2>1, MovedFacts
<1> HIDE DEF m, req
<1>6. Queues(m, req)
    <2>1. \A j \in 1..Len(managed) : m[j].queue = managed[j].queue
        BY <1>3, <1>4
    <2>2. \A q \in Requests :
              /\ req[q].phase = "queued" <=> request[q].phase = "queued"
              /\ request[q].phase = "queued" => req[q].on = request[q].on
        BY <1>1, <1>5
    <2> QED
        BY <1>1, <1>2, <1>4, <2>1, <2>2, QueuesFrame
<1>7. Undisturbed => Serial(m, req)
    <2> SUFFICES ASSUME Undisturbed PROVE Serial(m, req)
        OBVIOUS
    <2>1. Serial(managed, request)
        BY DEF GatewayInv, Calm
    <2>2. \A q \in Requests : req[q].phase \in InFlight =>
              /\ q # r /\ req[q] = request[q] /\ request[q].on \in 1..Len(managed)
        BY <1>1, <1>5, TypedFacts DEF InFlight, Carried
    <2>3. \A q \in Requests : req[q].phase \in InFlight => request[q].on # i
        BY <1>1, <2>1, <2>2 DEF Serial, InFlight
    <2> QED
        BY <1>4, <2>1, <2>2, <2>3 DEF Serial
<1>8. \A j \in 1..Len(managed) : m[j].key = managed[j].key /\ m[j].disposed = managed[j].disposed
    BY <1>3, <1>4
<1>9. \A q \in Requests : req[q].phase \in Carried =>
          /\ req[q].on = request[q].on /\ req[q].key = request[q].key
          /\ req[q].chat = request[q].chat /\ req[q].stream = request[q].stream
          /\ request[q].phase \in Carried
    BY <1>5 DEF Carried, InFlight
<1>10. \A q \in Requests : req[q] = request[q] \/ req[q].phase \in {"answered", "lost"}
    BY <1>5
<1> QED
    BY <1>1, <1>2, <1>4, <1>5, <1>6, <1>7, <1>8, <1>9, <1>10, StartInv

-----------------------------------------------------------------------------
(* Clear, reset, delete, evict, stop.                                      *)

LEMMA ClearQueueInv ==
    ASSUME GatewayInv, NEW k \in Keys, ClearQueue(k)
    PROVE  GatewayInv'
<1> DEFINE i == sessions[k]
           e == [managed[i] EXCEPT !.queue = <<>>]
           m == [managed EXCEPT ![i] = e]
           d == Moved(request, Elements(managed[i].queue), "lost")
<1>1. /\ TypedInv /\ Queues(managed, request) /\ i # None
      /\ managed' = m /\ request' = d
      /\ UNCHANGED <<sessions, teardown, stopped, twins>>
    BY DEF GatewayInv, ClearQueue
<1>2. /\ i \in 1..Len(managed) /\ Len(managed) \in Nat /\ managed \in Seq(Managed)
      /\ managed[i] \in Managed
      /\ request \in [Requests -> RequestOf(Len(managed))]
    BY <1>1, TypedFacts DEF TypedInv, Typed
<1>3. /\ e \in Managed /\ e.queue = <<>> /\ e.processing = managed[i].processing
      /\ e.key = managed[i].key /\ e.disposed = managed[i].disposed
    <2>1. <<>> \in Seq(Requests)
        BY EmptySeq
    <2> QED
        BY <1>2, <2>1 DEF Managed
<1> HIDE DEF e, i
<1>4. /\ m \in Seq(Managed) /\ Len(m) = Len(managed) /\ m[i] = e
      /\ \A j \in 1..Len(managed) : j # i => m[j] = managed[j]
    BY <1>2, <1>3, ManagedExcept
<1> HIDE DEF m
<1>5. /\ d \in [Requests -> RequestOf(Len(managed))]
      /\ \A q \in Requests : d[q] = request[q] \/ d[q].phase = "lost"
      /\ Queues(m, d)
    <2>1. Queues(managed, request)
        BY DEF GatewayInv
    <2>2. m[i].queue = <<>> /\ \A j \in 1..Len(managed) : j # i => m[j].queue = managed[j].queue
        BY <1>3, <1>4
    <2> QED
        BY <1>2, <1>4, <2>1, <2>2, ClearKeeps
<1> HIDE DEF d
<1>6. TypedInv'
    <2>1. \A j \in 1..Len(managed) : /\ managed'[j].key = managed[j].key
                                     /\ managed'[j].disposed = managed[j].disposed
        BY <1>1, <1>3, <1>4
    <2>2. \A q \in Requests : request'[q].phase \in Carried => request'[q].on # None
        BY <1>1, <1>5 DEF TypedInv, Captured, Carried, InFlight
    <2> QED
        BY <1>1, <1>4, <1>5, <2>1, <2>2, SameSessionsTyped DEF TypedInv, Typed, Captured
<1>7. ASSUME Undisturbed' PROVE Calm'
    <2>1. Calm
        BY <1>1, <1>7 DEF GatewayInv, Undisturbed
    <2>2. \A q \in Requests : request'[q] = request[q] \/ request'[q].phase \in {"answered", "lost"}
        BY <1>1, <1>5
    <2>3. Ensurings' /\ Carries'
        BY <1>1, <2>1, <2>2, MovesKeep DEF Calm
    <2>4. Serial(managed, request)'
        <3>1. \A q \in Requests : request'[q].phase \in InFlight =>
                  request'[q] = request[q] /\ request[q].on \in 1..Len(managed)
            BY <1>1, <2>2, TypedFacts DEF InFlight, Carried
        <3>2. \A j \in 1..Len(managed) : managed'[j].processing = managed[j].processing
            BY <1>1, <1>3, <1>4
        <3> QED
            BY <2>1, <3>1, <3>2 DEF Calm, Serial
    <2> QED
        BY <2>3, <2>4 DEF Calm
<1> QED
    BY <1>1, <1>5, <1>6, <1>7 DEF GatewayInv

LEMMA TearDownInv ==
    ASSUME GatewayInv, NEW t \in Teardowns, NEW i \in 1..Len(managed), TearDown(t, i),
           UNCHANGED <<stopped, twins>>
    PROVE  GatewayInv'
<1> DEFINE e == [managed[i] EXCEPT !.queue = <<>>, !.disposed = @ \/ i # Primary]
           m == [managed EXCEPT ![i] = e]
           d == Moved(request, Elements(managed[i].queue), "answered")
           g == [phase |-> IF i = Primary THEN "switching" ELSE "done", on |-> i, awaits |-> {}]
<1>1. /\ TypedInv /\ Queues(managed, request)
      /\ managed' = m /\ request' = d
      /\ sessions' = IF i = Primary THEN sessions ELSE [sessions EXCEPT ![managed[i].key] = None]
      /\ teardown' = [teardown EXCEPT ![t] = g]
    BY DEF GatewayInv, TearDown
<1>2. /\ Len(managed) \in Nat /\ managed \in Seq(Managed) /\ managed[i] \in Managed
      /\ request \in [Requests -> RequestOf(Len(managed))]
      /\ teardown \in [Teardowns -> TeardownOf(Len(managed))]
      /\ sessions \in [Keys -> 0..Len(managed)]
    BY <1>1, TypedFacts DEF TypedInv, Typed
<1>3. /\ e \in Managed /\ e.queue = <<>>
      /\ e.key = managed[i].key /\ (i = Primary => e.disposed = managed[i].disposed)
    <2>1. <<>> \in Seq(Requests)
        BY EmptySeq
    <2>2. CASE i = Primary
        <3>1. managed[i].disposed \in BOOLEAN /\ e = [managed[i] EXCEPT !.queue = <<>>]
            BY <1>2, <2>2 DEF Managed
        <3> HIDE DEF e
        <3> QED
            BY <1>2, <2>1, <3>1 DEF Managed
    <2>3. CASE i # Primary
        <3>1. e = [managed[i] EXCEPT !.queue = <<>>, !.disposed = TRUE]
            BY <1>2, <2>3 DEF Managed
        <3> HIDE DEF e
        <3> QED
            BY <1>2, <2>1, <2>3, <3>1 DEF Managed
    <2> QED
        BY <2>2, <2>3
<1>4. g \in TeardownOf(Len(managed)) /\ g.phase # "new" /\ g.on # None
    BY <1>2 DEF TeardownOf, None
<1> HIDE DEF e, g
<1>5. /\ m \in Seq(Managed) /\ Len(m) = Len(managed) /\ m[i] = e
      /\ \A j \in 1..Len(managed) : j # i => m[j] = managed[j]
    BY <1>2, <1>3, ManagedExcept
<1> HIDE DEF m
<1>6. /\ d \in [Requests -> RequestOf(Len(managed))]
      /\ \A q \in Requests : d[q] = request[q] \/ d[q].phase = "answered"
      /\ Queues(m, d)
    <2>1. Queues(managed, request)
        BY DEF GatewayInv
    <2>2. m[i].queue = <<>> /\ \A j \in 1..Len(managed) : j # i => m[j].queue = managed[j].queue
        BY <1>3, <1>5
    <2> QED
        BY <1>2, <1>5, <2>1, <2>2, ClearKeeps
<1> HIDE DEF d
<1>7. Typed'
    <2>1. sessions' \in [Keys -> 0..Len(managed)]
        <3>1. 0 \in 0..Len(managed)
            BY <1>2
        <3>2. CASE i = Primary
            BY <1>1, <1>2, <3>2
        <3>3. CASE i # Primary
            BY <1>1, <1>2, <3>1, <3>3 DEF None
        <3> QED
            BY <3>2, <3>3
    <2>2. teardown' \in [Teardowns -> TeardownOf(Len(managed))]
        BY <1>1, <1>2, <1>4
    <2> QED
        BY <1>1, <1>5, <1>6, <2>1, <2>2 DEF TypedInv, Typed
<1>8. Captured'
    <2>1. managed'[1].key = PrimaryKey /\ ~managed'[1].disposed
        BY <1>1, <1>3, <1>5, TypedFacts DEF TypedInv, Captured, Primary
    <2>2. \A q \in Requests : request'[q].phase \in Carried => request'[q].on # None
        BY <1>1, <1>6 DEF TypedInv, Captured, Carried, InFlight
    <2>3. \A u \in Teardowns : teardown'[u].phase \notin {"new", "done"} => teardown'[u].on # None
        BY <1>1, <1>2, <1>4 DEF TypedInv, Captured
    <2> QED
        BY <2>1, <2>2, <2>3 DEF Captured
<1>9. MapHoldsLiveSessions'
    <2> SUFFICES ASSUME NEW k \in Keys, sessions'[k] # None
                 PROVE  ~managed'[sessions'[k]].disposed /\ managed'[sessions'[k]].key = k
        BY DEF MapHoldsLiveSessions
    <2>1. sessions'[k] = sessions[k] /\ (i # Primary => k # managed[i].key)
        BY <1>1, <1>2
    <2>2. sessions[k] \in 1..Len(managed)
          /\ managed[sessions[k]].key = k /\ ~managed[sessions[k]].disposed
        BY <1>1, <2>1, TypedFacts
    <2> QED
        BY <1>1, <1>3, <1>5, <2>1, <2>2
<1>10. ~Undisturbed'
    BY <1>1, <1>2, <1>4 DEF Undisturbed
<1> QED
    BY <1>1, <1>6, <1>7, <1>8, <1>9, <1>10 DEF GatewayInv, TypedInv

\* A teardown waits or goes on, and touches no more than a processing flag.
LEMMA WaitInv ==
    ASSUME GatewayInv, NEW t \in Teardowns, NEW g \in TeardownOf(Len(managed)),
           teardown' = [teardown EXCEPT ![t] = g],
           g.phase # "new", g.phase # "done" => g.on # None,
           managed' \in Seq(Managed), Len(managed') = Len(managed),
           \A j \in 1..Len(managed) : /\ managed'[j].key = managed[j].key
                                      /\ managed'[j].disposed = managed[j].disposed
                                      /\ managed'[j].queue = managed[j].queue,
           UNCHANGED <<sessions, request, stopped, twins>>
    PROVE  GatewayInv'
<1>1. TypedInv /\ Queues(managed, request)
    BY DEF GatewayInv
<1>2. /\ teardown' \in [Teardowns -> TeardownOf(Len(managed))]
      /\ \A u \in Teardowns : teardown'[u].phase \notin {"new", "done"} => teardown'[u].on # None
      /\ teardown'[t].phase # "new"
    BY <1>1 DEF TypedInv, Typed, Captured
<1>3. TypedInv'
    BY <1>1, <1>2, SameSessionsTyped DEF TypedInv, Typed, Captured
<1>4. Queues(managed, request)'
    BY <1>1, QueuesFrame DEF TypedInv, Typed
<1>5. ~Undisturbed'
    BY <1>2 DEF Undisturbed
<1> QED
    BY <1>3, <1>4, <1>5 DEF GatewayInv

LEMMA BeginTeardownInv ==
    ASSUME GatewayInv, NEW t \in Teardowns, NEW k \in Keys, BeginTeardown(t, k)
    PROVE  GatewayInv'
<1> DEFINE i == sessions[k]
           g == [phase |-> "aborting", on |-> i, awaits |-> Running(i)]
<1>1. TypedInv /\ i # None /\ UNCHANGED <<stopped, twins>>
    BY DEF GatewayInv, BeginTeardown
<1>2. i \in 1..Len(managed) /\ Len(managed) \in Nat
    BY <1>1, TypedFacts
<1>3. CASE managed[i].processing
    <2>1. /\ teardown' = [teardown EXCEPT ![t] = g]
          /\ UNCHANGED <<sessions, managed, request>>
        BY <1>3 DEF BeginTeardown
    <2>2. g \in TeardownOf(Len(managed)) /\ g.phase = "aborting" /\ g.on # None
        BY <1>1, <1>2 DEF TeardownOf, Running
    <2> HIDE DEF g
    <2> QED
        BY <1>1, <2>1, <2>2, WaitInv DEF TypedInv, Typed
<1>4. CASE ~managed[i].processing
    <2>1. TearDown(t, i)
        BY <1>4 DEF BeginTeardown
    <2> QED
        BY <1>1, <1>2, <2>1, TearDownInv
<1> QED
    BY <1>3, <1>4

LEMMA TeardownStepInv ==
    ASSUME GatewayInv, NEW t \in Teardowns, TeardownStep(t)
    PROVE  GatewayInv'
<1>1. TypedInv /\ Len(managed) \in Nat /\ managed \in Seq(Managed)
    BY DEF GatewayInv, TypedInv, Typed
<1>2. CASE AbortReturns(t)
    <2>1. /\ teardown[t].phase = "aborting" /\ TearDown(t, teardown[t].on)
          /\ UNCHANGED <<stopped, twins>>
        BY <1>2 DEF AbortReturns
    <2>2. teardown[t].on \in 1..Len(managed)
        BY <1>1, <2>1, TypedFacts
    <2> QED
        BY <2>1, <2>2, TearDownInv
<1>3. CASE NewSessionAborts(t)
    <2> DEFINE g == [teardown[t] EXCEPT !.phase = "renewing", !.awaits = Running(Primary)]
    <2>1. /\ teardown[t].phase = "switching" /\ teardown' = [teardown EXCEPT ![t] = g]
          /\ UNCHANGED <<sessions, managed, request, stopped, twins>>
        BY <1>3 DEF NewSessionAborts
    <2>2. g \in TeardownOf(Len(managed)) /\ g.phase = "renewing" /\ g.on # None
        <3>1. teardown[t] \in TeardownOf(Len(managed)) /\ teardown[t].on # None
            BY <1>1, <2>1, TypedFacts DEF None
        <3>2. Running(Primary) \in SUBSET Requests
            BY DEF Running
        <3> QED
            BY <3>1, <3>2 DEF TeardownOf
    <2> HIDE DEF g
    <2> QED
        BY <1>1, <2>1, <2>2, WaitInv
<1>4. CASE NewSessionReturns(t)
    <2> DEFINE e == [managed[1] EXCEPT !.processing = FALSE]
               g == [teardown[t] EXCEPT !.phase = "done"]
    <2>1. /\ managed' = [managed EXCEPT ![1] = e] /\ teardown' = [teardown EXCEPT ![t] = g]
          /\ UNCHANGED <<sessions, request, stopped, twins>>
        BY <1>4 DEF NewSessionReturns, Primary
    <2>2. 1 \in 1..Len(managed) /\ managed[1] \in Managed /\ teardown[t] \in TeardownOf(Len(managed))
        BY <1>1, TypedFacts
    <2>3. /\ e \in Managed /\ e.key = managed[1].key /\ e.queue = managed[1].queue
          /\ e.disposed = managed[1].disposed
        BY <2>2 DEF Managed
    <2>4. g \in TeardownOf(Len(managed)) /\ g.phase = "done"
        BY <2>2 DEF TeardownOf
    <2> HIDE DEF e, g
    <2>5. /\ managed' \in Seq(Managed) /\ Len(managed') = Len(managed) /\ managed'[1] = e
          /\ \A j \in 1..Len(managed) : j # 1 => managed'[j] = managed[j]
        BY <1>1, <2>1, <2>2, <2>3, ManagedExcept
    <2>6. \A j \in 1..Len(managed) : /\ managed'[j].key = managed[j].key
                                     /\ managed'[j].disposed = managed[j].disposed
                                     /\ managed'[j].queue = managed[j].queue
        BY <2>3, <2>5
    <2> QED
        BY <2>1, <2>4, <2>5, <2>6, WaitInv
<1> QED
    BY <1>2, <1>3, <1>4 DEF TeardownStep

LEMMA EvictInv ==
    ASSUME GatewayInv, NEW k \in Keys, Evict(k)
    PROVE  GatewayInv'
<1> DEFINE i == sessions[k]
           e == [managed[i] EXCEPT !.disposed = TRUE]
<1>1. /\ TypedInv /\ Queues(managed, request) /\ i # None /\ k # PrimaryKey
      /\ ~managed[i].processing /\ managed[i].queue = <<>>
      /\ \A r \in Requests : request[r].phase # "found"
      /\ managed' = [managed EXCEPT ![i] = e] /\ sessions' = [sessions EXCEPT ![k] = None]
      /\ UNCHANGED <<request, teardown, stopped, twins>>
    BY DEF GatewayInv, Evict
<1>2. /\ i \in 1..Len(managed) /\ Len(managed) \in Nat /\ managed \in Seq(Managed)
      /\ managed[i] \in Managed /\ managed[i].key = k /\ DOMAIN managed = 1..Len(managed)
    BY <1>1, TypedFacts DEF TypedInv, Typed
<1>3. /\ e \in Managed /\ e.queue = managed[i].queue /\ e.key = managed[i].key
      /\ e.processing = managed[i].processing
    BY <1>2 DEF Managed
<1>4. i # 1
    BY <1>1, <1>2 DEF TypedInv, Captured
<1> HIDE DEF e
<1>5. /\ managed' \in Seq(Managed) /\ Len(managed') = Len(managed) /\ managed'[i] = e
      /\ \A j \in 1..Len(managed) : j # i => managed'[j] = managed[j]
    BY <1>1, <1>2, <1>3, ManagedExcept
<1>6. \A l \in Keys : sessions'[l] = IF l = k THEN None ELSE sessions[l]
    BY <1>1 DEF TypedInv, Typed
<1>7. Typed'
    <2>1. sessions' \in [Keys -> 0..Len(managed)]
        <3>1. 0 \in 0..Len(managed)
            BY <1>2
        <3> QED
            BY <1>1, <3>1 DEF TypedInv, Typed, None
    <2> QED
        BY <1>1, <1>5, <2>1 DEF TypedInv, Typed
<1>8. Captured'
    BY <1>1, <1>2, <1>4, <1>5 DEF TypedInv, Captured
<1>9. MapHoldsLiveSessions'
    <2> SUFFICES ASSUME NEW l \in Keys, sessions'[l] # None
                 PROVE  ~managed'[sessions'[l]].disposed /\ managed'[sessions'[l]].key = l
        BY DEF MapHoldsLiveSessions
    <2>1. l # k /\ sessions'[l] = sessions[l]
        BY <1>6
    <2>2. sessions[l] \in 1..Len(managed)
          /\ managed[sessions[l]].key = l /\ ~managed[sessions[l]].disposed
        BY <1>1, <2>1, TypedFacts
    <2> QED
        BY <1>2, <1>5, <2>1, <2>2
<1>10. Queues(managed', request)
    <2>1. \A j \in 1..Len(managed) : managed'[j].queue = managed[j].queue
        BY <1>3, <1>5
    <2> QED
        BY <1>1, <1>2, <1>5, <2>1, QueuesFrame
<1>11. ASSUME Undisturbed' PROVE Calm'
    <2>1. Calm
        BY <1>1, <1>11 DEF GatewayInv, Undisturbed
    <2>2. ASSUME NEW r \in Requests, request[r].phase \in Carried PROVE request[r].key # k
        <3> SUFFICES ASSUME request[r].key = k PROVE FALSE
            OBVIOUS
        <3>1. request[r].on = i
            BY <2>1, <2>2 DEF Calm, Carries
        <3>2. request[r].phase \notin InFlight
            BY <1>1, <2>1, <3>1 DEF Calm, Serial
        <3>3. request[r].phase # "queued"
            <4> SUFFICES ASSUME request[r].phase = "queued" PROVE FALSE
                OBVIOUS
            <4>1. PICK j \in 1..Len(managed) : \E x \in DOMAIN managed[j].queue : managed[j].queue[x] = r
                BY <1>1, <1>2 DEF Queues
            <4>2. j = i
                BY <1>1, <1>2, <3>1, <4>1 DEF Queues
            <4>3. DOMAIN managed[i].queue = {}
                BY <1>1
            <4> QED
                BY <4>1, <4>2, <4>3
        <3> QED
            BY <1>1, <2>2, <3>2, <3>3 DEF Carried
    <2>3. \A r \in Requests : request[r].key \in Keys
        BY <1>1, TypedFacts DEF RequestOf
    <2>4. Ensurings'
        BY <1>1, <1>6, <2>1, <2>3 DEF Calm, Ensurings
    <2>5. Carries'
        BY <1>1, <1>6, <2>1, <2>2, <2>3 DEF Calm, Carries
    <2>6. Serial(managed, request)'
        <3>1. \A r \in Requests : request[r].phase \in InFlight => request[r].on \in 1..Len(managed)
            BY <1>1, TypedFacts DEF Carried
        <3>2. \A j \in 1..Len(managed) : managed'[j].processing = managed[j].processing
            BY <1>3, <1>5
        <3> QED
            BY <1>1, <2>1, <3>1, <3>2 DEF Calm, Serial
    <2> QED
        BY <2>4, <2>5, <2>6 DEF Calm
<1> QED
    BY <1>1, <1>7, <1>8, <1>9, <1>10, <1>11 DEF GatewayInv, TypedInv

LEMMA StopInv ==
    ASSUME GatewayInv, Stop
    PROVE  GatewayInv'
<1>1. /\ TypedInv /\ Queues(managed, request) /\ stopped' = TRUE
      /\ sessions' = [k \in Keys |-> None]
      /\ managed' = [i \in DOMAIN managed |->
                       IF i # Primary /\ sessions[managed[i].key] = i
                       THEN [managed[i] EXCEPT !.disposed = TRUE] ELSE managed[i]]
      /\ UNCHANGED <<request, teardown, twins>>
    BY DEF GatewayInv, Stop
<1>2. /\ Len(managed) \in Nat /\ managed \in Seq(Managed) /\ DOMAIN managed = 1..Len(managed)
      /\ \A i \in 1..Len(managed) : managed[i] \in Managed
      /\ 1 \in 1..Len(managed)
    BY <1>1, TypedFacts DEF TypedInv, Typed
<1>3. /\ DOMAIN managed' = 1..Len(managed)
      /\ managed' = [i \in 1..Len(managed) |-> managed'[i]]
      /\ \A i \in 1..Len(managed) :
             /\ managed'[i] \in Managed
             /\ managed'[i].key = managed[i].key /\ managed'[i].queue = managed[i].queue
             /\ i = 1 => managed'[i] = managed[i]
    BY <1>1, <1>2 DEF Managed, Primary
<1>4. managed' \in Seq(Managed) /\ Len(managed') = Len(managed)
    BY <1>2, <1>3, SeqOfFunction
<1>5. Typed'
    <2>1. sessions' \in [Keys -> 0..Len(managed)]
        BY <1>1, <1>2 DEF None
    <2> QED
        BY <1>1, <1>4, <2>1 DEF TypedInv, Typed
<1>6. Captured' /\ MapHoldsLiveSessions'
    BY <1>1, <1>2, <1>3 DEF TypedInv, Captured, MapHoldsLiveSessions
<1>7. Queues(managed', request)
    BY <1>1, <1>2, <1>3, <1>4, QueuesFrame
<1>8. ~Undisturbed'
    BY <1>1 DEF Undisturbed
<1> QED
    BY <1>1, <1>5, <1>6, <1>7, <1>8 DEF GatewayInv, TypedInv

-----------------------------------------------------------------------------
(* Every step keeps the invariant.                                         *)

LEMMA RequestStepInv ==
    ASSUME GatewayInv, NEW r \in Requests, RequestStep(r)
    PROVE  GatewayInv'
<1>1. CASE CreateSessionFails(r)
    BY <1>1, MoveInv DEF CreateSessionFails
<1>2. CASE AgentRuns(r)
    BY <1>2, MoveInv DEF AgentRuns, InFlight
<1>3. CASE PromptEndsEarly(r)
    BY <1>3, MoveInv DEF PromptEndsEarly, InFlight
<1>4. CASE AgentEnds(r)
    BY <1>4, MoveInv DEF AgentEnds, InFlight
<1>5. CASE SessionCreated(r)
    BY <1>5, SessionCreatedInv
<1>6. CASE ChatContinues(r)
    BY <1>6, ChatContinuesInv
<1>7. CASE Enqueue(r)
    BY <1>7, EnqueueInv
<1>8. CASE Finally(r)
    BY <1>8, FinallyInv
<1> QED
    BY <1>1, <1>2, <1>3, <1>4, <1>5, <1>6, <1>7, <1>8 DEF RequestStep

LEMMA StepInv == GatewayInv /\ [Next]_vars => GatewayInv'
<1> SUFFICES ASSUME GatewayInv, [Next]_vars PROVE GatewayInv'
    OBVIOUS
<1>1. ASSUME NEW r \in Requests, NEW k \in Keys, NEW chat \in BOOLEAN, Send(r, k, chat)
      PROVE  GatewayInv'
    BY <1>1, SendInv
<1>2. ASSUME NEW r \in Requests, RequestStep(r) PROVE GatewayInv'
    BY <1>2, RequestStepInv
<1>3. ASSUME NEW t \in Teardowns, NEW k \in Keys, BeginTeardown(t, k) PROVE GatewayInv'
    BY <1>3, BeginTeardownInv
<1>4. ASSUME NEW t \in Teardowns, TeardownStep(t) PROVE GatewayInv'
    BY <1>4, TeardownStepInv
<1>5. ASSUME NEW k \in Keys, ClearQueue(k) PROVE GatewayInv'
    BY <1>5, ClearQueueInv
<1>6. ASSUME NEW k \in Keys, Evict(k) PROVE GatewayInv'
    BY <1>6, EvictInv
<1>7. CASE Stop
    BY <1>7, StopInv
<1>8. CASE UNCHANGED vars
    BY <1>8 DEF vars, GatewayInv, TypedInv, Typed, Captured, MapHoldsLiveSessions, Undisturbed,
                Calm, Ensurings, Carries, Serial, Queues
<1> QED
    BY <1>1, <1>2, <1>3, <1>4, <1>5, <1>6, <1>7, <1>8 DEF Next

LEMMA GatewayInvariant == Spec => []GatewayInv
BY InitInv, StepInv, PTL DEF Spec

-----------------------------------------------------------------------------
(* The types of the gateway's state.                                       *)
THEOREM GatewayTypes == Spec => []TypeOK
<1>1. GatewayInv => TypeOK
    <2> SUFFICES ASSUME GatewayInv PROVE TypeOK
        OBVIOUS
    <2>1. Typed /\ DOMAIN managed = 1..Len(managed) /\ Len(managed) \in Nat
        BY TypedFacts DEF GatewayInv, TypedInv
    <2>2. 0..Len(managed) = {None} \cup DOMAIN managed
        BY <2>1 DEF None
    <2> QED
        BY <2>1, <2>2 DEF TypeOK, Typed, Managed, RequestOf, TeardownOf
<1> QED
    BY GatewayInvariant, <1>1, PTL

(* A key never leads to a session that was disposed of, or to another      *)
(* key's, whatever resets, deletes, evictions and stops overlap.           *)
THEOREM KeysLeadToLiveSessions == Spec => []MapHoldsLiveSessions
<1>1. GatewayInv => MapHoldsLiveSessions
    BY DEF GatewayInv, TypedInv
<1> QED
    BY GatewayInvariant, <1>1, PTL

(* No request is left on a session that is not its key's, while nothing is *)
(* reset, deleted or stopped and no session is created twice at a time:    *)
(* for any number of requests and keys.                                    *)
THEOREM RequestsFollowTheirKey == Spec => []NoOrphans
<1>1. GatewayInv => NoOrphans
    <2> SUFFICES ASSUME GatewayInv, Undisturbed, NEW r \in Requests,
                        request[r].phase \in Open, request[r].on # None
                 PROVE  sessions[request[r].key] = request[r].on
        BY DEF NoOrphans
    <2>1. request[r].phase \in Carried \/ request[r].phase = "ensuring"
        BY DEF Open, Phases, Carried, InFlight
    <2> QED
        BY <2>1 DEF GatewayInv, Calm, Ensurings, Carries
<1> QED
    BY GatewayInvariant, <1>1, PTL

(* Prompts of one key are serialized, under the same conditions.           *)
THEOREM PromptsOfAKeyAreSerial == Spec => []OnePromptPerKey
<1>1. GatewayInv => OnePromptPerKey
    <2> SUFFICES ASSUME GatewayInv, Undisturbed, NEW q \in Requests, NEW r \in Requests,
                        request[q].phase \in InFlight, request[r].phase \in InFlight,
                        request[q].key = request[r].key
                 PROVE  q = r
        BY DEF OnePromptPerKey
    <2>1. request[q].on = request[r].on
        BY DEF GatewayInv, Calm, Carries, Carried
    <2> QED
        BY <2>1 DEF GatewayInv, Calm, Serial
<1> QED
    BY GatewayInvariant, <1>1, PTL

(* A chat response streams the session that runs its prompt, although      *)
(* handleChat ensures the session twice, under the same conditions.        *)
THEOREM ChatsStreamTheirRuns == Spec => []ChatStreamsItsRun
<1>1. GatewayInv => ChatStreamsItsRun
    BY DEF ChatStreamsItsRun, GatewayInv, Calm, Carries, Carried, InFlight
<1> QED
    BY GatewayInvariant, <1>1, PTL
=============================================================================
