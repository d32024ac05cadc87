------------------------------ MODULE Gateway ------------------------------
(***************************************************************************)
(* The gateway: class GatewayRuntime (packages/coding-agent/src/core/      *)
(* gateway-runtime.ts), with the parts of AgentSession (agent-session.ts)  *)
(* it calls: prompt(), abort() and newSession().                           *)
(*                                                                         *)
(* Requests arrive for a session key, are queued on the managed session of *)
(* that key and prompt its AgentSession one after the other.  The map from *)
(* keys to managed sessions is read and written on both sides of awaits,   *)
(* so a handler is cut into one action per await.  A managed session and   *)
(* its AgentSession are created together and share a number here.          *)
(***************************************************************************)
EXTENDS Naturals, Sequences, FiniteSets

CONSTANTS Keys, PrimaryKey,
          Requests,     \* POST /messages, /chat, webhooks, enqueueMessage()
          Teardowns,    \* POST /reset, DELETE, resetSession()
          MaxQueuePerSession,
          MaxSessions   \* bound: managed sessions created, the primary one included

ASSUME GatewayAssumption ==
    /\ PrimaryKey \in Keys
    /\ MaxQueuePerSession \in Nat \ {0}
    /\ MaxSessions \in Nat \ {0}

VARIABLES
    sessions,  \* the Map: key -> managed session, None when absent
    managed,   \* every ManagedGatewaySession created so far
    request,   \* the async calls that carry a request
    teardown,  \* the async calls that reset or delete a session
    stopped,
    twins      \* history: a key had its session created twice at a time

vars == <<sessions, managed, request, teardown, stopped, twins>>

None == 0
Primary == 1
SessionIds == 1..MaxSessions

(* new: not sent.  ensuring: createSession() is awaited.  found:           *)
(* ensureSession() is about to return.  queued.  preparing: inside         *)
(* AgentSession.prompt(), before the agent runs.  running: inside          *)
(* agent.prompt().  ending: the agent is idle again, or prompt() threw,    *)
(* and processNext has not resumed.  lost: dropped without an answer.      *)
Phases == {"new", "ensuring", "found", "queued", "preparing", "running", "ending",
           "answered", "lost"}
InFlight == {"preparing", "running", "ending"}
Open == Phases \ {"new", "answered", "lost"}

NoRequest == [phase |-> "new", key |-> PrimaryKey, on |-> None, chat |-> FALSE,
              stream |-> None]
Elements(q) == {q[n] : n \in DOMAIN q}
Running(i) == {r \in Requests : request[r].on = i /\ request[r].phase = "running"}
NewManaged(k) == [key |-> k, queue |-> <<>>, processing |-> FALSE, disposed |-> FALSE]

Init ==
    /\ sessions = [k \in Keys |-> IF k = PrimaryKey THEN Primary ELSE None]
    /\ managed = <<NewManaged(PrimaryKey)>>
    /\ request = [r \in Requests |-> NoRequest]
    /\ teardown = [t \in Teardowns |-> [phase |-> "new", on |-> None, awaits |-> {}]]
    /\ stopped = FALSE
    /\ twins = FALSE

(* Some requests move to a phase; nothing is left of one that is over.     *)
Moved(req, S, phase) ==
    [r \in Requests |->
       IF r \notin S THEN req[r]
       ELSE IF phase \in {"answered", "lost"} THEN [NoRequest EXCEPT !.phase = phase]
       ELSE [req[r] EXCEPT !.phase = phase]]

-----------------------------------------------------------------------------
(* A request: ensureSession, once more for a chat, then the queue.         *)

(* Mutant of Ensured: the map is not consulted.                            *)
EnsuredAnew(c) == [c EXCEPT !.phase = "ensuring"]

(* The synchronous part of ensureSession for request c of record req.      *)
Ensured(c) ==
    IF sessions[c.key] # None THEN [c EXCEPT !.phase = "found", !.on = sessions[c.key]]
    ELSE [c EXCEPT !.phase = "ensuring"]

TwinOf(r, c) ==
    c.phase = "ensuring" /\ \E q \in Requests \ {r} :
                               request[q].phase = "ensuring" /\ request[q].key = c.key

(* enqueueManagedMessage, or handleChat up to its first ensureSession.     *)
Send(r, k, chat) ==
    /\ ~stopped
    /\ request[r].phase = "new"
    /\ request' = [request EXCEPT ![r] = Ensured([@ EXCEPT !.key = k, !.chat = chat])]
    /\ twins' = (twins \/ TwinOf(r, request'[r]))
    /\ UNCHANGED <<sessions, managed, teardown, stopped>>

(* ensureSession after createSession() resolved: the map is not read again. *)
SessionCreated(r) ==
    /\ request[r].phase = "ensuring"
    /\ Len(managed) < MaxSessions
    /\ managed' = Append(managed, NewManaged(request[r].key))
    /\ sessions' = [sessions EXCEPT ![request[r].key] = Len(managed) + 1]
    /\ request' = [request EXCEPT ![r].phase = "found", ![r].on = Len(managed) + 1]
    /\ UNCHANGED <<teardown, stopped, twins>>

(* createSession() rejects: the caller gets the error.                     *)
CreateSessionFails(r) ==
    /\ request[r].phase = "ensuring"
    /\ request' = Moved(request, {r}, "answered")
    /\ UNCHANGED <<sessions, managed, teardown, stopped, twins>>

(* handleChat captures the session its onStart will stream, then calls     *)
(* enqueueManagedMessage, which ensures the session again.                 *)
ChatContinues(r) ==
    /\ request[r].phase = "found"
    /\ request[r].chat /\ request[r].stream = None
    /\ request' = [request EXCEPT ![r] = Ensured([@ EXCEPT !.stream = request[r].on])]
    /\ twins' = (twins \/ TwinOf(r, request'[r]))
    /\ UNCHANGED <<sessions, managed, teardown, stopped>>

(* Mutant of Idle: the processing flag is not checked.                     *)
HasQueued(m, i) == m[i].queue # <<>>

(* processNext up to session.prompt(), on the state given.                 *)
Idle(m, i) == ~m[i].processing /\ m[i].queue # <<>>
Started(m, i) ==
    IF Idle(m, i) THEN [m EXCEPT ![i].queue = Tail(@), ![i].processing = TRUE] ELSE m
Starting(m, i) == IF Idle(m, i) THEN {Head(m[i].queue)} ELSE {}

(* enqueueManagedMessage after its await.                                  *)
Enqueue(r) ==
    LET i == request[r].on
        pushed == [managed EXCEPT ![i].queue = Append(@, r)]
    IN  /\ request[r].phase = "found"
        /\ request[r].chat => request[r].stream # None
        /\ IF Len(managed[i].queue) >= MaxQueuePerSession
           THEN /\ request' = Moved(request, {r}, "answered")
                /\ UNCHANGED managed
           ELSE /\ managed' = Started(pushed, i)
                /\ request' = Moved(Moved(request, {r}, "queued"), Starting(pushed, i), "preparing")
        /\ UNCHANGED <<sessions, teardown, stopped, twins>>

-----------------------------------------------------------------------------
(* A prompt: AgentSession.prompt() and the rest of processNext.            *)

(* agent.prompt(), after the awaits of AgentSession.prompt().              *)
AgentRuns(r) ==
    /\ request[r].phase = "preparing"
    /\ Running(request[r].on) = {}
    /\ request' = Moved(request, {r}, "running")
    /\ UNCHANGED <<sessions, managed, teardown, stopped, twins>>

(* prompt() returns or throws without a run: handled by an extension, no   *)
(* model, no API key, or the agent is already running.                     *)
PromptEndsEarly(r) ==
    /\ request[r].phase = "preparing"
    /\ request' = Moved(request, {r}, "ending")
    /\ UNCHANGED <<sessions, managed, teardown, stopped, twins>>

(* A run ends, by itself or because abortSession(), resetSession() or      *)
(* handleDeleteSession() aborted it: that may happen at any time.  A       *)
(* prompt that does not run yet is not aborted by them.                    *)
AgentEnds(r) ==
    /\ request[r].phase = "running"
    /\ request' = Moved(request, {r}, "ending")
    /\ UNCHANGED <<sessions, managed, teardown, stopped, twins>>

(* Mutant of Finally: the next request is not started.                     *)
FinallyStops(r) ==
    /\ request[r].phase = "ending"
    /\ managed' = [managed EXCEPT ![request[r].on].processing = FALSE]
    /\ request' = Moved(request, {r}, "answered")
    /\ UNCHANGED <<sessions, teardown, stopped, twins>>

(* processNext after its await: answer, then the finally block.            *)
Finally(r) ==
    LET i == request[r].on
        idle == [managed EXCEPT ![i].processing = FALSE]
    IN  /\ request[r].phase = "ending"
        /\ managed' = Started(idle, i)
        /\ request' = Moved(Moved(request, {r}, "answered"), Starting(idle, i), "preparing")
        /\ UNCHANGED <<sessions, teardown, stopped, twins>>

-----------------------------------------------------------------------------
(* Clear, reset, delete, evict, stop.                                      *)

ClearQueue(k) ==
    LET i == sessions[k]
    IN  /\ i # None
        /\ managed[i].queue # <<>>
        /\ managed' = [managed EXCEPT ![i].queue = <<>>]
        /\ request' = Moved(request, Elements(managed[i].queue), "lost")
        /\ UNCHANGED <<sessions, teardown, stopped, twins>>

(* Mutant of TearDown: the key is kept.                                    *)
TearDownKeepsKey(t, i) ==
    /\ request' = Moved(request, Elements(managed[i].queue), "answered")
    /\ managed' = [managed EXCEPT ![i].queue = <<>>, ![i].disposed = @ \/ i # Primary]
    /\ sessions' = sessions
    /\ teardown' = [teardown EXCEPT ![t] = [phase |-> IF i = Primary THEN "switching" ELSE "done",
                                            on |-> i, awaits |-> {}]]

(* rejectQueuedMessages and what follows it: unsubscribe, dispose, delete, *)
(* or newSession() for the primary session.                                *)
TearDown(t, i) ==
    /\ request' = Moved(request, Elements(managed[i].queue), "answered")
    /\ managed' = [managed EXCEPT ![i].queue = <<>>, ![i].disposed = @ \/ i # Primary]
    /\ sessions' = IF i = Primary THEN sessions
                   ELSE [sessions EXCEPT ![managed[i].key] = None]
    /\ teardown' = [teardown EXCEPT ![t] = [phase |-> IF i = Primary THEN "switching" ELSE "done",
                                            on |-> i, awaits |-> {}]]

(* resetSession(k), or handleDeleteSession(k) for a key that may be        *)
(* deleted: the same steps but for the error queued messages get.          *)
BeginTeardown(t, k) ==
    LET i == sessions[k]
    IN  /\ teardown[t].phase = "new"
        /\ i # None
        /\ IF managed[i].processing
           THEN /\ teardown' = [teardown EXCEPT ![t] =
                                  [phase |-> "aborting", on |-> i, awaits |-> Running(i)]]
                /\ UNCHANGED <<sessions, managed, request>>
           ELSE TearDown(t, i)
        /\ UNCHANGED <<stopped, twins>>

(* What waitForIdle() waited for is over.                                  *)
IdleAgain(t) == \A r \in teardown[t].awaits : request[r].phase # "running"

AbortReturns(t) ==
    /\ teardown[t].phase = "aborting"
    /\ IdleAgain(t)
    /\ TearDown(t, teardown[t].on)
    /\ UNCHANGED <<stopped, twins>>

(* newSession() after its session_before_switch handlers: abort again.     *)
NewSessionAborts(t) ==
    /\ teardown[t].phase = "switching"
    /\ teardown' = [teardown EXCEPT ![t].phase = "renewing", ![t].awaits = Running(Primary)]
    /\ UNCHANGED <<sessions, managed, request, stopped, twins>>

(* newSession() returns, or a handler cancelled it, and resetSession ends. *)
NewSessionReturns(t) ==
    /\ \/ teardown[t].phase = "switching"
       \/ teardown[t].phase = "renewing" /\ IdleAgain(t)
    /\ managed' = [managed EXCEPT ![Primary].processing = FALSE]
    /\ teardown' = [teardown EXCEPT ![t].phase = "done"]
    /\ UNCHANGED <<sessions, request, stopped, twins>>

(* Mutant of Evict: sessions that process a request are evicted too.       *)
EvictBusy(k) ==
    LET i == sessions[k]
    IN  /\ k # PrimaryKey
        /\ i # None
        /\ \A r \in Requests : request[r].phase # "found"
        /\ managed' = [managed EXCEPT ![i].disposed = TRUE]
        /\ sessions' = [sessions EXCEPT ![k] = None]
        /\ UNCHANGED <<request, teardown, stopped, twins>>

(* evictIdleSessions for one session.  A timer runs when no promise is     *)
(* left to resume, so not between ensureSession and its caller; sessions   *)
(* with listeners are left alone, which only disables the action.          *)
Evict(k) ==
    LET i == sessions[k]
    IN  /\ k # PrimaryKey
        /\ i # None
        /\ ~managed[i].processing /\ managed[i].queue = <<>>
        /\ \A r \in Requests : request[r].phase # "found"
        /\ managed' = [managed EXCEPT ![i].disposed = TRUE]
        /\ sessions' = [sessions EXCEPT ![k] = None]
        /\ UNCHANGED <<request, teardown, stopped, twins>>

(* stop() after its server closed; nothing is sent to it any more.         *)
Stop ==
    /\ ~stopped
    /\ stopped' = TRUE
    /\ managed' = [i \in DOMAIN managed |->
                     IF i # Primary /\ sessions[managed[i].key] = i
                     THEN [managed[i] EXCEPT !.disposed = TRUE] ELSE managed[i]]
    /\ sessions' = [k \in Keys |-> None]
    /\ UNCHANGED <<request, teardown, twins>>

RequestStep(r) ==
    \/ SessionCreated(r) \/ CreateSessionFails(r) \/ ChatContinues(r) \/ Enqueue(r)
    \/ AgentRuns(r) \/ PromptEndsEarly(r) \/ AgentEnds(r) \/ Finally(r)

TeardownStep(t) == AbortReturns(t) \/ NewSessionAborts(t) \/ NewSessionReturns(t)

Next ==
    \/ \E r \in Requests, k \in Keys, chat \in BOOLEAN : Send(r, k, chat)
    \/ \E r \in Requests : RequestStep(r)
    \/ \E t \in Teardowns, k \in Keys : BeginTeardown(t, k)
    \/ \E t \in Teardowns : TeardownStep(t)
    \/ \E k \in Keys : ClearQueue(k) \/ Evict(k)
    \/ Stop

(* Awaited calls return: sessions are created or not, runs end.            *)
Fairness ==
    /\ \A r \in Requests : WF_vars(RequestStep(r))
    /\ \A t \in Teardowns : WF_vars(TeardownStep(t))

Spec == Init /\ [][Next]_vars /\ Fairness

-----------------------------------------------------------------------------
(* The types of the gateway's state.                                       *)
TypeOK ==
    /\ sessions \in [Keys -> {None} \cup DOMAIN managed]
    /\ managed \in Seq([key : Keys, queue : Seq(Requests), processing : BOOLEAN,
                        disposed : BOOLEAN])
    /\ request \in [Requests -> [phase : Phases, key : Keys, on : {None} \cup DOMAIN managed,
                                 chat : BOOLEAN, stream : {None} \cup DOMAIN managed]]
    /\ teardown \in [Teardowns -> [phase : {"new", "aborting", "switching", "renewing", "done"},
                                   on : {None} \cup DOMAIN managed,
                                   awaits : SUBSET Requests]]
    /\ stopped \in BOOLEAN

(* A key never leads to a session that was disposed of, or to another      *)
(* key's, whatever resets, deletes and evictions overlap.                  *)
MapHoldsLiveSessions ==
    \A k \in Keys : sessions[k] # None =>
        ~managed[sessions[k]].disposed /\ managed[sessions[k]].key = k

(* Nothing was reset, deleted or stopped, and no session created twice.    *)
Undisturbed ==
    ~twins /\ ~stopped /\ \A t \in Teardowns : teardown[t].phase = "new"

(* Prompts of one key never overlap, whichever session they run on.        *)
OnePromptPerKey ==
    Undisturbed => \A q, r \in Requests :
        request[q].phase \in InFlight /\ request[r].phase \in InFlight
            /\ request[q].key = request[r].key => q = r

(* No request is carried by a session its key does not lead to.            *)
NoOrphans ==
    Undisturbed => \A r \in Requests :
        request[r].phase \in Open /\ request[r].on # None =>
            sessions[request[r].key] = request[r].on

(* A chat response streams the session that runs its prompt.               *)
ChatStreamsItsRun ==
    Undisturbed => \A r \in Requests :
        request[r].chat /\ request[r].phase \in InFlight =>
            request[r].stream = request[r].on

(* Every request is answered, whatever is reset, deleted or stopped; only  *)
(* clearQueue() drops requests.                                            *)
EveryRequestAnswered ==
    \A r \in Requests : (request[r].phase # "new") ~> (request[r].phase \in {"answered", "lost"})
=============================================================================
