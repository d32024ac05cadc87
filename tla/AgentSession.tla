----------------------------- MODULE AgentSession -----------------------------
(***************************************************************************)
(* class AgentSession (packages/coding-agent/src/core/agent-session.ts):   *)
(* what stands between a front end and the agent of module Agent.  It      *)
(* persists the agent's messages, retries after transient errors, compacts *)
(* a context that grows too long or overflows, and starts new sessions.    *)
(*                                                                         *)
(* One JavaScript thread; an action is the code between two awaits.  Four  *)
(* things run side by side: the agent's run, the chain of promises that    *)
(* handles its events one by one (_agentEventQueue), the calls of prompt() *)
(* and the timers that call agent.continue().  The agent itself is reduced *)
(* to its current run; a message to who sent it and how it ended.          *)
(***************************************************************************)
EXTENDS Naturals, Sequences, FiniteSets, SequencesExt, Selection

CONSTANTS Callers,      \* calls of prompt(), numbered in the order they are made
          Chain,        \* the thread of _agentEventQueue
          Manual,       \* the thread of compact()
          None,
          Outcomes,     \* how an answer may end, of Stops below
          MaxRetries,   \* settings.retry.maxRetries
          MaxQueued,    \* bound: messages queued by prompt() while streaming
          MaxAborts,    \* bound: abort() and abortCompaction()
          MaxSessions,  \* bound: sessions, the first one included
          MaxManual,    \* bound: calls of compact()
          Patient       \* the front end lets the session finish, see Allowed

(* "ok" a plain answer, "large" one whose usage is over the threshold,     *)
(* "silent" one whose input was larger than the context window; errors:    *)
(* "retryable", "overflow" and "fatal"; "aborted" by the user.             *)
Errors == {"retryable", "overflow", "fatal"}
Overflows == {"overflow", "silent"}
Stops == {"ok", "large", "silent", "aborted"} \cup Errors

ASSUME AgentSessionAssumption ==
    /\ Callers \subseteq Nat
    /\ Chain \notin Callers /\ Manual \notin Callers /\ Chain # Manual
    /\ None \notin Callers \cup {Chain, Manual}
    /\ Outcomes \subseteq Stops \ {"aborted"} /\ Outcomes # {}
    /\ {MaxRetries, MaxQueued, MaxAborts, MaxManual} \subseteq Nat
    /\ MaxSessions \in Nat \ {0}
    /\ Patient \in BOOLEAN

VARIABLES
    \* the agent
    phase,      \* "idle", "open" (the model answers) or "answered"
    reply,      \* the answer of the current turn, once it is there
    runner,     \* the prompt() whose agent.prompt() the run is, or None
    signal,     \* the run's AbortSignal
    context,    \* agent.state.messages
    queue,      \* messages in the agent's steering and follow-up queues
    \* AgentSession
    connected,  \* subscribed to the agent
    events,     \* events chained on _agentEventQueue
    handler,    \* what the chain awaits
    last,       \* _lastAssistantMessage
    attempt,    \* _retryAttempt
    promise,    \* _retryPromise is set
    recovered,  \* _overflowRecoveryAttempted
    controller, \* the thread that set _autoCompactionAbortController
    comp,       \* the compaction each thread runs
    timers,     \* setTimeout(() => agent.continue())
    switching,  \* newSession() awaits abort()
    pc,         \* where each prompt() is
    session,    \* entries of the session file, the current branch
    \* counters and history
    clock, epoch, aborts, manuals,
    stranded,   \* a retry ended with an error the session does not retry
    crossed     \* the compaction before a prompt()'s message armed a timer

agentVars == <<phase, reply, runner, signal, context, queue>>
retryVars == <<last, attempt, promise, recovered>>
compVars == <<controller, comp, timers>>
clientVars == <<connected, switching, pc>>
countVars == <<aborts, manuals, epoch>>
historyVars == <<stranded, crossed>>
vars == <<agentVars, events, handler, retryVars, compVars, clientVars, session,
          clock, countVars, historyVars>>

Threads == Callers \cup {Chain, Manual}

-----------------------------------------------------------------------------
(* Messages, session entries, what is made of them.                        *)

UserMsg(t) == [role |-> "user", stop |-> "user", at |-> t, epoch |-> epoch]
Answer(t, stop) == [role |-> "assistant", stop |-> stop, at |-> t, epoch |-> epoch]
Summary(e) == [role |-> "summary", stop |-> "summary", at |-> e.at, epoch |-> e.epoch]
CompactionEntry(t, reason, kept) ==
    [role |-> "compaction", reason |-> reason, at |-> t, kept |-> kept, epoch |-> epoch]
AgentEnd == [role |-> "agent_end"]
NoMsg == [role |-> "none", stop |-> "none"]
NoComp == [stage |-> "none", reason |-> "none", aborted |-> FALSE, kept |-> 0]

IsError(m) == m.role = "assistant" /\ m.stop \in Errors
IsCompactionEntry(e) == e.role = "compaction"
EndsWithAssistant(s) == s # <<>> /\ Last(s).role = "assistant"
DropAssistant(s) == IF EndsWithAssistant(s) THEN Front(s) ELSE s

\* The last of some positions, 0 if there is none.
Latest(S) == IF S = {} THEN 0 ELSE Max(S)
LatestCompaction(s) == Latest({i \in DOMAIN s : IsCompactionEntry(s[i])})
LatestAnswer(s) == Latest({i \in DOMAIN s : s[i].role = "assistant"})

\* buildSessionContext: the summary, what the compaction kept, what came after.
MessagesOf(s) == Picked({i \in DOMAIN s : ~IsCompactionEntry(s[i])}, s)
SessionContext(s) ==
    LET c == LatestCompaction(s)
    IN  IF c = 0 THEN s
        ELSE <<Summary(s[c])>> \o MessagesOf(SubSeq(s, s[c].kept, c - 1))
                \o SubSeq(s, c + 1, Len(s))

\* prepareCompaction: what may be the first entry kept; none after a compaction.
Cuts(s) ==
    IF s = <<>> \/ IsCompactionEntry(Last(s)) THEN {}
    ELSE (LatestCompaction(s) + 1)..Len(s)

\* The error is from before the latest compaction of the branch.
Outdated(m) ==
    LET c == LatestCompaction(session) IN c > 0 /\ m.at < session[c].at

\* _checkCompaction: what to do about an answer.
Verdict(m, skipAborted) ==
    IF skipAborted /\ m.stop = "aborted" THEN "none"
    ELSE IF m.stop \in Overflows /\ ~Outdated(m)
         THEN IF recovered THEN "none" ELSE "overflow"
    ELSE IF m.stop \in Errors THEN "none"
    ELSE IF m.stop \in {"large", "silent"} THEN "threshold" ELSE "none"

-----------------------------------------------------------------------------
Init ==
    /\ phase = "idle" /\ reply = NoMsg /\ runner = None /\ signal = FALSE
    /\ context = <<>> /\ queue = 0
    /\ connected = TRUE /\ events = <<>> /\ handler = "idle"
    /\ last = NoMsg /\ attempt = 0 /\ promise = FALSE /\ recovered = FALSE
    /\ controller = None /\ comp = [t \in Threads |-> NoComp] /\ timers = 0
    /\ switching = FALSE /\ pc = [p \in Callers |-> "idle"]
    /\ session = <<>> /\ clock = 1 /\ epoch = 1 /\ aborts = 0 /\ manuals = 0
    /\ stranded = FALSE /\ crossed = FALSE

-----------------------------------------------------------------------------
(* Helpers for the actions.                                                *)

\* The session has nothing under way.
Settled ==
    events = <<>> /\ handler = "idle" /\ timers = 0 /\ \A t \in Threads : comp[t] = NoComp

\* A listener call: the event is chained while the session is subscribed.
Chained(es) == events' = IF connected THEN events \o es ELSE events

\* _resolveRetry: every prompt() that awaits the promise goes on.
ResolveRetry(pcs) ==
    /\ promise' = FALSE
    /\ pc' = [p \in Callers |-> IF pcs[p] = "waiting" THEN "done" ELSE pcs[p]]

\* Agent._runLoop with the new messages ms, up to the model's answer.
BeginRun(who, ms) ==
    /\ phase' = "open" /\ reply' = NoMsg /\ runner' = who /\ signal' = FALSE
    /\ context' = context \o ms
    /\ Chained(ms)
    /\ clock' = clock + 1

\* _runAutoCompaction up to the extension's or the model's summary.
StartCompaction(t, reason) ==
    /\ controller' = t
    /\ comp' = [comp EXCEPT ![t] = [stage |-> "key", reason |-> reason, aborted |-> FALSE,
                                kept |-> 0]]

\* What thread t does once its compaction is over.
AfterCompaction(t) ==
    /\ comp' = [comp EXCEPT ![t] = NoComp]
    /\ controller' = IF t = Manual THEN controller ELSE None
    /\ handler' = IF t = Chain THEN "idle" ELSE handler
    /\ connected' = (connected \/ t = Manual)
    /\ pc' = [p \in Callers |-> IF p = t THEN "before" ELSE pc[p]]

(* A patient front end calls when the session has nothing under way: it    *)
(* has awaited its prompts, and the chain has handled their events.  The   *)
(* code has no way to await the chain and refuses no call, so an impatient *)
(* one calls whenever the agent is free.                                   *)
Allowed ==
    Patient => /\ phase = "idle" /\ Settled /\ connected /\ ~switching
               /\ \A p \in Callers : pc[p] \in {"idle", "done"}

-----------------------------------------------------------------------------
(* The agent's run.                                                        *)

\* message_end of the model's answer, which an abort may or may not cut short.
AnswerArrives(stop) ==
    /\ phase = "open" /\ stop \in Outcomes \cup (IF signal THEN {"aborted"} ELSE {})
    /\ LET m == Answer(clock - 1, stop) IN
        /\ reply' = m /\ context' = Append(context, m) /\ Chained(<<m>>)
    /\ phase' = "answered"
    /\ UNCHANGED <<runner, signal, queue, handler, retryVars, compVars, clientVars, session,
                   clock, countVars, historyVars>>

\* A queued message starts another turn of the run.
NextTurn ==
    /\ phase = "answered" /\ reply.stop \notin Errors \cup {"aborted"}
    /\ queue > 0 /\ queue' = queue - 1
    /\ context' = Append(context, UserMsg(clock)) /\ Chained(<<UserMsg(clock)>>)
    /\ phase' = "open" /\ reply' = NoMsg /\ clock' = clock + 1
    /\ UNCHANGED <<runner, signal, handler, retryVars, compVars, clientVars, session,
                   countVars, historyVars>>

\* agent_end: the promise of a retry exists before the event is chained.
RunEnds ==
    /\ phase = "answered" /\ (reply.stop \in Errors \cup {"aborted"} \/ queue = 0)
    /\ phase' = "idle" /\ reply' = NoMsg /\ runner' = None /\ signal' = FALSE
    /\ promise' = (promise \/ (connected /\ reply.stop = "retryable"))
    /\ Chained(<<AgentEnd>>)
    /\ pc' = [p \in Callers |-> IF p = runner THEN "ran" ELSE pc[p]]
    /\ stranded' = (stranded \/ (promise /\ reply.stop \in {"overflow", "fatal"}))
    /\ UNCHANGED <<context, queue, handler, last, attempt, recovered,
                   compVars, connected, switching, session, clock, countVars, crossed>>

\* A timer calls agent.continue(); what it rejects with is dropped.
TimerFires ==
    /\ timers > 0 /\ timers' = timers - 1
    /\ \/ /\ phase = "idle" /\ context # <<>> /\ ~EndsWithAssistant(context)
          /\ BeginRun(None, <<>>) /\ UNCHANGED <<queue, stranded>>
       \/ /\ phase = "idle" /\ EndsWithAssistant(context) /\ queue > 0
          /\ BeginRun(None, <<UserMsg(clock)>>) /\ queue' = queue - 1 /\ UNCHANGED stranded
       \/ /\ phase # "idle" \/ context = <<>> \/ (EndsWithAssistant(context) /\ queue = 0)
          /\ stranded' = (stranded \/ promise)
          /\ UNCHANGED <<agentVars, events, clock>>
    /\ UNCHANGED <<handler, retryVars, controller, comp, clientVars, session,
                   countVars, crossed>>

-----------------------------------------------------------------------------
(* The chain: _processAgentEvent.                                          *)

Take == handler = "idle" /\ events # <<>> /\ events' = Tail(events)

\* Mutant of ProcessMessage: the counter of retries survives an answer.
ProcessMessageKeepsAttempt ==
    /\ Take /\ Head(events).role \in {"user", "assistant"}
    /\ LET m == Head(events) IN
        /\ session' = Append(session, m)
        /\ last' = IF m.role = "assistant" THEN m ELSE last
        /\ recovered' = (recovered /\ IsError(m))
    /\ UNCHANGED <<agentVars, handler, attempt, promise, compVars, clientVars, clock,
                   countVars, historyVars>>

\* message_start and message_end of a user's message or an answer.
ProcessMessage ==
    /\ Take /\ Head(events).role \in {"user", "assistant"}
    /\ LET m == Head(events) IN
        /\ session' = Append(session, m)
        /\ last' = IF m.role = "assistant" THEN m ELSE last
        /\ recovered' = (recovered /\ IsError(m))
        /\ IF m.role = "assistant" /\ ~IsError(m) /\ attempt > 0
           THEN attempt' = 0 /\ ResolveRetry(pc)
           ELSE UNCHANGED <<attempt, promise, pc>>
    /\ UNCHANGED <<agentVars, handler, compVars, connected, switching, clock,
                   countVars, historyVars>>

\* agent_end without an answer to look at, or with one that needs nothing.
ProcessEnd ==
    /\ Take /\ Head(events).role = "agent_end"
    /\ last.stop # "retryable" /\ Verdict(last, TRUE) = "none"
    /\ last' = NoMsg
    /\ UNCHANGED <<agentVars, handler, attempt, promise, recovered, compVars, clientVars,
                   session, clock, countVars, historyVars>>

\* Mutant of RetryBegins: one attempt too many.
RetryBeginsOnceMore ==
    /\ Take /\ Head(events).role = "agent_end"
    /\ last.stop = "retryable" /\ attempt <= MaxRetries
    /\ attempt' = attempt + 1 /\ handler' = "backoff" /\ promise' = TRUE
    /\ context' = DropAssistant(context)
    /\ last' = NoMsg
    /\ UNCHANGED <<phase, reply, runner, signal, queue, recovered, compVars, clientVars,
                   session, clock, countVars, historyVars>>

\* Mutant of RetryBegins: the attempts are not counted.
RetryBeginsUncounted ==
    /\ Take /\ Head(events).role = "agent_end"
    /\ last.stop = "retryable" /\ attempt < MaxRetries
    /\ handler' = "backoff" /\ promise' = TRUE
    /\ context' = DropAssistant(context)
    /\ last' = NoMsg
    /\ UNCHANGED <<phase, reply, runner, signal, queue, attempt, recovered, compVars, clientVars,
                   session, clock, countVars, historyVars>>

\* _handleRetryableError: the error leaves the context, the backoff begins.
RetryBegins ==
    /\ Take /\ Head(events).role = "agent_end"
    /\ last.stop = "retryable" /\ attempt < MaxRetries
    /\ attempt' = attempt + 1 /\ handler' = "backoff" /\ promise' = TRUE
    /\ context' = DropAssistant(context)
    /\ last' = NoMsg
    /\ UNCHANGED <<phase, reply, runner, signal, queue, recovered, compVars, clientVars,
                   session, clock, countVars, historyVars>>

\* _handleRetryableError after the last attempt.
RetryGivesUp ==
    /\ Take /\ Head(events).role = "agent_end"
    /\ last.stop = "retryable" /\ attempt >= MaxRetries
    /\ attempt' = 0 /\ ResolveRetry(pc)
    /\ last' = NoMsg
    /\ UNCHANGED <<agentVars, handler, recovered, compVars, connected, switching,
                   session, clock, countVars, historyVars>>

\* The backoff is over: continue() in a timer of its own.
BackoffEnds ==
    /\ handler = "backoff" /\ handler' = "idle" /\ timers' = timers + 1
    /\ UNCHANGED <<agentVars, events, retryVars, controller, comp, clientVars, session,
                   clock, countVars, historyVars>>

\* The backoff was aborted.
BackoffAborted ==
    /\ handler = "cancelled" /\ handler' = "idle"
    /\ attempt' = 0 /\ ResolveRetry(pc)
    /\ UNCHANGED <<agentVars, events, last, recovered, compVars, connected, switching, session,
                   clock, countVars, historyVars>>

\* Mutant of ProcessCompacts: the recovery from an overflow is not remembered.
ProcessCompactsForgetful ==
    /\ Take /\ Head(events).role = "agent_end"
    /\ LET v == Verdict(last, TRUE) IN
        /\ last.stop # "retryable" /\ v # "none"
        /\ UNCHANGED recovered
        /\ context' = IF v = "overflow" THEN DropAssistant(context) ELSE context
        /\ StartCompaction(Chain, v)
    /\ handler' = "compacting" /\ last' = NoMsg
    /\ UNCHANGED <<phase, reply, runner, signal, queue, attempt, promise, timers, clientVars,
                   session, clock, countVars, historyVars>>

\* _checkCompaction after a run finds that the context must be compacted.
ProcessCompacts ==
    /\ Take /\ Head(events).role = "agent_end"
    /\ LET v == Verdict(last, TRUE) IN
        /\ last.stop # "retryable" /\ v # "none"
        /\ recovered' = (recovered \/ v = "overflow")
        /\ context' = IF v = "overflow" THEN DropAssistant(context) ELSE context
        /\ StartCompaction(Chain, v)
    /\ handler' = "compacting" /\ last' = NoMsg
    /\ UNCHANGED <<phase, reply, runner, signal, queue, attempt, promise, timers, clientVars,
                   session, clock, countVars, historyVars>>

-----------------------------------------------------------------------------
(* Compactions: _runAutoCompaction on the chain or in a prompt(), compact(). *)

\* The branch is read and its cut chosen.
CompactionPrepared(t) ==
    /\ comp[t].stage = "key"
    /\ \E k \in Cuts(session) :
           comp' = [comp EXCEPT ![t].stage = "summary", ![t].kept = k]
    /\ UNCHANGED <<agentVars, events, handler, retryVars, controller, timers, clientVars, session,
                   clock, countVars, historyVars>>

\* No key, nothing to compact, an extension cancels, summarising fails or is aborted.
CompactionFails(t) ==
    /\ comp[t].stage \in {"key", "summary"}
    /\ AfterCompaction(t)
    /\ UNCHANGED <<agentVars, events, retryVars, timers, switching, session,
                   clock, countVars, historyVars>>

\* Mutant of CompactionSaved: the context is built before the entry is there.
CompactionSavedTooLate(t) ==
    /\ comp[t].stage = "summary" /\ ~comp[t].aborted
    /\ session' = Append(session, CompactionEntry(clock, comp[t].reason, comp[t].kept))
    /\ context' = SessionContext(session)
    /\ comp' = [comp EXCEPT ![t].stage = "saved"]
    /\ UNCHANGED <<phase, reply, runner, signal, queue, events, handler, retryVars, controller,
                   timers, clientVars, clock, countVars, historyVars>>

\* The summary is there: the session gets its entry, the agent the new context.
CompactionSaved(t) ==
    /\ comp[t].stage = "summary" /\ ~comp[t].aborted
    /\ session' = Append(session, CompactionEntry(clock, comp[t].reason, comp[t].kept))
    /\ context' = SessionContext(session')
    /\ comp' = [comp EXCEPT ![t].stage = "saved"]
    /\ UNCHANGED <<phase, reply, runner, signal, queue, events, handler, retryVars, controller,
                   timers, clientVars, clock, countVars, historyVars>>

\* The extensions have been told: retry after an overflow, or wake the queue.
CompactionDone(t) ==
    /\ comp[t].stage = "saved"
    /\ AfterCompaction(t)
    /\ LET willRetry == comp[t].reason = "overflow" IN
        /\ context' = IF willRetry /\ context # <<>> /\ IsError(Last(context))
                      THEN Front(context) ELSE context
        /\ timers' = IF t # Manual /\ (willRetry \/ queue > 0) THEN timers + 1 ELSE timers
    /\ crossed' = (crossed \/ (t \in Callers /\ timers' # timers))
    /\ UNCHANGED <<phase, reply, runner, signal, queue, events, retryVars, switching, session,
                   clock, countVars, stranded>>

-----------------------------------------------------------------------------
(* The front end's calls.                                                  *)

\* p is the next call of prompt().
IsNext(p) == \A q \in Callers : pc[q] = "idle" <=> q >= p

\* prompt() while the agent streams: the message is queued.
PromptQueues(p) ==
    /\ IsNext(p) /\ phase # "idle" /\ queue < MaxQueued
    /\ queue' = queue + 1 /\ pc' = [pc EXCEPT ![p] = "done"]
    /\ UNCHANGED <<phase, reply, runner, signal, context, events, handler, retryVars, compVars,
                   connected, switching, session, clock, countVars, historyVars>>

\* prompt() up to the API key.
PromptCalled(p) ==
    /\ IsNext(p) /\ phase = "idle" /\ Allowed
    /\ pc' = [pc EXCEPT ![p] = "key"]
    /\ UNCHANGED <<agentVars, events, handler, retryVars, compVars, connected, switching, session,
                   clock, countVars, historyVars>>

\* The key is there: is the context too long because of the last answer?
PromptChecks(p) ==
    /\ pc[p] = "key"
    /\ LET a == LatestAnswer(context)
           v == IF a = 0 THEN "none" ELSE Verdict(context[a], FALSE)
       IN  /\ recovered' = (recovered \/ v = "overflow")
           /\ context' = IF v = "overflow" THEN DropAssistant(context) ELSE context
           /\ IF v = "none"
              THEN pc' = [pc EXCEPT ![p] = "before"] /\ UNCHANGED <<controller, comp>>
              ELSE pc' = [pc EXCEPT ![p] = "compacting"] /\ StartCompaction(p, v)
    /\ UNCHANGED <<phase, reply, runner, signal, queue, events, handler, last, attempt, promise,
                   timers, connected, switching, session, clock, countVars, historyVars>>

\* No model or no key, or another run began meanwhile: prompt() throws.
PromptThrows(p) ==
    /\ pc[p] = "key" \/ (pc[p] = "before" /\ phase # "idle")
    /\ pc' = [pc EXCEPT ![p] = "done"]
    /\ UNCHANGED <<agentVars, events, handler, retryVars, compVars, connected, switching, session,
                   clock, countVars, historyVars>>

\* agent.prompt() with the user's message.
PromptRuns(p) ==
    /\ pc[p] = "before" /\ phase = "idle"
    /\ BeginRun(p, <<UserMsg(clock)>>)
    /\ pc' = [pc EXCEPT ![p] = "running"]
    /\ UNCHANGED <<queue, handler, retryVars, compVars, connected, switching, session,
                   countVars, historyVars>>

\* agent.prompt() has returned: waitForRetry().
PromptAwaitsRetry(p) ==
    /\ pc[p] = "ran"
    /\ pc' = [pc EXCEPT ![p] = IF promise THEN "waiting" ELSE "done"]
    /\ UNCHANGED <<agentVars, events, handler, retryVars, compVars, connected, switching, session,
                   clock, countVars, historyVars>>

\* The synchronous part of abort(): abortRetry() and agent.abort().
AbortRun ==
    /\ handler' = IF handler = "backoff" THEN "cancelled" ELSE handler
    /\ ResolveRetry(pc)
    /\ signal' = (phase # "idle")

Abort ==
    /\ aborts < MaxAborts /\ aborts' = aborts + 1
    /\ AbortRun
    /\ UNCHANGED <<phase, reply, runner, context, queue, events, last, attempt, recovered,
                   compVars, connected, switching, session, clock, manuals, epoch, historyVars>>

\* abortCompaction(): the controllers that are set.
AbortCompaction ==
    /\ aborts < MaxAborts /\ aborts' = aborts + 1
    /\ comp' = [t \in Threads |->
                   IF comp[t].stage # "none" /\ t \in {controller, Manual}
                   THEN [comp[t] EXCEPT !.aborted = TRUE] ELSE comp[t]]
    /\ UNCHANGED <<agentVars, events, handler, retryVars, controller, timers, clientVars, session,
                   clock, manuals, epoch, historyVars>>

\* compact(): disconnect, abort, wait until the agent is idle.
CompactCalled ==
    /\ manuals < MaxManual /\ manuals' = manuals + 1
    /\ comp[Manual] = NoComp /\ Allowed
    /\ comp' = [comp EXCEPT ![Manual] =
                   [stage |-> "abort", reason |-> "manual", aborted |-> FALSE, kept |-> 0]]
    /\ connected' = FALSE
    /\ AbortRun
    /\ UNCHANGED <<phase, reply, runner, context, queue, events, last, attempt, recovered,
                   controller, timers, switching, session, clock, aborts, epoch, historyVars>>

CompactBegins ==
    /\ comp[Manual].stage = "abort" /\ phase = "idle"
    /\ comp' = [comp EXCEPT ![Manual].stage = "key"]
    /\ UNCHANGED <<agentVars, events, handler, retryVars, controller, timers, clientVars, session,
                   clock, countVars, historyVars>>

\* Mutant of NewSessionCalled: the session stays subscribed.
NewSessionCalledConnected ==
    /\ ~switching /\ epoch < MaxSessions /\ (Patient => Settled)
    /\ switching' = TRUE
    /\ AbortRun
    /\ UNCHANGED <<phase, reply, runner, context, queue, events, last, attempt, recovered,
                   compVars, connected, session, clock, countVars, historyVars>>

\* newSession(): disconnect, abort, wait until the agent is idle.
NewSessionCalled ==
    /\ ~switching /\ epoch < MaxSessions /\ (Patient => Settled)
    /\ switching' = TRUE /\ connected' = FALSE
    /\ AbortRun
    /\ UNCHANGED <<phase, reply, runner, context, queue, events, last, attempt, recovered,
                   compVars, session, clock, countVars, historyVars>>

\* The agent and the session manager start afresh.
NewSessionStarts ==
    /\ switching /\ phase = "idle"
    /\ context' = <<>> /\ queue' = 0
    /\ session' = <<>> /\ epoch' = epoch + 1
    /\ switching' = FALSE /\ connected' = TRUE
    /\ UNCHANGED <<phase, reply, runner, signal, events, handler, retryVars, compVars, pc,
                   clock, aborts, manuals, historyVars>>

-----------------------------------------------------------------------------
AgentStep == (\E stop \in Stops : AnswerArrives(stop)) \/ NextTurn \/ RunEnds
ChainStep ==
    \/ ProcessMessage \/ ProcessEnd \/ RetryBegins \/ RetryGivesUp
    \/ BackoffEnds \/ BackoffAborted \/ ProcessCompacts
CompactionStep(t) ==
    CompactionPrepared(t) \/ CompactionFails(t) \/ CompactionSaved(t) \/ CompactionDone(t)
PromptStep(p) == PromptChecks(p) \/ PromptThrows(p) \/ PromptRuns(p) \/ PromptAwaitsRetry(p)

Next ==
    \/ AgentStep \/ ChainStep \/ TimerFires
    \/ \E t \in Threads : CompactionStep(t)
    \/ \E p \in Callers : PromptQueues(p) \/ PromptCalled(p) \/ PromptStep(p)
    \/ Abort \/ AbortCompaction
    \/ CompactCalled \/ CompactBegins \/ NewSessionCalled \/ NewSessionStarts

Spec == Init /\ [][Next]_vars

\* The model answers, promises resolve and timers fire; nobody must call anything.
FairSpec ==
    /\ Spec
    /\ WF_vars(AgentStep) /\ WF_vars(ChainStep) /\ WF_vars(TimerFires)
    /\ \A t \in Threads : WF_vars(CompactionStep(t))
    /\ \A p \in Callers : WF_vars(PromptStep(p))
    /\ WF_vars(CompactBegins) /\ WF_vars(NewSessionStarts)
-----------------------------------------------------------------------------
(* Properties.                                                             *)

Message(roles, stops) == [role : roles, stop : stops, at : Nat, epoch : 1..MaxSessions]
Users == Message({"user"}, {"user"})
Answers == Message({"assistant"}, Stops)
Summaries == Message({"summary"}, {"summary"})
Compactions == [role : {"compaction"}, reason : {"overflow", "threshold", "manual"},
                at : Nat, kept : Nat \ {0}, epoch : 1..MaxSessions]
SessionEntries == Users \cup Answers \cup Compactions
ContextMessages == Users \cup Answers \cup Summaries
Comps == {NoComp}
         \cup [stage : {"abort", "key", "summary", "saved"},
               reason : {"overflow", "threshold", "manual"}, aborted : BOOLEAN, kept : Nat]

\* Types: the values of the fields, and that only a compacting thread has a compaction.
TypeOK ==
    /\ phase \in {"idle", "open", "answered"}
    /\ runner \in Callers \cup {None} /\ (runner # None => pc[runner] = "running")
    /\ context \in Seq(ContextMessages) /\ session \in Seq(SessionEntries)
    /\ queue \in 0..MaxQueued /\ {connected, signal, promise, recovered, switching} \subseteq BOOLEAN
    /\ handler \in {"idle", "backoff", "cancelled", "compacting"}
    /\ attempt \in 0..MaxRetries /\ timers \in Nat
    /\ controller \in Threads \cup {None} /\ comp \in [Threads -> Comps]
    /\ (handler = "compacting") = (comp[Chain].stage # "none")
    /\ pc \in [Callers -> {"idle", "key", "compacting", "before", "running", "ran",
                           "waiting", "done"}]
    /\ \A p \in Callers : (pc[p] = "compacting") = (comp[p].stage # "none")

Quiet == phase = "idle" /\ Settled /\ connected /\ ~switching

\* What the user said and the model answered, without what a recovery drops.
Said(m) == m.role = "user" \/ (m.role = "assistant" /\ m.stop \notin Errors \cup {"silent"})
Conversation(s) == Picked({i \in DOMAIN s : Said(s[i])}, s)

(* The agent's context and the session file tell one conversation: when    *)
(* nothing is under way, the context is what buildSessionContext() makes   *)
(* of the branch, except for errors, which retries and recoveries take out *)
(* of the context only.  A recovery takes out an answer that overflowed    *)
(* silently too, and does not put it back when no summary comes.           *)
(*                                                                         *)
(* It needs a patient front end: agent_end frees the agent before the      *)
(* chain has handled it, and whoever begins then may lose messages from    *)
(* the context or from the session.  And it needs that no prompt() has     *)
(* crossed a timer that its own compaction armed: the continue() of that   *)
(* timer may begin beside the prompt's run, as an impatient prompt() does. *)
ContextFollowsSession ==
    Quiet /\ ~crossed => Conversation(context) = Conversation(SessionContext(session))

\* No entry of an earlier session enters a new one.
SessionsDoNotMix ==
    \A i \in DOMAIN session : session[i].epoch = epoch

\* A request is made or answered.
Progress(e) == e.role = "user" \/ (e.role = "assistant" /\ ~IsError(e))

\* The positions after the last entry that is progress.
SinceProgress(s) == {i \in DOMAIN s : \A j \in i..Len(s) : ~Progress(s[j])}

(* An overflow is recovered from once: between two compactions that were   *)
(* to end an overflow there is a user message or an answer.  Otherwise a   *)
(* context that cannot be made small enough is compacted for ever.         *)
Recoveries(s) ==
    {i \in SinceProgress(s) : IsCompactionEntry(s[i]) /\ s[i].reason = "overflow"}
OneRecovery == Cardinality(Recoveries(session)) <= 1

(* A request that keeps failing is sent MaxRetries times more, not for     *)
(* ever, unless a prompt() has crossed a timer of its own compaction: its  *)
(* continue() may send an earlier request again, whose retries are over.   *)
Failures(s) == {i \in SinceProgress(s) : s[i].role = "assistant" /\ s[i].stop = "retryable"}
RetriesAreBounded == crossed \/ Cardinality(Failures(session)) <= MaxRetries + 1

(* A prompt() that waits for a retry returns, unless the retry was         *)
(* stranded: its run ended with an error that is not retried, or its       *)
(* continue() was rejected.  Nobody resolves the promise then.             *)
PromptsReturn ==
    \A p \in Callers : pc[p] \notin {"idle", "done"} ~> pc[p] = "done" \/ stranded

(* isRetrying: "Whether auto-retry is currently in progress".  It is       *)
(* while the chain works, a timer is armed or the agent streams.           *)
IsRetryingIsTrue ==
    promise => phase # "idle" \/ timers > 0 \/ handler # "idle" \/ events # <<>>
=============================================================================
