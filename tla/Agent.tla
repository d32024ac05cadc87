------------------------------- MODULE Agent -------------------------------
(***************************************************************************)
(* The agent runtime: class Agent (packages/agent/src/agent.ts) and the    *)
(* loop it drives (packages/agent/src/agent-loop.ts).                      *)
(*                                                                         *)
(* A run of the agent is two coroutines of one JavaScript thread joined by *)
(* an EventStream: runLoop produces events, Agent._runLoop consumes them,  *)
(* updates the agent's state and calls the listeners.  The code between    *)
(* two awaits is one action here; whatever else may run at an await (the   *)
(* other coroutine, a listener, a timer, the user) is another action.      *)
(***************************************************************************)
EXTENDS Naturals, Sequences, FiniteSets, Selection

CONSTANTS Inputs,      \* user messages the client may send, each at most once
          MaxRuns,     \* bound: runs started by prompt() and continue()
          MaxCalls,    \* bound: tool calls in one assistant message
          MaxTurns,    \* bound: turns after which the model asks for no tool
          QueueModes,  \* the queue modes a client may choose
          Environment  \* what may go wrong around the agent, see below

(* "nested":  a client starts a run while an earlier one, its agent_end    *)
(*            delivered, has not reached its finally block yet             *)
(* "loop":    the code awaited before the response stream exists throws    *)
(* "listener": a listener throws                                           *)
Hazards == {"nested", "loop", "listener"}

ASSUME AgentAssumption ==
    /\ MaxRuns \in Nat \ {0}
    /\ MaxCalls \in Nat
    /\ MaxTurns \in Nat
    /\ QueueModes \subseteq {"all", "one-at-a-time"} /\ QueueModes # {}
    /\ Environment \subseteq Hazards

VARIABLES
    \* class Agent
    isStreaming, messages, streamMessage, pendingToolCalls, error,
    steeringQueue, followUpQueue, steeringMode, followUpMode,
    controller,   \* the run whose AbortController the agent holds
    running,      \* the run whose promise waitForIdle() returns
    settled,      \* the runs whose promise is resolved
    \* one run: Agent._runLoop
    cons, evq, signal,
    \* one run: runLoop
    pc, ctx, pending, results,
    turns,        \* LLM calls answered so far, names assistant messages
    used, steered, followed  \* history: inputs sent, and queued in order

agentVars == <<isStreaming, messages, streamMessage, pendingToolCalls, error>>
queueVars == <<steeringQueue, followUpQueue, steeringMode, followUpMode>>
handleVars == <<controller, running, settled>>
runVars == <<cons, evq, signal, pc, ctx, pending, results>>
historyVars == <<turns, used, steered, followed>>
vars == <<agentVars, queueVars, handleVars, runVars, historyVars>>

-----------------------------------------------------------------------------
(* Messages, events, queues.                                               *)

Runs == 1..MaxRuns
NoRun == 0
CallIds == Nat \X (Nat \ {0})

User(via, i) == [role |-> "user", via |-> via, id |-> i]
Assistant(n, k, stop) == [role |-> "assistant", id |-> n, calls |-> k, stop |-> stop]
ToolResult(c, skipped) == [role |-> "toolResult", call |-> c, skipped |-> skipped]
NoMsg == [role |-> "none"]

UserMsgs == [role : {"user"}, via : {"prompt", "steer", "followUp"}, id : Inputs]
AssistantMsgs == [role : {"assistant"}, id : Nat, calls : 0..MaxCalls,
                  stop : {"partial", "stop", "error", "aborted"}]
ToolMsgs == [role : {"toolResult"}, call : CallIds, skipped : BOOLEAN]
Msgs == UserMsgs \cup AssistantMsgs \cup ToolMsgs

Event(kind, m) == [kind |-> kind, msg |-> m]
CallEvent(kind, c) == [kind |-> kind, call |-> c]
Events == [kind : {"message_start", "message_end"}, msg : Msgs]
          \cup [kind : {"tool_execution_start", "tool_execution_end"}, call : CallIds]
          \cup [kind : {"turn_end"}, msg : Msgs] \cup [kind : {"agent_end"}]
AgentEnd == [kind |-> "agent_end"]

\* Mutant of Call: calls counted from zero.
CallFromZero(m, i) == <<m.id, i - 1>>

\* The i-th tool call of an assistant message.
Call(m, i) == <<m.id, i>>

\* message_start and message_end for every message of s.
Announce(s) ==
    [i \in 1..2 * Len(s) |->
        Event(IF i % 2 = 1 THEN "message_start" ELSE "message_end", s[(i + 1) \div 2])]

\* Mutant of CallEnds: the end of the wrong call is reported.
CallEndsOfNext(m) ==
    <<CallEvent("tool_execution_end", Call([id |-> m.call[1]], m.call[2] + 1))>> \o Announce(<<m>>)

\* The events of skipToolCall and of a finished call, from its result message.
CallEnds(m) == <<CallEvent("tool_execution_end", m.call)>> \o Announce(<<m>>)

\* dequeueSteeringMessages, dequeueFollowUpMessages: what is returned, what stays.
Dequeued(mode, q) == IF mode = "all" THEN q ELSE SubSeq(q, 1, IF q = <<>> THEN 0 ELSE 1)
\* Mutant of Remaining: the queue is emptied in either mode.
RemainingNone(mode, q) == <<>>
Remaining(mode, q) == SubSeq(q, Len(Dequeued(mode, q)) + 1, Len(q))

LastOf(s) == s[Len(s)]
EndsWith(s, role) == s # <<>> /\ LastOf(s).role = role
ButLast(s) == SubSeq(s, 1, Len(s) - 1)

-----------------------------------------------------------------------------
Init ==
    /\ isStreaming = FALSE /\ messages = <<>> /\ streamMessage = NoMsg
    /\ pendingToolCalls = {} /\ error = FALSE
    /\ steeringQueue = <<>> /\ followUpQueue = <<>>
    /\ steeringMode \in QueueModes /\ followUpMode \in QueueModes
    /\ controller = NoRun /\ running = NoRun /\ settled = {}
    /\ cons = [r \in Runs |-> "new"]
    /\ evq = [r \in Runs |-> <<>>]
    /\ signal = [r \in Runs |-> FALSE]
    /\ pc = [r \in Runs |-> "new"]
    /\ ctx = [r \in Runs |-> <<>>]
    /\ pending = [r \in Runs |-> <<>>]
    /\ results = [r \in Runs |-> <<>>]
    /\ turns = 0 /\ used = {} /\ steered = <<>> /\ followed = <<>>

-----------------------------------------------------------------------------
(* Helpers for the actions.                                                *)

\* stream.push: nobody reads the stream of a run whose consumer has left.
Push(r, es) == evq' = [evq EXCEPT ![r] = IF cons[r] = "reading" THEN @ \o es ELSE @]

Goto(r, label) == pc' = [pc EXCEPT ![r] = label]

\* getSteeringMessages as Agent._runLoop passes it: dequeued when it is called.
PollSteering(r) ==
    /\ pending' = [pending EXCEPT ![r] = Dequeued(steeringMode, steeringQueue)]
    /\ steeringQueue' = Remaining(steeringMode, steeringQueue)
    /\ UNCHANGED <<followUpQueue, steeringMode, followUpMode>>

\* A client that does not start runs from inside agent_end.
MayStart == "nested" \in Environment \/ \A r \in Runs : cons[r] # "exiting"

\* No run is under way: the client awaited prompt() or waitForIdle().
Quiet == \A r \in Runs : cons[r] \in {"new", "closed"}

(* Agent._runLoop up to its first await, agentLoop or agentLoopContinue    *)
(* and runLoop up to theirs: sq and fq are the queues left to poll.        *)
BeginRun(r, new, skipPoll, sq, fq) ==
    /\ cons[r] = "new" /\ \A q \in 1..(r - 1) : cons[q] # "new"
    /\ isStreaming' = TRUE /\ streamMessage' = NoMsg /\ error' = FALSE
    /\ controller' = r /\ running' = r
    /\ cons' = [cons EXCEPT ![r] = "reading"]
    /\ evq' = [evq EXCEPT ![r] = Announce(new)]
    /\ ctx' = [ctx EXCEPT ![r] = messages \o new]
    /\ pending' = [pending EXCEPT ![r] =
                      IF skipPoll THEN <<>> ELSE Dequeued(steeringMode, sq)]
    /\ steeringQueue' = IF skipPoll THEN sq ELSE Remaining(steeringMode, sq)
    /\ followUpQueue' = fq
    /\ Goto(r, "begin")
    /\ UNCHANGED <<messages, pendingToolCalls, settled, signal, results,
                   steeringMode, followUpMode>>

-----------------------------------------------------------------------------
(* The client's calls.                                                     *)

\* Mutant of Prompt: isStreaming is not checked.
PromptUnguarded(r, i) ==
    /\ MayStart /\ i \notin used /\ used' = used \cup {i}
    /\ BeginRun(r, <<User("prompt", i)>>, FALSE, steeringQueue, followUpQueue)
    /\ UNCHANGED <<turns, steered, followed>>

Prompt(r, i) ==
    /\ ~isStreaming /\ MayStart
    /\ i \notin used /\ used' = used \cup {i}
    /\ BeginRun(r, <<User("prompt", i)>>, FALSE, steeringQueue, followUpQueue)
    /\ UNCHANGED <<turns, steered, followed>>

\* continue() on a transcript that ends with a user message or a tool result.
ContinueFromContext(r) ==
    /\ ~isStreaming /\ MayStart
    /\ messages # <<>> /\ ~EndsWith(messages, "assistant")
    /\ BeginRun(r, <<>>, FALSE, steeringQueue, followUpQueue)
    /\ UNCHANGED historyVars

\* continue() after an assistant message: the queued messages are the prompt.
ContinueFromQueue(r) ==
    /\ ~isStreaming /\ MayStart
    /\ EndsWith(messages, "assistant")
    /\ \/ /\ steeringQueue # <<>>
          /\ BeginRun(r, Dequeued(steeringMode, steeringQueue), TRUE,
                      Remaining(steeringMode, steeringQueue), followUpQueue)
       \/ /\ steeringQueue = <<>> /\ followUpQueue # <<>>
          /\ BeginRun(r, Dequeued(followUpMode, followUpQueue), FALSE, <<>>,
                      Remaining(followUpMode, followUpQueue))
    /\ UNCHANGED historyVars

Steer(i) ==
    /\ i \notin used /\ used' = used \cup {i}
    /\ steeringQueue' = Append(steeringQueue, User("steer", i))
    /\ steered' = Append(steered, User("steer", i))
    /\ UNCHANGED <<agentVars, handleVars, runVars, turns, followed,
                   followUpQueue, steeringMode, followUpMode>>

FollowUp(i) ==
    /\ i \notin used /\ used' = used \cup {i}
    /\ followUpQueue' = Append(followUpQueue, User("followUp", i))
    /\ followed' = Append(followed, User("followUp", i))
    /\ UNCHANGED <<agentVars, handleVars, runVars, turns, steered,
                   steeringQueue, steeringMode, followUpMode>>

\* clearSteeringQueue, clearFollowUpQueue; clearAllQueues is one after the other.
ClearSteeringQueue ==
    /\ steeringQueue # <<>> /\ steeringQueue' = <<>>
    /\ steered' = SubSeq(steered, 1, Len(steered) - Len(steeringQueue))
    /\ UNCHANGED <<agentVars, handleVars, runVars, turns, used, followed,
                   followUpQueue, steeringMode, followUpMode>>

ClearFollowUpQueue ==
    /\ followUpQueue # <<>> /\ followUpQueue' = <<>>
    /\ followed' = SubSeq(followed, 1, Len(followed) - Len(followUpQueue))
    /\ UNCHANGED <<agentVars, handleVars, runVars, turns, used, steered,
                   steeringQueue, steeringMode, followUpMode>>

SetQueueMode ==
    /\ \/ steeringMode' \in QueueModes \ {steeringMode} /\ UNCHANGED followUpMode
       \/ followUpMode' \in QueueModes \ {followUpMode} /\ UNCHANGED steeringMode
    /\ UNCHANGED <<agentVars, handleVars, runVars, historyVars, steeringQueue, followUpQueue>>

Abort ==
    /\ controller # NoRun /\ ~signal[controller]
    /\ signal' = [signal EXCEPT ![controller] = TRUE]
    /\ UNCHANGED <<agentVars, queueVars, handleVars, historyVars,
                   cons, evq, pc, ctx, pending, results>>

\* reset(), and clearMessages() for its first line; between runs, where
\* AgentSession.newSession calls it after awaiting waitForIdle().
Reset ==
    /\ Quiet
    /\ messages # <<>> \/ steeringQueue # <<>> \/ followUpQueue # <<>>
    /\ isStreaming' = FALSE /\ messages' = <<>> /\ streamMessage' = NoMsg
    /\ pendingToolCalls' = {} /\ error' = FALSE
    /\ steeringQueue' = <<>> /\ followUpQueue' = <<>>
    /\ steered' = <<>> /\ followed' = <<>>
    /\ UNCHANGED <<handleVars, runVars, steeringMode, followUpMode, turns, used>>

\* replaceMessages(messages.slice(0, -1)): a retry drops the failed answer.
DropLastAnswer ==
    /\ Quiet /\ EndsWith(messages, "assistant") /\ LastOf(messages).stop = "error"
    /\ messages' = ButLast(messages)
    /\ UNCHANGED <<isStreaming, streamMessage, pendingToolCalls, error,
                   queueVars, handleVars, runVars, historyVars>>

-----------------------------------------------------------------------------
(* The loop: runLoop, streamAssistantResponse, executeToolCalls.           *)

\* Mutant of EntersTurn: tool results alone do not start another turn.
EntersTurnIfPending(r) ==
    pc[r] = "begin" \/ (pc[r] \in {"polled", "followUp"} /\ pending[r] # <<>>)

\* The inner while's condition: at "polled" the turn just ended had tool calls
\* exactly when its results close the context.
EntersTurn(r) ==
    \/ pc[r] = "begin"
    \/ pc[r] = "polled" /\ (EndsWith(ctx[r], "toolResult") \/ pending[r] # <<>>)
    \/ pc[r] = "followUp" /\ pending[r] # <<>>

\* The pending messages are injected before the next assistant response.
BeginTurn(r) ==
    /\ EntersTurn(r)
    /\ ctx' = [ctx EXCEPT ![r] = @ \o pending[r]]
    /\ Push(r, Announce(pending[r]))
    /\ pending' = [pending EXCEPT ![r] = <<>>]
    /\ Goto(r, "calling")
    /\ UNCHANGED <<agentVars, queueVars, handleVars, historyVars, cons, signal, results>>

\* transformContext, convertToLlm, getApiKey and streamFn have returned.
CallModel(r) ==
    /\ pc[r] = "calling"
    /\ Goto(r, "streaming")
    /\ UNCHANGED <<agentVars, queueVars, handleVars, historyVars,
                   cons, evq, signal, ctx, pending, results>>

\* One of them throws: nothing catches it, and the stream is never ended.
LoopThrows(r) ==
    /\ "loop" \in Environment
    /\ pc[r] = "calling"
    /\ Goto(r, "crashed")
    /\ UNCHANGED <<agentVars, queueVars, handleVars, historyVars,
                   cons, evq, signal, ctx, pending, results>>

HasPartial(r) == EndsWith(ctx[r], "assistant") /\ LastOf(ctx[r]).stop = "partial"

StreamStart(r) ==
    /\ pc[r] = "streaming" /\ ~HasPartial(r)
    /\ LET partial == Assistant(turns + 1, 0, "partial") IN
       /\ ctx' = [ctx EXCEPT ![r] = Append(@, partial)]
       /\ Push(r, <<Event("message_start", partial)>>)
    /\ UNCHANGED <<agentVars, queueVars, handleVars, historyVars,
                   cons, signal, pc, pending, results>>

\* The provider reports "aborted" only once the run's signal is aborted; an
\* abort that comes after its last byte leaves the answer as it is.
StreamEnd(r) ==
    /\ pc[r] = "streaming"
    /\ \E k \in 0..MaxCalls, stop \in {"stop", "error", "aborted"} :
       /\ stop = "aborted" => signal[r]
       /\ k > 0 => turns < MaxTurns
       /\ LET final == Assistant(turns + 1, k, stop) IN
          /\ ctx' = [ctx EXCEPT ![r] = Append(IF HasPartial(r) THEN ButLast(@) ELSE @, final)]
          /\ Push(r, IF HasPartial(r) THEN <<Event("message_end", final)>>
                                      ELSE Announce(<<final>>))
    /\ turns' = turns + 1
    /\ Goto(r, "answered")
    /\ UNCHANGED <<agentVars, queueVars, handleVars, used, steered, followed,
                   cons, signal, pending, results>>

Failed(m) == m.stop \in {"error", "aborted"}

TurnFailed(r) ==
    /\ pc[r] = "answered" /\ Failed(LastOf(ctx[r]))
    /\ Push(r, <<Event("turn_end", LastOf(ctx[r])), AgentEnd>>)
    /\ Goto(r, "ended")
    /\ UNCHANGED <<agentVars, queueVars, handleVars, historyVars,
                   cons, signal, ctx, pending, results>>

TurnWithoutTools(r) ==
    /\ pc[r] = "answered" /\ ~Failed(LastOf(ctx[r])) /\ LastOf(ctx[r]).calls = 0
    /\ Push(r, <<Event("turn_end", LastOf(ctx[r]))>>)
    /\ PollSteering(r)
    /\ Goto(r, "polled")
    /\ UNCHANGED <<agentVars, handleVars, historyVars, cons, signal, ctx, results>>

\* While tools run, the assistant message closes ctx and pending is empty.
NextCall(r) == Call(LastOf(ctx[r]), Len(results[r]) + 1)
MoreCalls(r) == Len(results[r]) < LastOf(ctx[r]).calls

StartTool(r) ==
    /\ \/ pc[r] = "answered" /\ ~Failed(LastOf(ctx[r]))
       \/ pc[r] = "toolDone" /\ pending[r] = <<>>
    /\ MoreCalls(r)
    /\ Push(r, <<CallEvent("tool_execution_start", NextCall(r))>>)
    /\ Goto(r, "tool")
    /\ UNCHANGED <<agentVars, queueVars, handleVars, historyVars,
                   cons, signal, ctx, pending, results>>

\* tool.execute returns or throws; either way there is a result.
FinishTool(r) ==
    /\ pc[r] = "tool"
    /\ LET result == ToolResult(NextCall(r), FALSE) IN
       /\ results' = [results EXCEPT ![r] = Append(@, result)]
       /\ Push(r, CallEnds(result))
    /\ PollSteering(r)
    /\ Goto(r, "toolDone")
    /\ UNCHANGED <<agentVars, handleVars, historyVars, cons, signal, ctx>>

\* Mutant of Skipped: the calls cut off get no result.
SkippedNone(r) == <<>>

\* skipToolCall for the calls a steering message cut off.
Skipped(r) ==
    LET m == LastOf(ctx[r])
        skip == [i \in 1..m.calls |-> ToolResult(Call(m, i), TRUE)]
    IN  SubSeq(skip, Len(results[r]) + 1, m.calls)

\* Mutant of SkipEvents: skipped results are not announced as messages.
SkipEventsBare(s) ==
    [i \in 1..2 * Len(s) |->
        CallEvent(IF i % 2 = 1 THEN "tool_execution_start" ELSE "tool_execution_end",
                  s[(i + 1) \div 2].call)]

\* tool_execution_start, tool_execution_end, message_start, message_end of each.
SkipEvents(s) ==
    [i \in 1..4 * Len(s) |->
        LET m == s[(i + 3) \div 4]
            step == (i - 1) % 4 IN
        IF step = 0 THEN CallEvent("tool_execution_start", m.call)
        ELSE CallEnds(m)[step]]

EndTools(r) ==
    /\ pc[r] = "toolDone" /\ (pending[r] # <<>> \/ ~MoreCalls(r))
    /\ ctx' = [ctx EXCEPT ![r] = @ \o results[r] \o Skipped(r)]
    /\ results' = [results EXCEPT ![r] = <<>>]
    /\ Push(r, Append(SkipEvents(Skipped(r)), Event("turn_end", LastOf(ctx[r]))))
    /\ \/ pending[r] # <<>> /\ UNCHANGED <<pending, queueVars>>
       \/ pending[r] = <<>> /\ PollSteering(r)
    /\ Goto(r, "polled")
    /\ UNCHANGED <<agentVars, handleVars, historyVars, cons, signal>>

PollFollowUp(r) ==
    /\ pc[r] = "polled" /\ ~EntersTurn(r)
    /\ pending' = [pending EXCEPT ![r] = Dequeued(followUpMode, followUpQueue)]
    /\ followUpQueue' = Remaining(followUpMode, followUpQueue)
    /\ Goto(r, "followUp")
    /\ UNCHANGED <<agentVars, handleVars, historyVars, steeringQueue, steeringMode,
                   followUpMode, cons, evq, signal, ctx, results>>

EndLoop(r) ==
    /\ pc[r] = "followUp" /\ pending[r] = <<>>
    /\ Push(r, <<AgentEnd>>)
    /\ Goto(r, "ended")
    /\ UNCHANGED <<agentVars, queueVars, handleVars, historyVars,
                   cons, signal, ctx, pending, results>>

-----------------------------------------------------------------------------
(* The consumer: the for-await of Agent._runLoop.                          *)

OnEvent(e) ==
    /\ streamMessage' = CASE e.kind = "message_start" -> e.msg
                          [] e.kind \in {"message_end", "agent_end"} -> NoMsg
                          [] OTHER -> streamMessage
    /\ messages' = IF e.kind = "message_end" THEN Append(messages, e.msg) ELSE messages
    /\ pendingToolCalls' =
          CASE e.kind = "tool_execution_start" -> pendingToolCalls \cup {e.call}
            [] e.kind = "tool_execution_end" -> pendingToolCalls \ {e.call}
            [] OTHER -> pendingToolCalls
    /\ error' = (error \/ (e.kind = "turn_end" /\ Failed(e.msg)))
    /\ isStreaming' = (isStreaming /\ e.kind # "agent_end")

Consume(r) ==
    /\ cons[r] = "reading" /\ evq[r] # <<>>
    /\ OnEvent(Head(evq[r]))
    /\ evq' = [evq EXCEPT ![r] = Tail(@)]
    /\ cons' = [cons EXCEPT ![r] = IF Head(evq[r]) = AgentEnd THEN "exiting" ELSE @]
    /\ UNCHANGED <<queueVars, handleVars, historyVars, signal, pc, ctx, pending, results>>

\* Mutant of Finally: the promise of waitForIdle() is forgotten.
FinallyUnresolved(r) ==
    /\ isStreaming' = FALSE /\ streamMessage' = NoMsg /\ pendingToolCalls' = {}
    /\ controller' = NoRun /\ running' = NoRun /\ UNCHANGED settled
    /\ cons' = [cons EXCEPT ![r] = "closed"]

\* The finally block: it acts on the agent's fields, whichever run set them.
Finally(r) ==
    /\ isStreaming' = FALSE /\ streamMessage' = NoMsg /\ pendingToolCalls' = {}
    /\ controller' = NoRun /\ running' = NoRun
    /\ settled' = settled \cup ({running} \ {NoRun})
    /\ cons' = [cons EXCEPT ![r] = "closed"]

Close(r) ==
    /\ cons[r] = "exiting"
    /\ Finally(r)
    /\ UNCHANGED <<messages, error, queueVars, historyVars,
                   evq, signal, pc, ctx, pending, results>>

\* A listener throws on an event that was applied: the catch block appends an
\* error message, the finally block runs, and the loop goes on without a reader.
ListenerThrows(r) ==
    /\ "listener" \in Environment
    /\ cons[r] = "reading" /\ evq[r] # <<>>
    /\ LET e == Head(evq[r])
           stop == IF controller # NoRun /\ signal[controller] THEN "aborted" ELSE "error"
       IN  messages' = Append(IF e.kind = "message_end" THEN Append(messages, e.msg)
                              ELSE messages, Assistant(0, 0, stop))
    /\ error' = TRUE
    /\ Finally(r)
    /\ evq' = [evq EXCEPT ![r] = <<>>]
    /\ UNCHANGED <<queueVars, historyVars, signal, pc, ctx, pending, results>>

-----------------------------------------------------------------------------
Client ==
    \/ \E r \in Runs, i \in Inputs : Prompt(r, i)
    \/ \E r \in Runs : ContinueFromContext(r) \/ ContinueFromQueue(r)
    \/ \E i \in Inputs : Steer(i) \/ FollowUp(i)
    \/ ClearSteeringQueue \/ ClearFollowUpQueue \/ SetQueueMode
    \/ Abort \/ Reset \/ DropLastAnswer

Loop(r) ==
    \/ BeginTurn(r) \/ CallModel(r) \/ LoopThrows(r) \/ StreamStart(r) \/ StreamEnd(r)
    \/ TurnFailed(r) \/ TurnWithoutTools(r) \/ StartTool(r) \/ FinishTool(r)
    \/ EndTools(r) \/ PollFollowUp(r) \/ EndLoop(r)

Consumer(r) == Consume(r) \/ Close(r) \/ ListenerThrows(r)

Next == Client \/ \E r \in Runs : Loop(r) \/ Consumer(r)

Spec == Init /\ [][Next]_vars

\* The event loop runs every job that is ready; models and tools answer.
Fairness == \A r \in Runs : WF_vars(Loop(r)) /\ WF_vars(Consumer(r))

FairSpec == Spec /\ Fairness

-----------------------------------------------------------------------------
(* Properties.                                                             *)

\* The messages that the message_end events of q carry.
Ends(q) == {i \in 1..Len(q) : q[i].kind = "message_end"}
Carried(q) == Picked(Ends(q), [i \in Ends(q) |-> q[i].msg])

\* The messages the consumer of r has yet to append to the transcript.
InFlight(r) == Carried(evq[r])

Reading(r) == cons[r] = "reading"
LoopLives(r) == pc[r] \notin {"new", "ended"}
Committed(r) == IF HasPartial(r) THEN ButLast(ctx[r]) ELSE ctx[r]
SentAs(via, s) == {i \in 1..Len(s) : s[i].role = "user" /\ s[i].via = via}
Via(via, s) == Picked(SentAs(via, s), s)

\* Every variable holds what the code can store in it.
TypeOK ==
    /\ isStreaming \in BOOLEAN /\ error \in BOOLEAN
    /\ messages \in Seq(Msgs)
    /\ streamMessage \in Msgs \cup {NoMsg}
    /\ pendingToolCalls \subseteq CallIds
    /\ steeringQueue \in Seq(UserMsgs) /\ followUpQueue \in Seq(UserMsgs)
    /\ steeringMode \in QueueModes /\ followUpMode \in QueueModes
    /\ controller \in Runs \cup {NoRun} /\ running \in Runs \cup {NoRun}
    /\ settled \subseteq Runs
    /\ cons \in [Runs -> {"new", "reading", "exiting", "closed"}]
    /\ evq \in [Runs -> Seq(Events)]
    /\ signal \in [Runs -> BOOLEAN]
    /\ pc \in [Runs -> {"new", "begin", "calling", "streaming", "answered", "tool",
                         "toolDone", "polled", "followUp", "ended", "crashed"}]
    /\ ctx \in [Runs -> Seq(Msgs)]
    /\ pending \in [Runs -> Seq(UserMsgs)]
    /\ results \in [Runs -> Seq(ToolMsgs)]
    /\ turns \in Nat /\ used \subseteq Inputs
    /\ steered \in Seq(UserMsgs) /\ followed \in Seq(UserMsgs)

\* What the model is sent (the context of streamFunction, agent-loop.ts) holds a
\* result for each tool call of each answer, in order, directly after it, however
\* steering cut the calls short: providers reject anything else.
ToolResultsFollowCalls ==
    \A r \in Runs : pc[r] \in {"calling", "streaming"} =>
        \A i \in 1..Len(ctx[r]) :
            LET m == ctx[r][i] IN
            m.role = "assistant" /\ m.stop = "stop" =>
                \A k \in 1..m.calls :
                    /\ i + k <= Len(ctx[r])
                    /\ ctx[r][i + k].role = "toolResult"
                    /\ ctx[r][i + k].call = Call(m, k)

\* Steering and follow-up messages are neither lost, duplicated nor reordered
\* among their kind, from steer()/followUp() over the queue, the loop's pending
\* messages and the event stream to the transcript.
DeliveredInOrder ==
    \A via \in {"steer", "followUp"} :
        LET queue == IF via = "steer" THEN steeringQueue ELSE followUpQueue
            sent  == IF via = "steer" THEN steered ELSE followed
        IN  /\ Quiet => Via(via, messages) \o queue = sent
            /\ \A r \in Runs : Reading(r) =>
                  Via(via, messages \o InFlight(r) \o pending[r]) \o queue = sent

\* A follow-up is delivered only when the agent has no more tool calls and no
\* steering message left: it never comes right after a tool result or a steer.
FollowUpsComeLast ==
    \A r \in Runs : \A i \in 1..Len(ctx[r]) :
        ctx[r][i].role = "user" /\ ctx[r][i].via = "followUp" =>
            /\ i > 1
            /\ \/ ctx[r][i - 1].role = "assistant"
               \/ ctx[r][i - 1].role = "user" /\ ctx[r][i - 1].via = "followUp"

\* The agent's transcript, built from events, catches up with the context the
\* loop sends to the model: the next run starts from what this one saw.
TranscriptMirrors ==
    \A r \in Runs :
        /\ Reading(r) => messages \o InFlight(r) = Committed(r) \o results[r]
        /\ cons[r] = "exiting" => messages = ctx[r]

\* With every event consumed, the agent shows exactly the message that is
\* streaming and the tool call that is running in the loop.
DrainedStateExact ==
    /\ \A r \in Runs : Reading(r) /\ evq[r] = <<>> =>
          /\ streamMessage = IF HasPartial(r) THEN LastOf(ctx[r]) ELSE NoMsg
          /\ pendingToolCalls = IF pc[r] = "tool" THEN {NextCall(r)} ELSE {}
    /\ Quiet => streamMessage = NoMsg /\ pendingToolCalls = {}

\* prompt() and continue() throw while a run is under way: two loops never run
\* side by side, and isStreaming is set for as long as one runs.
OneLoopAtATime ==
    \A r \in Runs : LoopLives(r) =>
        /\ isStreaming
        /\ \A q \in Runs \ {r} : ~LoopLives(q)

\* abort() reaches the loop that runs, and waitForIdle() waits for it.
HandlesReachLoop ==
    \A r \in Runs : Reading(r) => controller = r /\ running = r

\* waitForIdle() resolves: the promise of every run started is settled.
WaitForIdleResolves == \A r \in Runs : running = r ~> r \in settled
=============================================================================
