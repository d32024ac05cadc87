---------------------------- MODULE AgentProofs ----------------------------
(***************************************************************************)
(* Proofs about Agent, for any number of runs, turns, messages and calls.  *)
(*                                                                         *)
(* Types hold in every environment.  The rest assumes Disciplined clients: *)
(* no listener throws and none starts a run inside agent_end.  One         *)
(* invariant carries it: runs do not overlap (Exclusive); the context of   *)
(* the loop has the shape the loop gives it and is the transcript with     *)
(* what is under way (Core); queued messages arrive in order (Deliver);    *)
(* and the events under way lead to the agent's fields (Drain).            *)
(***************************************************************************)
EXTENDS Agent, SharedFacts, SequenceTheorems, TLAPS

-----------------------------------------------------------------------------
(* The sequences the loop pushes.                                          *)

LEMMA SeqFacts ==
    ASSUME NEW S, NEW s \in Seq(S), s # <<>>
    PROVE  /\ Head(s) \in S /\ Tail(s) \in Seq(S)
           /\ LastOf(s) \in S /\ ButLast(s) \in Seq(S) /\ Len(s) \in Nat \ {0}
    BY DEF LastOf, ButLast

LEMMA AppendLast ==
    ASSUME NEW S, NEW s \in Seq(S), NEW e \in S
    PROVE  Append(s, e) # <<>> /\ LastOf(Append(s, e)) = e
    BY DEF LastOf

LEMMA PrefixType ==
    ASSUME NEW S, NEW s \in Seq(S), NEW t \in Seq(S)
    PROVE  SubSeq(s, 1, Len(s) - Len(t)) \in Seq(S)
    OBVIOUS

LEMMA CatLen ==
    ASSUME NEW S, NEW s \in Seq(S), NEW t \in Seq(S)
    PROVE  Len(s \o t) = Len(s) + Len(t)
    OBVIOUS

LEMMA DequeuedType ==
    ASSUME NEW mode, NEW S, NEW q \in Seq(S)
    PROVE  Dequeued(mode, q) \in Seq(S) /\ Remaining(mode, q) \in Seq(S)
    BY DEF Dequeued, Remaining

LEMMA EventTypes ==
    /\ \A m \in Msgs : /\ Event("message_start", m) \in Events
                       /\ Event("message_end", m) \in Events
                       /\ Event("turn_end", m) \in Events
    /\ \A c \in CallIds : /\ CallEvent("tool_execution_start", c) \in Events
                          /\ CallEvent("tool_execution_end", c) \in Events
    /\ AgentEnd \in Events
    BY DEF Event, CallEvent, AgentEnd, Events

LEMMA EventParts ==
    ASSUME NEW e \in Events
    PROVE  /\ e.kind \in {"message_start", "message_end", "turn_end"} => e.msg \in Msgs
           /\ e.kind \in {"tool_execution_start", "tool_execution_end"} => e.call \in CallIds
           /\ e.kind = "agent_end" <=> e = AgentEnd
    BY DEF Events, AgentEnd

LEMMA AnnounceType ==
    ASSUME NEW s \in Seq(Msgs)
    PROVE  Announce(s) \in Seq(Events) /\ Len(Announce(s)) = 2 * Len(s)
<1>1. ASSUME NEW i \in 1..2 * Len(s) PROVE (i + 1) \div 2 \in 1..Len(s)
    BY <1>1, SMT
<1>2. \A i \in 1..2 * Len(s) :
         Event(IF i % 2 = 1 THEN "message_start" ELSE "message_end", s[(i + 1) \div 2]) \in Events
    BY <1>1, EventTypes
<1> QED
    BY <1>2 DEF Announce

LEMMA MsgTypes ==
    /\ \A i \in Inputs, via \in {"prompt", "steer", "followUp"} : User(via, i) \in UserMsgs
    /\ \A n \in Nat, k \in 0..MaxCalls, stop \in {"partial", "stop", "error", "aborted"} :
          Assistant(n, k, stop) \in AssistantMsgs
    /\ \A c \in CallIds, b \in BOOLEAN : ToolResult(c, b) \in ToolMsgs
    /\ \A m \in Msgs : m.role = "assistant" => m \in AssistantMsgs
    BY DEF User, UserMsgs, Assistant, AssistantMsgs, ToolResult, ToolMsgs, Msgs

LEMMA CallEndsType ==
    ASSUME NEW m \in ToolMsgs
    PROVE  CallEnds(m) \in Seq(Events) /\ Len(CallEnds(m)) = 3
<1> DEFINE one == <<m>>
           end == <<CallEvent("tool_execution_end", m.call)>>
           announced == Announce(one)
<1>1. m.call \in CallIds /\ one \in Seq(Msgs) /\ Len(one) = 1
    BY DEF ToolMsgs, Msgs
<1>2. end \in Seq(Events) /\ Len(end) = 1
    BY <1>1, EventTypes
<1> HIDE DEF one, end
<1>3. announced \in Seq(Events)
    BY <1>1, AnnounceType
<1>4. Len(announced) = 2 * Len(one)
    BY <1>1, AnnounceType
<1>5. CallEnds(m) = end \o announced
    BY DEF CallEnds, one, end
<1> HIDE DEF announced
<1>6. Len(announced) = 2
    BY <1>1, <1>3, <1>4
<1>7. end \o announced \in Seq(Events)
    BY <1>2, <1>3
<1>8. Len(end \o announced) = Len(end) + Len(announced)
    BY <1>2, <1>3, CatLen
<1> QED
    BY <1>2, <1>5, <1>6, <1>7, <1>8

LEMMA SkipEventsType ==
    ASSUME NEW s \in Seq(ToolMsgs)
    PROVE  SkipEvents(s) \in Seq(Events)
<1> DEFINE ev(i) == LET m == s[(i + 3) \div 4]
                        step == (i - 1) % 4 IN
                    IF step = 0 THEN CallEvent("tool_execution_start", m.call)
                    ELSE CallEnds(m)[step]
<1>1. ASSUME NEW i \in 1..4 * Len(s) PROVE ev(i) \in Events
    <2> DEFINE m == s[(i + 3) \div 4]
               step == (i - 1) % 4
               ends == CallEnds(m)
    <2>1. (i + 3) \div 4 \in 1..Len(s)
        BY <1>1, SMT
    <2>8. step \in 0..3
        BY <1>1, SMT
    <2>2. m \in ToolMsgs
        BY <2>1
    <2>3. ev(i) = IF step = 0 THEN CallEvent("tool_execution_start", m.call) ELSE ends[step]
        OBVIOUS
    <2> HIDE DEF m, step, ev
    <2>4. m.call \in CallIds
        BY <2>2 DEF ToolMsgs
    <2>5. ends \in Seq(Events) /\ Len(ends) = 3
        BY <2>2, CallEndsType
    <2>6. CASE step = 0
        BY <2>3, <2>4, <2>6, EventTypes
    <2>7. CASE step # 0
        <3>1. step \in 1..3
            BY <2>7, <2>8
        <3> HIDE DEF ends
        <3>2. ends[step] \in Events
            BY <2>5, <3>1, ElementOfSeq
        <3> QED
            BY <2>3, <2>7, <3>2
    <2> QED
        BY <2>6, <2>7
<1>2. SkipEvents(s) = [i \in 1..4 * Len(s) |-> ev(i)]
    BY DEF SkipEvents
<1> HIDE DEF ev
<1> QED
    BY <1>1, <1>2

-----------------------------------------------------------------------------
(* Type correctness.  A turn that has an answer has it last in its context.*)

Answered == \A r \in Runs :
    pc[r] \in {"answered", "tool", "toolDone"} => EndsWith(ctx[r], "assistant")

TypeInv == TypeOK /\ Answered

LEMMA PushType ==
    ASSUME TypeOK, NEW r \in Runs, NEW es \in Seq(Events), Push(r, es)
    PROVE  evq' \in [Runs -> Seq(Events)]
    BY DEF TypeOK, Push

LEMMA AnnounceUsers ==
    ASSUME NEW s \in Seq(UserMsgs)
    PROVE  s \in Seq(Msgs) /\ Announce(s) \in Seq(Events)
<1>1. s \in Seq(Msgs)
    BY DEF Msgs
<1> QED
    BY <1>1, AnnounceType

\* While tools run, the call that is next has a well-formed identifier.
LEMMA NextCallType ==
    ASSUME TypeInv, NEW r \in Runs, pc[r] \in {"answered", "tool", "toolDone"}
    PROVE  /\ ctx[r] \in Seq(Msgs) /\ ctx[r] # <<>>
           /\ LastOf(ctx[r]) \in AssistantMsgs
           /\ LastOf(ctx[r]) \in Msgs
           /\ NextCall(r) \in CallIds
<1>1. ctx[r] \in Seq(Msgs) /\ ctx[r] # <<>> /\ LastOf(ctx[r]).role = "assistant"
    BY DEF TypeInv, TypeOK, Answered, EndsWith
<1>2. LastOf(ctx[r]) \in Msgs
    BY <1>1, SeqFacts
<1>3. LastOf(ctx[r]) \in AssistantMsgs
    BY <1>1, <1>2, MsgTypes
<1>4. LastOf(ctx[r]).id \in Nat /\ Len(results[r]) \in Nat
    BY <1>3 DEF AssistantMsgs, TypeInv, TypeOK
<1> QED
    BY <1>1, <1>2, <1>3, <1>4 DEF NextCall, Call, CallIds

LEMMA SkippedType ==
    ASSUME TypeInv, NEW r \in Runs, pc[r] = "toolDone"
    PROVE  Skipped(r) \in Seq(ToolMsgs)
<1> DEFINE m == LastOf(ctx[r])
           n == m.calls
           result(i) == ToolResult(Call(m, i), TRUE)
           skip == [i \in 1..n |-> result(i)]
<1>1. n \in Nat /\ m.id \in Nat
    BY NextCallType, AgentAssumption DEF AssistantMsgs, AgentAssumption
<1>2. \A i \in 1..n : result(i) \in ToolMsgs
    <2> TAKE i \in 1..n
    <2>1. Call(m, i) \in CallIds
        BY <1>1 DEF Call, CallIds
    <2> QED
        BY <2>1, MsgTypes
<1>3. Skipped(r) = SubSeq(skip, Len(results[r]) + 1, n)
    BY DEF Skipped
<1>4. Len(results[r]) + 1 \in Nat \ {0}
    BY DEF TypeInv, TypeOK
<1> HIDE DEF n, result
<1>5. skip \in Seq(ToolMsgs) /\ Len(skip) = n
    BY <1>1, <1>2
<1> HIDE DEF skip
<1> QED
    BY <1>1, <1>3, <1>4, <1>5

LEMMA BeginRunType ==
    ASSUME TypeInv, NEW r \in Runs, NEW new \in Seq(UserMsgs), NEW skipPoll \in BOOLEAN,
           NEW sq \in Seq(UserMsgs), NEW fq \in Seq(UserMsgs),
           BeginRun(r, new, skipPoll, sq, fq),
           UNCHANGED <<turns, steered, followed>>, used' \subseteq Inputs
    PROVE  TypeInv'
<1>1. Announce(new) \in Seq(Events) /\ messages \o new \in Seq(Msgs)
    BY AnnounceUsers DEF TypeInv, TypeOK
<1>2. Dequeued(steeringMode, sq) \in Seq(UserMsgs) /\ Remaining(steeringMode, sq) \in Seq(UserMsgs)
    BY DequeuedType
<1> DEFINE polled == IF skipPoll THEN <<>> ELSE Dequeued(steeringMode, sq)
           left == IF skipPoll THEN sq ELSE Remaining(steeringMode, sq)
<1>a. polled \in Seq(UserMsgs) /\ left \in Seq(UserMsgs)
    BY <1>2
<1>b. pending' = [pending EXCEPT ![r] = polled] /\ steeringQueue' = left
    BY DEF BeginRun
<1> HIDE DEF polled, left
<1>3. TypeOK'
    <2>1. /\ cons' \in [Runs -> {"new", "reading", "exiting", "closed"}]
          /\ pc' \in [Runs -> {"new", "begin", "calling", "streaming", "answered", "tool",
                                "toolDone", "polled", "followUp", "ended", "crashed"}]
        BY DEF TypeInv, TypeOK, BeginRun, Goto
    <2>2. evq' \in [Runs -> Seq(Events)] /\ ctx' \in [Runs -> Seq(Msgs)]
        BY <1>1 DEF TypeInv, TypeOK, BeginRun
    <2>3. pending' \in [Runs -> Seq(UserMsgs)] /\ steeringQueue' \in Seq(UserMsgs)
        BY <1>a, <1>b DEF TypeInv, TypeOK
    <2> QED
        BY <2>1, <2>2, <2>3 DEF TypeInv, TypeOK, BeginRun
<1>4. Answered'
    BY DEF TypeInv, TypeOK, Answered, BeginRun, Goto
<1> QED
    BY <1>3, <1>4 DEF TypeInv

\* The client's calls.
LEMMA ClientType == TypeInv /\ Client => TypeInv'
<1> SUFFICES ASSUME TypeInv, Client PROVE TypeInv'
    OBVIOUS
<1>q. \A mode : /\ Dequeued(mode, steeringQueue) \in Seq(UserMsgs)
                /\ Remaining(mode, steeringQueue) \in Seq(UserMsgs)
                /\ Dequeued(mode, followUpQueue) \in Seq(UserMsgs)
                /\ Remaining(mode, followUpQueue) \in Seq(UserMsgs)
    BY DequeuedType DEF TypeInv, TypeOK
<1>1. ASSUME NEW r \in Runs, NEW i \in Inputs, Prompt(r, i) PROVE TypeInv'
    <2>1. <<User("prompt", i)>> \in Seq(UserMsgs)
        BY MsgTypes
    <2> QED
        BY <1>1, <2>1, BeginRunType DEF Prompt, TypeInv, TypeOK
<1>2. ASSUME NEW r \in Runs, ContinueFromContext(r) PROVE TypeInv'
    <2>1. <<>> \in Seq(UserMsgs)
        OBVIOUS
    <2> QED
        BY <1>2, <2>1, BeginRunType DEF ContinueFromContext, historyVars, TypeInv, TypeOK
<1>3. ASSUME NEW r \in Runs, ContinueFromQueue(r) PROVE TypeInv'
    <2>1. CASE BeginRun(r, Dequeued(steeringMode, steeringQueue), TRUE,
                        Remaining(steeringMode, steeringQueue), followUpQueue)
        BY <1>3, <1>q, <2>1, BeginRunType DEF ContinueFromQueue, historyVars, TypeInv, TypeOK
    <2>2. CASE BeginRun(r, Dequeued(followUpMode, followUpQueue), FALSE, <<>>,
                        Remaining(followUpMode, followUpQueue))
        <3>1. <<>> \in Seq(UserMsgs)
            OBVIOUS
        <3> QED
            BY <1>3, <1>q, <2>2, <3>1, BeginRunType
            DEF ContinueFromQueue, historyVars, TypeInv, TypeOK
    <2> QED
        BY <1>3, <2>1, <2>2 DEF ContinueFromQueue
<1>4. ASSUME NEW i \in Inputs, Steer(i) \/ FollowUp(i) PROVE TypeInv'
    <2>1. User("steer", i) \in UserMsgs /\ User("followUp", i) \in UserMsgs
        BY MsgTypes
    <2>2. CASE Steer(i)
        <3>1. steeringQueue' \in Seq(UserMsgs) /\ steered' \in Seq(UserMsgs) /\ used' \subseteq Inputs
            BY <2>1, <2>2 DEF Steer, TypeInv, TypeOK
        <3> QED
            BY <2>2, <3>1 DEF Steer, TypeInv, TypeOK, Answered, agentVars, handleVars, runVars
    <2>3. CASE FollowUp(i)
        <3>1. followUpQueue' \in Seq(UserMsgs) /\ followed' \in Seq(UserMsgs) /\ used' \subseteq Inputs
            BY <2>1, <2>3 DEF FollowUp, TypeInv, TypeOK
        <3> QED
            BY <2>3, <3>1 DEF FollowUp, TypeInv, TypeOK, Answered, agentVars, handleVars, runVars
    <2> QED
        BY <1>4, <2>2, <2>3
<1>5. ASSUME ClearSteeringQueue \/ ClearFollowUpQueue PROVE TypeInv'
    <2>1. /\ SubSeq(steered, 1, Len(steered) - Len(steeringQueue)) \in Seq(UserMsgs)
          /\ SubSeq(followed, 1, Len(followed) - Len(followUpQueue)) \in Seq(UserMsgs)
        BY PrefixType DEF TypeInv, TypeOK
    <2>2. CASE ClearSteeringQueue
        BY <2>1, <2>2 DEF ClearSteeringQueue, TypeInv, TypeOK, Answered,
                          agentVars, handleVars, runVars
    <2>3. CASE ClearFollowUpQueue
        BY SMTT(40), <2>1, <2>3 DEF ClearFollowUpQueue, TypeInv, TypeOK, Answered,
                          agentVars, handleVars, runVars
    <2> QED
        BY <1>5, <2>2, <2>3
<1>6. ASSUME SetQueueMode PROVE TypeInv'
    BY <1>6 DEF SetQueueMode, TypeInv, TypeOK, Answered,
                agentVars, handleVars, runVars, historyVars
<1>7. ASSUME Abort PROVE TypeInv'
    BY <1>7 DEF Abort, TypeInv, TypeOK, Answered,
                agentVars, queueVars, handleVars, historyVars
<1>8. ASSUME Reset PROVE TypeInv'
    <2>1. TypeOK'
        <3>1. <<>> \in Seq(Msgs) /\ <<>> \in Seq(UserMsgs)
            OBVIOUS
        <3> QED
            BY <1>8, <3>1 DEF Reset, TypeInv, TypeOK, handleVars, runVars
    <2>2. Answered'
        BY <1>8 DEF Reset, TypeInv, Answered, runVars
    <2> QED
        BY <2>1, <2>2 DEF TypeInv
<1>9. ASSUME DropLastAnswer PROVE TypeInv'
    <2>1. ButLast(messages) \in Seq(Msgs)
        BY <1>9, SeqFacts DEF DropLastAnswer, EndsWith, TypeInv, TypeOK
    <2> QED
        BY <1>9, <2>1 DEF DropLastAnswer, TypeInv, TypeOK, Answered,
                          queueVars, handleVars, runVars, historyVars
<1> QED
    BY <1>1, <1>2, <1>3, <1>4, <1>5, <1>6, <1>7, <1>8, <1>9 DEF Client

LEMMA PollType ==
    ASSUME TypeInv, NEW r \in Runs, PollSteering(r)
    PROVE  /\ pending' \in [Runs -> Seq(UserMsgs)]
           /\ steeringQueue' \in Seq(UserMsgs)
           /\ UNCHANGED <<followUpQueue, steeringMode, followUpMode>>
<1>1. /\ Dequeued(steeringMode, steeringQueue) \in Seq(UserMsgs)
      /\ Remaining(steeringMode, steeringQueue) \in Seq(UserMsgs)
    BY DequeuedType DEF TypeInv, TypeOK
<1> QED
    BY <1>1 DEF PollSteering, TypeInv, TypeOK

\* The steps of the loop.
LEMMA LoopType == ASSUME TypeInv, NEW r \in Runs, Loop(r) PROVE TypeInv'
<1> USE DEF Goto
<1>1. CASE BeginTurn(r)
    <2>1. Announce(pending[r]) \in Seq(Events) /\ ctx[r] \o pending[r] \in Seq(Msgs)
        BY AnnounceUsers DEF TypeInv, TypeOK
    <2>2. evq' \in [Runs -> Seq(Events)]
        BY <1>1, <2>1, PushType DEF BeginTurn, TypeInv
    <2>3. pending' \in [Runs -> Seq(UserMsgs)] /\ ctx' \in [Runs -> Seq(Msgs)]
        BY <1>1, <2>1 DEF BeginTurn, TypeInv, TypeOK
    <2>4. TypeOK'
        BY <1>1, <2>2, <2>3 DEF BeginTurn, TypeInv, TypeOK,
                                agentVars, queueVars, handleVars, historyVars
    <2>5. Answered'
        BY <1>1 DEF BeginTurn, TypeInv, TypeOK, Answered
    <2> QED
        BY <2>4, <2>5 DEF TypeInv
<1>2. CASE CallModel(r) \/ LoopThrows(r)
    BY <1>2 DEF CallModel, LoopThrows, TypeInv, TypeOK, Answered,
                agentVars, queueVars, handleVars, historyVars
<1>3. CASE StreamStart(r)
    <2> DEFINE partial == Assistant(turns + 1, 0, "partial")
    <2>1. partial \in Msgs
        BY AgentAssumption, MsgTypes DEF AgentAssumption, Msgs, TypeInv, TypeOK
    <2>2. /\ ctx' = [ctx EXCEPT ![r] = Append(ctx[r], partial)]
          /\ Push(r, <<Event("message_start", partial)>>)
        BY <1>3 DEF StreamStart, TypeInv, TypeOK
    <2> HIDE DEF partial
    <2>3. <<Event("message_start", partial)>> \in Seq(Events)
        BY <2>1, EventTypes
    <2>4. evq' \in [Runs -> Seq(Events)]
        BY <2>2, <2>3, PushType DEF TypeInv
    <2>5. ctx' \in [Runs -> Seq(Msgs)]
        BY <2>1, <2>2 DEF TypeInv, TypeOK
    <2>6. TypeOK'
        BY <1>3, <2>4, <2>5 DEF StreamStart, TypeInv, TypeOK,
                                agentVars, queueVars, handleVars, historyVars
    <2>7. Answered'
        BY <1>3, <2>2 DEF StreamStart, TypeInv, TypeOK, Answered
    <2> QED
        BY <2>6, <2>7 DEF TypeInv
<1>4. CASE StreamEnd(r)
    <2>1. PICK k \in 0..MaxCalls, stop \in {"stop", "error", "aborted"} :
             LET final == Assistant(turns + 1, k, stop) IN
             /\ ctx' = [ctx EXCEPT ![r] = Append(IF HasPartial(r) THEN ButLast(@) ELSE @, final)]
             /\ Push(r, IF HasPartial(r) THEN <<Event("message_end", final)>>
                                         ELSE Announce(<<final>>))
        BY <1>4 DEF StreamEnd
    <2> DEFINE final == Assistant(turns + 1, k, stop)
               one == <<final>>
               before == IF HasPartial(r) THEN ButLast(ctx[r]) ELSE ctx[r]
    <2>2. final \in Msgs
        BY MsgTypes DEF Msgs, TypeInv, TypeOK
    <2>3. final.role = "assistant"
        BY DEF Assistant
    <2>4. ctx' = [ctx EXCEPT ![r] = Append(before, final)]
        BY <2>1 DEF TypeInv, TypeOK
    <2>5. Push(r, IF HasPartial(r) THEN <<Event("message_end", final)>> ELSE Announce(one))
        BY <2>1
    <2>6. before \in Seq(Msgs)
        BY SeqFacts DEF HasPartial, EndsWith, TypeInv, TypeOK
    <2> HIDE DEF final, before
    <2>7. one \in Seq(Msgs) /\ <<Event("message_end", final)>> \in Seq(Events)
        BY <2>2, EventTypes
    <2> HIDE DEF one
    <2>8. Announce(one) \in Seq(Events)
        BY <2>7, AnnounceType
    <2>9. evq' \in [Runs -> Seq(Events)]
        BY <2>5, <2>7, <2>8, PushType DEF TypeInv
    <2>10. ctx' \in [Runs -> Seq(Msgs)]
        BY <2>2, <2>4, <2>6 DEF TypeInv, TypeOK
    <2> DEFINE after == Append(before, final)
    <2>16. after # <<>> /\ LastOf(after) = final
        BY <2>2, <2>6, AppendLast
    <2>17. ctx' = [ctx EXCEPT ![r] = after]
        BY <2>4
    <2> HIDE DEF after
    <2>11. EndsWith(after, "assistant")
        BY <2>3, <2>16 DEF EndsWith
    <2>18. /\ turns' = turns + 1
           /\ pc' = [pc EXCEPT ![r] = "answered"]
           /\ UNCHANGED <<agentVars, queueVars, handleVars, used, steered, followed,
                          cons, signal, pending, results>>
        BY <1>4 DEF StreamEnd
    <2>12. TypeOK'
        <3>1. turns' \in Nat /\ DOMAIN pc' = Runs
            BY <2>18 DEF TypeInv, TypeOK
        <3>2. TypeOK /\ UNCHANGED <<isStreaming, messages, streamMessage, pendingToolCalls,
                  error, steeringQueue, followUpQueue, steeringMode, followUpMode, controller,
                  running, settled, used, steered, followed, cons, signal, pending, results>>
            BY <2>18 DEF TypeInv, agentVars, queueVars, handleVars
        <3> QED
            BY <2>9, <2>10, <2>18, <3>1, <3>2 DEF TypeOK
    <2>13. ctx'[r] = after /\ \A q \in Runs \ {r} : ctx'[q] = ctx[q]
        BY <2>17 DEF TypeInv, TypeOK
    <2>14. pc' = [pc EXCEPT ![r] = "answered"]
        BY <1>4 DEF StreamEnd
    <2>15. Answered'
        BY <2>11, <2>13, <2>14 DEF TypeInv, TypeOK, Answered
    <2> QED
        BY <2>12, <2>15 DEF TypeInv
<1>5. CASE TurnFailed(r)
    <2>1. <<Event("turn_end", LastOf(ctx[r])), AgentEnd>> \in Seq(Events)
        BY <1>5, NextCallType, EventTypes DEF TurnFailed
    <2>2. evq' \in [Runs -> Seq(Events)]
        BY <1>5, <2>1, PushType DEF TurnFailed, TypeInv
    <2> QED
        BY <1>5, <2>2 DEF TurnFailed, TypeInv, TypeOK, Answered,
                          agentVars, queueVars, handleVars, historyVars
<1>6. CASE TurnWithoutTools(r)
    <2>1. <<Event("turn_end", LastOf(ctx[r]))>> \in Seq(Events)
        BY <1>6, NextCallType, EventTypes DEF TurnWithoutTools
    <2>2. evq' \in [Runs -> Seq(Events)]
        BY <1>6, <2>1, PushType DEF TurnWithoutTools, TypeInv
    <2> QED
        BY <1>6, <2>2, PollType DEF TurnWithoutTools, TypeInv, TypeOK, Answered,
                          agentVars, handleVars, historyVars
<1>7. CASE StartTool(r)
    <2>1. <<CallEvent("tool_execution_start", NextCall(r))>> \in Seq(Events)
        BY <1>7, NextCallType, EventTypes DEF StartTool
    <2>2. evq' \in [Runs -> Seq(Events)]
        BY <1>7, <2>1, PushType DEF StartTool, TypeInv
    <2> QED
        BY <1>7, <2>2 DEF StartTool, TypeInv, TypeOK, Answered,
                          agentVars, queueVars, handleVars, historyVars
<1>8. CASE FinishTool(r)
    <2> DEFINE result == ToolResult(NextCall(r), FALSE)
    <2>1. result \in ToolMsgs
        BY <1>8, NextCallType, MsgTypes DEF FinishTool
    <2>2. CallEnds(result) \in Seq(Events)
        BY <2>1, CallEndsType
    <2>3. evq' \in [Runs -> Seq(Events)]
        BY <1>8, <2>2, PushType DEF FinishTool, TypeInv
    <2>4. results' = [results EXCEPT ![r] = Append(@, result)]
        BY <1>8 DEF FinishTool
    <2> HIDE DEF result
    <2>5. results' \in [Runs -> Seq(ToolMsgs)]
        BY <2>1, <2>4 DEF TypeInv, TypeOK
    <2> QED
        BY <1>8, <2>3, <2>5, PollType DEF FinishTool, TypeInv, TypeOK, Answered,
                          agentVars, handleVars, historyVars
<1>9. CASE EndTools(r)
    <2>1. Skipped(r) \in Seq(ToolMsgs)
        BY <1>9, SkippedType DEF EndTools
    <2>2. /\ ctx[r] \o results[r] \o Skipped(r) \in Seq(Msgs)
          /\ LastOf(ctx[r]) \in Msgs
        <3>1. \A s \in Seq(ToolMsgs) : s \in Seq(Msgs)
            BY DEF Msgs
        <3>2. results[r] \in Seq(Msgs) /\ Skipped(r) \in Seq(Msgs) /\ ctx[r] \in Seq(Msgs)
            BY <2>1, <3>1 DEF TypeInv, TypeOK
        <3>3. ctx[r] \o results[r] \in Seq(Msgs)
            BY <3>2
        <3> QED
            BY <1>9, <3>2, <3>3, NextCallType DEF EndTools
    <2>3. Append(SkipEvents(Skipped(r)), Event("turn_end", LastOf(ctx[r]))) \in Seq(Events)
        BY <2>1, <2>2, SkipEventsType, EventTypes
    <2>4. evq' \in [Runs -> Seq(Events)]
        BY <1>9, <2>3, PushType DEF EndTools, TypeInv
    <2>5. /\ pending' \in [Runs -> Seq(UserMsgs)]
          /\ steeringQueue' \in Seq(UserMsgs)
          /\ UNCHANGED <<followUpQueue, steeringMode, followUpMode>>
        BY <1>9, PollType DEF EndTools, queueVars, TypeInv, TypeOK
    <2>6. ctx' = [ctx EXCEPT ![r] = ctx[r] \o results[r] \o Skipped(r)]
        BY <1>9 DEF EndTools, TypeInv, TypeOK
    <2>7. ctx' \in [Runs -> Seq(Msgs)]
        BY <2>2, <2>6 DEF TypeInv, TypeOK
    <2>10. results' \in [Runs -> Seq(ToolMsgs)]
        BY <1>9 DEF EndTools, TypeInv, TypeOK
    <2>8. TypeOK'
        BY <1>9, <2>4, <2>5, <2>7, <2>10
        DEF EndTools, TypeInv, TypeOK, agentVars, handleVars, historyVars
    <2>9. Answered'
        BY <1>9, <2>6 DEF EndTools, TypeInv, TypeOK, Answered
    <2> QED
        BY <2>8, <2>9 DEF TypeInv
<1>10. CASE PollFollowUp(r)
    <2>1. /\ Dequeued(followUpMode, followUpQueue) \in Seq(UserMsgs)
          /\ Remaining(followUpMode, followUpQueue) \in Seq(UserMsgs)
        BY DequeuedType DEF TypeInv, TypeOK
    <2> QED
        BY <1>10, <2>1 DEF PollFollowUp, TypeInv, TypeOK, Answered,
                           agentVars, handleVars, historyVars
<1>11. CASE EndLoop(r)
    <2>1. <<AgentEnd>> \in Seq(Events)
        BY EventTypes
    <2>2. evq' \in [Runs -> Seq(Events)]
        BY <1>11, <2>1, PushType DEF EndLoop, TypeInv
    <2> QED
        BY <1>11, <2>2 DEF EndLoop, TypeInv, TypeOK, Answered,
                           agentVars, queueVars, handleVars, historyVars
<1> QED
    BY <1>1, <1>2, <1>3, <1>4, <1>5, <1>6, <1>7, <1>8, <1>9, <1>10, <1>11 DEF Loop

\* The steps of the consumer.
LEMMA ConsumerType == ASSUME TypeInv, NEW r \in Runs, Consumer(r) PROVE TypeInv'
<1>1. CASE Consume(r)
    <2> DEFINE e == Head(evq[r])
    <2>1. e \in Events /\ Tail(evq[r]) \in Seq(Events)
        BY <1>1, SeqFacts DEF Consume, TypeInv, TypeOK
    <2>2. OnEvent(e)
        BY <1>1 DEF Consume
    <2>3. evq' = [evq EXCEPT ![r] = Tail(evq[r])]
        BY <1>1 DEF Consume, TypeInv, TypeOK
    <2> HIDE DEF e
    <2>4. streamMessage' \in Msgs \cup {NoMsg}
        BY <2>1, <2>2, EventParts DEF OnEvent, TypeInv, TypeOK
    <2>5. messages' \in Seq(Msgs)
        BY <2>1, <2>2, EventParts DEF OnEvent, TypeInv, TypeOK
    <2>6. pendingToolCalls' \subseteq CallIds
        BY <2>1, <2>2, EventParts DEF OnEvent, TypeInv, TypeOK
    <2>7. error' \in BOOLEAN /\ isStreaming' \in BOOLEAN
        BY <2>2 DEF OnEvent, TypeInv, TypeOK
    <2> QED
        BY <1>1, <2>1, <2>3, <2>4, <2>5, <2>6, <2>7
        DEF Consume, TypeInv, TypeOK, Answered, queueVars, handleVars, historyVars
<1>2. CASE Close(r)
    BY <1>2 DEF Close, Finally, TypeInv, TypeOK, Answered, queueVars, historyVars
<1>3. CASE ListenerThrows(r)
    <2> DEFINE e == Head(evq[r])
               stop == IF controller # NoRun /\ signal[controller] THEN "aborted" ELSE "error"
    <2>1. e \in Events
        BY <1>3, SeqFacts DEF ListenerThrows, TypeInv, TypeOK
    <2>2. Assistant(0, 0, stop) \in Msgs
        BY AgentAssumption, MsgTypes DEF AgentAssumption, Msgs
    <2>3. messages' = Append(IF e.kind = "message_end" THEN Append(messages, e.msg)
                             ELSE messages, Assistant(0, 0, stop))
        BY <1>3 DEF ListenerThrows
    <2> HIDE DEF e, stop
    <2>4. messages' \in Seq(Msgs)
        BY SMTT(40), <2>1, <2>2, <2>3, EventParts DEF TypeInv, TypeOK
    <2>7. evq' \in [Runs -> Seq(Events)]
        BY <1>3 DEF ListenerThrows, TypeInv, TypeOK
    <2>5. TypeOK'
        BY <1>3, <2>4, <2>7 DEF ListenerThrows, Finally, TypeInv, TypeOK, queueVars, historyVars
    <2>6. Answered'
        BY <1>3 DEF ListenerThrows, TypeInv, Answered
    <2> QED
        BY <2>5, <2>6 DEF TypeInv
<1> QED
    BY <1>1, <1>2, <1>3 DEF Consumer

LEMMA InitType == Init => TypeInv
<1> SUFFICES ASSUME Init PROVE TypeInv
    OBVIOUS
<1>1. TypeOK
    <2>1. \A S : <<>> \in Seq(S)
        OBVIOUS
    <2>2. ctx \in [Runs -> Seq(Msgs)] /\ evq \in [Runs -> Seq(Events)]
        BY <2>1 DEF Init
    <2>3. pending \in [Runs -> Seq(UserMsgs)] /\ results \in [Runs -> Seq(ToolMsgs)]
        BY <2>1 DEF Init
    <2> QED
        BY <2>1, <2>2, <2>3 DEF Init, TypeOK
<1>2. Answered
    BY DEF Init, Answered
<1> QED
    BY <1>1, <1>2 DEF TypeInv

LEMMA NextType == TypeInv /\ [Next]_vars => TypeInv'
<1> SUFFICES ASSUME TypeInv, [Next]_vars PROVE TypeInv'
    OBVIOUS
<1>1. CASE Client
    BY <1>1, ClientType
<1>2. CASE \E r \in Runs : Loop(r) \/ Consumer(r)
    BY <1>2, LoopType, ConsumerType
<1>3. CASE UNCHANGED vars
    BY <1>3 DEF TypeInv, TypeOK, Answered, vars, agentVars, queueVars, handleVars,
                runVars, historyVars
<1> QED
    BY <1>1, <1>2, <1>3 DEF Next

\* Every field of Agent (agent.ts) and every variable of its loop (agent-loop.ts)
\* holds only values the code can store in it, whatever the environment does.
THEOREM TypeCorrect == Spec => []TypeOK
<1>1. TypeInv => TypeOK
    BY DEF TypeInv
<1> QED
    BY <1>1, InitType, NextType, PTL DEF Spec

-----------------------------------------------------------------------------
(* Runs do not overlap, and abort() and waitForIdle() reach the one that   *)
(* is under way.  A loop that lives is read, and has not announced its end;*)
(* so the end it announces closes no loop but its own.                     *)

Disciplined == Environment \cap {"nested", "listener"} = {}

Open(r) == cons[r] \in {"reading", "exiting"}
NoEnd(s) == \A i \in 1..Len(s) : s[i].kind # "agent_end"

Exclusive ==
    /\ \A r, q \in Runs : Open(r) /\ Open(q) => r = q
    /\ \A r \in Runs : Reading(r) => isStreaming /\ controller = r /\ running = r
    /\ \A r \in Runs : LoopLives(r) => Reading(r) /\ NoEnd(evq[r])

LEMMA NoEndConcat ==
    ASSUME NEW S, NEW s \in Seq(S), NEW t \in Seq(S), NoEnd(s), NoEnd(t)
    PROVE  NoEnd(s \o t)
    BY DEF NoEnd

LEMMA NoEndAnnounce == ASSUME NEW s \in Seq(Msgs) PROVE NoEnd(Announce(s))
<1>1. Len(Announce(s)) = 2 * Len(s)
    BY AnnounceType
<1>2. \A i \in 1..2 * Len(s) : Announce(s)[i].kind # "agent_end"
    BY DEF Announce, Event
<1> QED
    BY <1>1, <1>2 DEF NoEnd

LEMMA NoEndCallEnds == ASSUME NEW m \in ToolMsgs PROVE NoEnd(CallEnds(m))
<1> DEFINE one == <<m>>
           end == <<CallEvent("tool_execution_end", m.call)>>
<1>1. m.call \in CallIds /\ one \in Seq(Msgs)
    BY DEF ToolMsgs, Msgs
<1>2. end \in Seq(Events) /\ NoEnd(end)
    <2>1. Len(end) = 1 /\ end[1].kind = "tool_execution_end"
        BY DEF CallEvent
    <2>2. end \in Seq(Events)
        BY <1>1, EventTypes
    <2> HIDE DEF end
    <2> QED
        BY <2>1, <2>2 DEF NoEnd
<1>3. CallEnds(m) = end \o Announce(one)
    BY DEF CallEnds
<1> HIDE DEF one, end
<1>4. Announce(one) \in Seq(Events) /\ NoEnd(Announce(one))
    BY <1>1, AnnounceType, NoEndAnnounce
<1> QED
    BY <1>2, <1>3, <1>4, NoEndConcat

LEMMA NoEndSkipEvents == ASSUME NEW s \in Seq(ToolMsgs) PROVE NoEnd(SkipEvents(s))
<1>1. ASSUME NEW i \in 1..4 * Len(s) PROVE SkipEvents(s)[i].kind # "agent_end"
    <2> DEFINE m == s[(i + 3) \div 4]
               step == (i - 1) % 4
    <2>1. (i + 3) \div 4 \in 1..Len(s) /\ step \in 0..3
        BY <1>1, SMT
    <2>2. m \in ToolMsgs
        BY <2>1
    <2>3. SkipEvents(s)[i] = IF step = 0 THEN CallEvent("tool_execution_start", m.call)
                             ELSE CallEnds(m)[step]
        BY DEF SkipEvents
    <2> HIDE DEF m, step
    <2>4. \A k \in 1..3 : CallEnds(m)[k].kind # "agent_end"
        BY <2>2, CallEndsType, NoEndCallEnds DEF NoEnd
    <2>5. CASE step = 0
        BY <2>3, <2>5 DEF CallEvent
    <2>6. CASE step # 0
        BY <2>1, <2>3, <2>4, <2>6
    <2> QED
        BY <2>5, <2>6
<1>2. Len(SkipEvents(s)) = 4 * Len(s)
    BY DEF SkipEvents
<1> QED
    BY <1>1, <1>2 DEF NoEnd

\* A step of a loop that lives on, or ends by announcing it.
LEMMA ExclusiveLoop ==
    ASSUME TypeInv, Exclusive, NEW r \in Runs, LoopLives(r),
           UNCHANGED <<cons, isStreaming, controller, running>>,
           NEW label, pc' = [pc EXCEPT ![r] = label],
           NEW es \in Seq(Events), Push(r, es) \/ (es = <<>> /\ UNCHANGED evq),
           label = "ended" \/ NoEnd(es)
    PROVE  Exclusive'
<1>1. Reading(r) /\ NoEnd(evq[r]) /\ evq[r] \in Seq(Events)
    BY DEF Exclusive, TypeInv, TypeOK
<1>2. evq'[r] = evq[r] \o es /\ \A q \in Runs \ {r} : evq'[q] = evq[q]
    <2>1. CASE Push(r, es)
        BY <1>1, <2>1 DEF Push, Reading, TypeInv, TypeOK
    <2>2. CASE es = <<>> /\ UNCHANGED evq
        <3>1. evq[r] \o <<>> = evq[r]
            BY <1>1
        <3> QED
            BY <2>2, <3>1
    <2> QED
        BY <2>1, <2>2
<1>3. label # "ended" => NoEnd(evq'[r])
    BY <1>1, <1>2, NoEndConcat
<1>4. pc'[r] = label /\ \A q \in Runs \ {r} : pc'[q] = pc[q]
    BY DEF TypeInv, TypeOK
<1>5. ASSUME NEW q \in Runs, LoopLives(q)' PROVE Reading(q)' /\ NoEnd(evq'[q])
    BY <1>1, <1>2, <1>3, <1>4, <1>5 DEF Exclusive, LoopLives, Reading
<1>6. /\ \A p, q \in Runs : Open(p)' /\ Open(q)' => p = q
      /\ \A q \in Runs : Reading(q)' => isStreaming' /\ controller' = q /\ running' = q
    BY DEF Exclusive, Open, Reading
<1>7. \A q \in Runs : NoEnd(evq'[q]) = NoEnd(evq[q])'
    BY DEF NoEnd
<1> QED
    BY <1>5, <1>6, <1>7 DEF Exclusive

LEMMA ExclusiveBegin ==
    ASSUME TypeInv, Exclusive, Disciplined, ~isStreaming, MayStart,
           NEW r \in Runs, NEW new \in Seq(UserMsgs), NEW skipPoll, NEW sq, NEW fq,
           BeginRun(r, new, skipPoll, sq, fq)
    PROVE  Exclusive'
<1>1. \A q \in Runs : ~Open(q)
    BY DEF Exclusive, Disciplined, MayStart, Open, Reading
<1>2. \A q \in Runs : ~LoopLives(q)
    BY <1>1 DEF Exclusive, Open, Reading
<1>3. NoEnd(evq'[r])
    <2>1. evq'[r] = Announce(new)
        BY DEF BeginRun, TypeInv, TypeOK
    <2> QED
        BY <2>1, AnnounceUsers, NoEndAnnounce
<1>4. /\ isStreaming' /\ controller' = r /\ running' = r
      /\ cons'[r] = "reading" /\ \A q \in Runs \ {r} : cons'[q] = cons[q]
      /\ \A q \in Runs \ {r} : pc'[q] = pc[q]
    BY DEF BeginRun, Goto, TypeInv, TypeOK
<1>5. \A q \in Runs : /\ Open(q)' <=> q = r
                      /\ Reading(q)' => q = r
                      /\ LoopLives(q)' => q = r
    BY <1>1, <1>2, <1>4 DEF Open, Reading, LoopLives
<1>6. Reading(r)' /\ NoEnd(evq[r])'
    BY <1>3, <1>4 DEF Reading, NoEnd
<1> QED
    BY <1>4, <1>5, <1>6 DEF Exclusive

LEMMA ExclusiveClient == TypeInv /\ Exclusive /\ Disciplined /\ Client => Exclusive'
<1> SUFFICES ASSUME TypeInv, Exclusive, Disciplined, Client PROVE Exclusive'
    OBVIOUS
<1>q. \A mode : /\ Dequeued(mode, steeringQueue) \in Seq(UserMsgs)
                /\ Dequeued(mode, followUpQueue) \in Seq(UserMsgs)
    BY DequeuedType DEF TypeInv, TypeOK
<1>1. ASSUME NEW r \in Runs, NEW i \in Inputs, Prompt(r, i) PROVE Exclusive'
    <2>1. <<User("prompt", i)>> \in Seq(UserMsgs)
        BY MsgTypes
    <2> QED
        BY <1>1, <2>1, ExclusiveBegin DEF Prompt
<1>2. ASSUME NEW r \in Runs, ContinueFromContext(r) PROVE Exclusive'
    <2>1. <<>> \in Seq(UserMsgs)
        OBVIOUS
    <2> QED
        BY <1>2, <2>1, ExclusiveBegin DEF ContinueFromContext
<1>3. ASSUME NEW r \in Runs, ContinueFromQueue(r) PROVE Exclusive'
    BY <1>3, <1>q, ExclusiveBegin DEF ContinueFromQueue
<1>4. ASSUME \/ \E i \in Inputs : Steer(i) \/ FollowUp(i)
             \/ ClearSteeringQueue \/ ClearFollowUpQueue \/ SetQueueMode
             \/ Abort \/ DropLastAnswer
      PROVE Exclusive'
    <2>1. UNCHANGED <<isStreaming, controller, running, cons, evq, pc>>
        BY <1>4 DEF Steer, FollowUp, ClearSteeringQueue, ClearFollowUpQueue, SetQueueMode,
                    Abort, DropLastAnswer, agentVars, handleVars, runVars
    <2> QED
        BY <2>1 DEF Exclusive, Open, Reading, LoopLives, NoEnd
<1>5. ASSUME Reset PROVE Exclusive'
    <2>1. UNCHANGED <<cons, evq, pc>> /\ \A r \in Runs : ~Open(r)
        BY <1>5 DEF Reset, Quiet, Open, runVars
    <2> QED
        BY <2>1 DEF Exclusive, Open, Reading, LoopLives, NoEnd
<1> QED
    BY <1>1, <1>2, <1>3, <1>4, <1>5 DEF Client

LEMMA ExclusiveConsumer ==
    ASSUME TypeInv, Exclusive, Disciplined, NEW r \in Runs, Consumer(r)
    PROVE  Exclusive'
<1>1. CASE Consume(r)
    <2> DEFINE e == Head(evq[r])
    <2>1. evq[r] \in Seq(Events) /\ evq[r] # <<>> /\ Reading(r) /\ Open(r)
        BY <1>1 DEF Consume, Reading, Open, TypeInv, TypeOK
    <2>2. e = evq[r][1] /\ e \in Events /\ 1 \in 1..Len(evq[r])
        BY <2>1
    <2>3. /\ isStreaming' = (isStreaming /\ e.kind # "agent_end")
          /\ evq' = [evq EXCEPT ![r] = Tail(evq[r])]
          /\ cons' = [cons EXCEPT ![r] = IF e = AgentEnd THEN "exiting" ELSE cons[r]]
          /\ UNCHANGED <<controller, running, pc>>
        BY <1>1 DEF Consume, OnEvent, handleVars, TypeInv, TypeOK
    <2>4. \A q \in Runs \ {r} : ~Open(q) /\ ~Reading(q) /\ ~LoopLives(q)
        BY <2>1 DEF Exclusive, Open, Reading
    <2>5. \A q \in Runs : LoopLives(q)' <=> LoopLives(q)
        BY <2>3 DEF LoopLives
    <2>6. \A q \in Runs \ {r} : ~Open(q)' /\ ~Reading(q)' /\ ~LoopLives(q)'
        BY <2>3, <2>4, <2>5 DEF Open, Reading, TypeInv, TypeOK
    <2>7. CASE e = AgentEnd
        <3>1. e.kind = "agent_end" /\ ~LoopLives(r)
            BY <2>2, <2>7, EventParts DEF Exclusive, NoEnd
        <3>2. ~Reading(r)' /\ ~LoopLives(r)'
            BY <2>3, <2>5, <2>7, <3>1 DEF Reading, TypeInv, TypeOK
        <3> QED
            BY <2>6, <3>2 DEF Exclusive
    <2>8. CASE e # AgentEnd
        <3>1. e.kind # "agent_end"
            BY <2>2, <2>8, EventParts
        <3>2. isStreaming' /\ controller' = r /\ running' = r /\ Reading(r)'
            BY <2>1, <2>3, <2>8, <3>1 DEF Exclusive, Reading, TypeInv, TypeOK
        <3>3. NoEnd(evq[r]) => NoEnd(Tail(evq[r]))
            BY <2>1 DEF NoEnd
        <3>4. evq'[r] = Tail(evq[r])
            BY <2>3 DEF TypeInv, TypeOK
        <3>5. LoopLives(r)' => NoEnd(evq[r])'
            BY <2>5, <3>3, <3>4 DEF Exclusive, NoEnd
        <3> QED
            BY <2>6, <3>2, <3>5 DEF Exclusive
    <2> QED
        BY <2>7, <2>8
<1>2. CASE Close(r)
    <2>1. Open(r) /\ ~Reading(r)
        BY <1>2 DEF Close, Open, Reading
    <2>2. \A q \in Runs : ~Reading(q) /\ ~LoopLives(q)
        BY <2>1 DEF Exclusive, Open, Reading
    <2>3. \A q \in Runs : ~Open(q)' /\ ~Reading(q)' /\ ~LoopLives(q)'
        BY <1>2, <2>1, <2>2 DEF Close, Finally, Exclusive, Open, Reading, LoopLives, TypeInv, TypeOK
    <2> QED
        BY <2>3 DEF Exclusive
<1>3. CASE ListenerThrows(r)
    BY <1>3 DEF ListenerThrows, Disciplined
<1> QED
    BY <1>1, <1>2, <1>3 DEF Consumer

LEMMA ExclusiveLoopStep ==
    ASSUME TypeInv, Exclusive, NEW r \in Runs, Loop(r)
    PROVE  Exclusive'
<1> USE DEF Goto
<1>e. <<>> \in Seq(Events) /\ NoEnd(<<>>)
    BY DEF NoEnd
<1>1. CASE BeginTurn(r)
    <2>1. LoopLives(r)
        BY <1>1 DEF BeginTurn, EntersTurn, LoopLives
    <2>2. Announce(pending[r]) \in Seq(Events) /\ NoEnd(Announce(pending[r]))
        BY AnnounceUsers, NoEndAnnounce DEF TypeInv, TypeOK
    <2> QED
        BY <1>1, <2>1, <2>2, ExclusiveLoop DEF BeginTurn, agentVars, handleVars
<1>2. CASE CallModel(r) \/ LoopThrows(r)
    BY <1>2, <1>e, ExclusiveLoop DEF CallModel, LoopThrows, LoopLives, agentVars, handleVars
<1>3. CASE StreamStart(r)
    <2> DEFINE es == <<Event("message_start", Assistant(turns + 1, 0, "partial"))>>
    <2>1. LoopLives(r) /\ Push(r, es)
        BY <1>3 DEF StreamStart, LoopLives
    <2>2. es \in Seq(Events)
        BY AgentAssumption, MsgTypes, EventTypes DEF AgentAssumption, Msgs, TypeInv, TypeOK
    <2>3. NoEnd(es)
        BY DEF NoEnd, Event
    <2>4. pc' = [pc EXCEPT ![r] = pc[r]] /\ UNCHANGED <<cons, isStreaming, controller, running>>
        BY <1>3 DEF StreamStart, agentVars, handleVars, TypeInv, TypeOK
    <2> HIDE DEF es
    <2> QED
        BY <2>1, <2>2, <2>3, <2>4, ExclusiveLoop
<1>4. CASE StreamEnd(r)
    <2>1. PICK k \in 0..MaxCalls, stop \in {"stop", "error", "aborted"} :
             LET final == Assistant(turns + 1, k, stop) IN
             Push(r, IF HasPartial(r) THEN <<Event("message_end", final)>>
                                      ELSE Announce(<<final>>))
        BY <1>4 DEF StreamEnd
    <2> DEFINE final == Assistant(turns + 1, k, stop)
               one == <<final>>
               end == <<Event("message_end", final)>>
               es == IF HasPartial(r) THEN end ELSE Announce(one)
    <2>2. final \in Msgs
        BY MsgTypes DEF Msgs, TypeInv, TypeOK
    <2>3. Push(r, es)
        BY <2>1
    <2> HIDE DEF final
    <2>4. one \in Seq(Msgs) /\ end \in Seq(Events)
        BY <2>2, EventTypes
    <2>5. NoEnd(end)
        BY DEF NoEnd, Event
    <2> HIDE DEF one, end
    <2>6. es \in Seq(Events) /\ NoEnd(es)
        BY <2>4, <2>5, AnnounceType, NoEndAnnounce
    <2>7. /\ LoopLives(r) /\ pc' = [pc EXCEPT ![r] = "answered"]
          /\ UNCHANGED <<cons, isStreaming, controller, running>>
        BY <1>4 DEF StreamEnd, LoopLives, agentVars, handleVars
    <2> HIDE DEF es
    <2> QED
        BY <2>3, <2>6, <2>7, ExclusiveLoop
<1>5. CASE TurnFailed(r)
    <2>1. <<Event("turn_end", LastOf(ctx[r])), AgentEnd>> \in Seq(Events)
        BY <1>5, NextCallType, EventTypes DEF TurnFailed
    <2> QED
        BY <1>5, <2>1, ExclusiveLoop DEF TurnFailed, LoopLives, agentVars, handleVars
<1>6. CASE TurnWithoutTools(r)
    <2> DEFINE es == <<Event("turn_end", LastOf(ctx[r]))>>
    <2>1. es \in Seq(Events)
        BY <1>6, NextCallType, EventTypes DEF TurnWithoutTools
    <2>2. NoEnd(es)
        BY DEF NoEnd, Event
    <2>3. Push(r, es) /\ LoopLives(r)
        BY <1>6 DEF TurnWithoutTools, LoopLives
    <2> HIDE DEF es
    <2> QED
        BY <1>6, <2>1, <2>2, <2>3, ExclusiveLoop DEF TurnWithoutTools, agentVars, handleVars
<1>7. CASE StartTool(r)
    <2> DEFINE es == <<CallEvent("tool_execution_start", NextCall(r))>>
    <2>1. es \in Seq(Events)
        BY <1>7, NextCallType, EventTypes DEF StartTool
    <2>2. NoEnd(es)
        BY DEF NoEnd, CallEvent
    <2>3. Push(r, es) /\ LoopLives(r)
        BY <1>7 DEF StartTool, LoopLives
    <2> HIDE DEF es
    <2> QED
        BY <1>7, <2>1, <2>2, <2>3, ExclusiveLoop DEF StartTool, agentVars, handleVars
<1>8. CASE FinishTool(r)
    <2>1. ToolResult(NextCall(r), FALSE) \in ToolMsgs
        BY <1>8, NextCallType, MsgTypes DEF FinishTool
    <2>2. /\ CallEnds(ToolResult(NextCall(r), FALSE)) \in Seq(Events)
          /\ NoEnd(CallEnds(ToolResult(NextCall(r), FALSE)))
        BY <2>1, CallEndsType, NoEndCallEnds
    <2> QED
        BY <1>8, <2>2, ExclusiveLoop DEF FinishTool, LoopLives, agentVars, handleVars
<1>9. CASE EndTools(r)
    <2> DEFINE skips == SkipEvents(Skipped(r))
               end == Event("turn_end", LastOf(ctx[r]))
               es == Append(skips, end)
    <2>1. skips \in Seq(Events) /\ NoEnd(skips)
        BY <1>9, SkippedType, SkipEventsType, NoEndSkipEvents DEF EndTools
    <2>2. end \in Events /\ end.kind # "agent_end"
        BY <1>9, NextCallType, EventTypes DEF EndTools, Event
    <2>3. Push(r, es) /\ LoopLives(r)
        BY <1>9 DEF EndTools, LoopLives
    <2> HIDE DEF skips, end
    <2>4. es \in Seq(Events) /\ NoEnd(es)
        BY <2>1, <2>2 DEF NoEnd
    <2> HIDE DEF es
    <2> QED
        BY <1>9, <2>3, <2>4, ExclusiveLoop DEF EndTools, agentVars, handleVars
<1>10. CASE PollFollowUp(r)
    BY <1>10, <1>e, ExclusiveLoop DEF PollFollowUp, LoopLives, agentVars, handleVars
<1>11. CASE EndLoop(r)
    <2>1. <<AgentEnd>> \in Seq(Events)
        BY EventTypes
    <2> QED
        BY <1>11, <2>1, ExclusiveLoop DEF EndLoop, LoopLives, agentVars, handleVars
<1> QED
    BY <1>1, <1>2, <1>3, <1>4, <1>5, <1>6, <1>7, <1>8, <1>9, <1>10, <1>11 DEF Loop

LEMMA ExclusiveNext ==
    ASSUME TypeInv, Exclusive, Disciplined, [Next]_vars
    PROVE  Exclusive'
<1>1. CASE Client
    BY <1>1, ExclusiveClient
<1>2. CASE \E r \in Runs : Loop(r) \/ Consumer(r)
    BY <1>2, ExclusiveLoopStep, ExclusiveConsumer
<1>3. CASE UNCHANGED vars
    BY <1>3 DEF Exclusive, Open, Reading, LoopLives, NoEnd,
                vars, agentVars, handleVars, runVars
<1> QED
    BY <1>1, <1>2, <1>3 DEF Next

-----------------------------------------------------------------------------
(* The messages that a sequence of events carries.                         *)

LEMMA EndsFacts ==
    ASSUME NEW q \in Seq(Events)
    PROVE  Below(Ends(q), Len(q)) /\ Holds([i \in Ends(q) |-> q[i].msg], Ends(q), Msgs)
<1>1. ASSUME NEW i \in Ends(q) PROVE q[i].msg \in Msgs
    <2>1. q[i] \in Events /\ q[i].kind = "message_end"
        BY DEF Ends
    <2> QED
        BY <2>1, EventParts
<1> QED
    BY <1>1 DEF Below, Holds, Ends

LEMMA CarriedType == ASSUME NEW q \in Seq(Events) PROVE Carried(q) \in Seq(Msgs)
<1>1. Len(q) \in Nat
    OBVIOUS
<1> QED
    BY <1>1, EndsFacts, PickedType DEF Carried

LEMMA CarriedConcat ==
    ASSUME NEW q \in Seq(Events), NEW t \in Seq(Events)
    PROVE  Carried(Cat(q, t)) = Cat(Carried(q), Carried(t))
<1> DEFINE both == q \o t
           v == [i \in Ends(q) |-> q[i].msg]
           w == [i \in Ends(t) |-> t[i].msg]
           x == [i \in Ends(both) |-> both[i].msg]
<1>1. Len(q) \in Nat /\ Len(t) \in Nat /\ Len(both) = Len(q) + Len(t)
    OBVIOUS
<1>2. /\ \A i \in 1..Len(q) : both[i] = q[i] /\ i \in 1..Len(both)
      /\ \A j \in 1..Len(t) : both[Len(q) + j] = t[j] /\ Len(q) + j \in 1..Len(both)
    OBVIOUS
<1>3. \A k \in 1..Len(both) : k \in 1..Len(q) \/ \E j \in 1..Len(t) : k = Len(q) + j
    <2> TAKE k \in 1..Len(both)
    <2>1. k \in 1..Len(q) \/ (k - Len(q) \in 1..Len(t) /\ k = Len(q) + (k - Len(q)))
        BY <1>1
    <2> QED
        BY <2>1
<1> HIDE DEF both
<1>4. Ends(both) = Ends(q) \cup {Len(q) + j : j \in Ends(t)}
    <2>1. ASSUME NEW k \in Ends(both) PROVE k \in Ends(q) \/ \E j \in Ends(t) : k = Len(q) + j
        <3>1. k \in 1..Len(both) /\ both[k].kind = "message_end"
            BY DEF Ends
        <3>2. CASE k \in 1..Len(q)
            BY <1>2, <3>1, <3>2 DEF Ends
        <3>3. CASE \E j \in 1..Len(t) : k = Len(q) + j
            BY <1>2, <3>1, <3>3 DEF Ends
        <3> QED
            BY <1>3, <3>1, <3>2, <3>3
    <2>2. ASSUME NEW k \in Ends(q) PROVE k \in Ends(both)
        BY <1>2 DEF Ends
    <2>3. ASSUME NEW j \in Ends(t) PROVE Len(q) + j \in Ends(both)
        BY <1>2 DEF Ends
    <2> QED
        BY <2>1, <2>2, <2>3
<1>5. Copies(x, 0, v, Ends(q))
    <2> SUFFICES ASSUME NEW i \in Ends(q) PROVE x[0 + i] = v[i]
        BY DEF Copies
    <2>1. i \in 1..Len(q) /\ i \in Ends(both) /\ 0 + i = i
        BY <1>4 DEF Ends
    <2> QED
        BY <1>2, <2>1
<1>6. Copies(x, Len(q), w, Ends(t))
    <2> SUFFICES ASSUME NEW j \in Ends(t) PROVE x[Len(q) + j] = w[j]
        BY DEF Copies
    <2>1. j \in 1..Len(t) /\ Len(q) + j \in Ends(both)
        BY <1>4 DEF Ends
    <2> QED
        BY <1>2, <2>1
<1>7. /\ Below(Ends(q), Len(q)) /\ Holds(v, Ends(q), Msgs)
      /\ Below(Ends(t), Len(t)) /\ Holds(w, Ends(t), Msgs)
    BY EndsFacts
<1> HIDE DEF v, w, x
<1>8. Follows(x, v, Ends(q), Len(q), w, Ends(t), Len(t), Msgs)
    BY <1>1, <1>5, <1>6, <1>7 DEF Follows
<1>9. Picked(Merged(Ends(q), Len(q), Ends(t)), x) = Cat(Picked(Ends(q), v), Picked(Ends(t), w))
    BY <1>8, PickedConcat
<1>10. Ends(both) = Merged(Ends(q), Len(q), Ends(t))
    BY <1>4 DEF Merged
<1>11. Carried(both) = Cat(Carried(q), Carried(t))
    BY <1>9, <1>10 DEF Carried, v, w, x
<1> QED
    BY <1>11 DEF Cat, both

LEMMA CarriedAlong ==
    ASSUME NEW q \in Seq(Events), NEW s \in Seq(Msgs), NEW p, Lists(p, Len(s), Ends(q)),
           \A k \in 1..Len(s) : q[p[k]].msg = s[k]
    PROVE  Carried(q) = s
<1> DEFINE v == [i \in Ends(q) |-> q[i].msg]
<1>1. Along(v, p) = s
    <2>1. DOMAIN p = 1..Len(s) /\ \A k \in 1..Len(s) : p[k] \in Ends(q)
        BY DEF Lists
    <2>2. Along(v, p) = [k \in 1..Len(s) |-> v[p[k]]]
        BY <2>1 DEF Along
    <2>3. \A k \in 1..Len(s) : v[p[k]] = s[k]
        BY <2>1
    <2>4. s = [k \in 1..Len(s) |-> s[k]]
        OBVIOUS
    <2> QED
        BY <2>2, <2>3, <2>4
<1> HIDE DEF v
<1>4. Len(q) \in Nat /\ Len(s) \in Nat
    OBVIOUS
<1>2. Below(Ends(q), Len(q))
    BY EndsFacts
<1>3. Picked(Ends(q), v) = Along(v, p)
    BY <1>2, <1>4, ListingPicks
<1> QED
    BY <1>1, <1>3 DEF Carried, v

LEMMA CarriedNone ==
    ASSUME NEW q, Ends(q) = {}
    PROVE  Carried(q) = <<>>
<1> DEFINE v == [i \in Ends(q) |-> q[i].msg]
<1>1. Carried(q) = Picked(Ends(q), v)
    BY DEF Carried
<1> HIDE DEF v
<1> QED
    BY <1>1, PickedNone

LEMMA CarriedAnnounce == ASSUME NEW s \in Seq(Msgs) PROVE Carried(Announce(s)) = s
<1> DEFINE q == Announce(s)
           p == [k \in 1..Len(s) |-> 2 * k]
<1>1. q \in Seq(Events) /\ Len(q) = 2 * Len(s) /\ Len(s) \in Nat
    BY AnnounceType
<1>2. \A i \in 1..Len(q) :
         q[i] = Event(IF i % 2 = 1 THEN "message_start" ELSE "message_end", s[(i + 1) \div 2])
    BY <1>1 DEF Announce
<1>3. \A i \in 1..Len(q) : q[i].kind = "message_end" => i % 2 = 0
    <2> TAKE i \in 1..Len(q)
    <2>1. i % 2 = 1 \/ i % 2 = 0
        BY <1>1
    <2>2. CASE i % 2 = 1
        <3>1. q[i] = Event("message_start", s[(i + 1) \div 2])
            BY <1>2, <2>2
        <3> QED
            BY <3>1 DEF Event
    <2> QED
        BY <2>1, <2>2
<1>4. \A k \in 1..Len(s) : 2 * k \in 1..Len(q) /\ q[2 * k].kind = "message_end" /\ q[2 * k].msg = s[k]
    <2> TAKE k \in 1..Len(s)
    <2>1. 2 * k \in 1..Len(q)
        BY <1>1
    <2>3. (2 * k) % 2 = 0
        OBVIOUS
    <2>4. (2 * k + 1) \div 2 = k
        OBVIOUS
    <2>2. q[2 * k] = Event("message_end", s[k])
        BY <1>2, <2>1, <2>3, <2>4
    <2> QED
        BY <2>1, <2>2 DEF Event
<1> HIDE DEF q
<1>5. Lists(p, Len(s), Ends(q))
    <2>1. \A k \in 1..Len(s) : p[k] \in Ends(q)
        BY <1>4 DEF Ends
    <2>2. ASSUME NEW i \in Ends(q) PROVE \E k \in 1..Len(s) : p[k] = i
        <3>1. i \in 1..Len(q) /\ i % 2 = 0
            BY <1>3 DEF Ends
        <3>2. i \div 2 \in 1..Len(s) /\ 2 * (i \div 2) = i
            BY <1>1, <3>1
        <3> QED
            BY <3>2
    <2>3. \A i, j \in 1..Len(s) : i < j => p[i] < p[j]
        OBVIOUS
    <2> QED
        BY <2>1, <2>2, <2>3 DEF Lists
<1>6. \A k \in 1..Len(s) : q[p[k]].msg = s[k]
    BY <1>4
<1> HIDE DEF p
<1> QED
    BY <1>1, <1>5, <1>6, CarriedAlong DEF q

LEMMA CarriedOne == ASSUME NEW m \in Msgs PROVE Carried(<<Event("message_end", m)>>) = <<m>>
<1> DEFINE q == <<Event("message_end", m)>>
           s == <<m>>
           p == [k \in 1..1 |-> 1]
<1>1. q \in Seq(Events) /\ s \in Seq(Msgs) /\ Len(s) = 1 /\ s[1] = m
    BY EventTypes
<1>2. Len(q) = 1 /\ q[1].kind = "message_end" /\ q[1].msg = m
    BY DEF Event
<1> HIDE DEF q, s
<1>3. Lists(p, 1, Ends(q))
    BY <1>2 DEF Lists, Ends
<1>4. \A k \in 1..Len(s) : q[p[k]].msg = s[k]
    BY <1>1, <1>2
<1> HIDE DEF p
<1> QED
    BY <1>1, <1>3, <1>4, CarriedAlong DEF q, s

LEMMA CarriedCallEnds == ASSUME NEW m \in ToolMsgs PROVE Carried(CallEnds(m)) = <<m>>
<1> DEFINE one == <<m>>
           end == <<CallEvent("tool_execution_end", m.call)>>
<1>1. m.call \in CallIds /\ one \in Seq(Msgs)
    BY DEF ToolMsgs, Msgs
<1>2. end \in Seq(Events) /\ Ends(end) = {}
    <2>1. end \in Seq(Events)
        BY <1>1, EventTypes
    <2>2. Len(end) = 1 /\ end[1].kind = "tool_execution_end"
        BY DEF CallEvent
    <2> QED
        BY <2>1, <2>2 DEF Ends
<1>3. CallEnds(m) = Cat(end, Announce(one))
    BY DEF CallEnds, Cat
<1> HIDE DEF one, end
<1>4. Announce(one) \in Seq(Events) /\ Carried(Announce(one)) = one
    BY <1>1, AnnounceType, CarriedAnnounce
<1>5. Carried(CallEnds(m)) = Cat(Carried(end), Carried(Announce(one)))
    BY <1>2, <1>3, <1>4, CarriedConcat
<1>6. Carried(end) = <<>> /\ Cat(<<>>, one) = one
    BY <1>1, <1>2, CarriedNone, CatNone
<1> QED
    BY <1>4, <1>5, <1>6 DEF one

LEMMA CarriedHead ==
    ASSUME NEW q \in Seq(Events), q # <<>>
    PROVE  /\ Head(q).kind = "message_end" =>
                 Head(q).msg \in Msgs /\ Carried(q) = Cat(<<Head(q).msg>>, Carried(Tail(q)))
           /\ Head(q).kind # "message_end" => Carried(q) = Carried(Tail(q))
<1> DEFINE e == Head(q)
           one == <<e>>
<1>1. e \in Events /\ Tail(q) \in Seq(Events) /\ q = Cat(one, Tail(q))
    BY DEF Cat
<1>2. one \in Seq(Events) /\ Len(one) = 1 /\ one[1] = e
    BY <1>1
<1>3. Carried(q) = Cat(Carried(one), Carried(Tail(q))) /\ Carried(Tail(q)) \in Seq(Msgs)
    BY <1>1, <1>2, CarriedConcat, CarriedType
<1>4. ASSUME e.kind = "message_end" PROVE e.msg \in Msgs /\ Carried(one) = <<e.msg>>
    <2>1. e.msg \in Msgs /\ e = Event("message_end", e.msg)
        BY <1>1, <1>4, EventParts DEF Events, Event
    <2> QED
        BY <2>1, CarriedOne
<1>5. ASSUME e.kind # "message_end" PROVE Carried(one) = <<>>
    <2>1. Ends(one) = {}
        BY <1>2, <1>5 DEF Ends
    <2> QED
        BY <2>1, CarriedNone
<1> HIDE DEF one
<1>6. Cat(<<>>, Carried(Tail(q))) = Carried(Tail(q))
    BY <1>3, CatNone
<1> QED
    BY <1>3, <1>4, <1>5, <1>6

LEMMA AnnounceElements ==
    ASSUME NEW s \in Seq(Msgs), NEW k \in 1..Len(s)
    PROVE  /\ 2 * k - 1 \in 1..Len(Announce(s)) /\ Announce(s)[2 * k - 1] = Event("message_start", s[k])
           /\ 2 * k \in 1..Len(Announce(s)) /\ Announce(s)[2 * k] = Event("message_end", s[k])
<1>1. Len(Announce(s)) = 2 * Len(s) /\ Len(s) \in Nat /\ k \in Nat
    BY AnnounceType
<1>2. 2 * k - 1 \in 1..2 * Len(s) /\ 2 * k \in 1..2 * Len(s)
    BY <1>1
<1>3. (2 * k - 1) % 2 = 1 /\ ((2 * k - 1) + 1) \div 2 = k
    BY <1>1
<1>4. (2 * k) % 2 = 0 /\ (2 * k + 1) \div 2 = k
    BY <1>1
<1>5. Announce(s)[2 * k - 1] = Event("message_start", s[k])
    BY <1>2, <1>3 DEF Announce
<1>6. Announce(s)[2 * k] = Event("message_end", s[k])
    BY <1>2, <1>4 DEF Announce
<1> QED
    BY <1>1, <1>2, <1>5, <1>6

LEMMA CallEndsElements ==
    ASSUME NEW m \in ToolMsgs
    PROVE  /\ CallEnds(m)[1] = CallEvent("tool_execution_end", m.call)
           /\ CallEnds(m)[2] = Event("message_start", m)
           /\ CallEnds(m)[3] = Event("message_end", m)
<1> DEFINE one == <<m>>
           end == <<CallEvent("tool_execution_end", m.call)>>
<1>1. m.call \in CallIds /\ one \in Seq(Msgs) /\ 1 \in 1..Len(one) /\ one[1] = m
    BY DEF ToolMsgs, Msgs
<1>2. end \in Seq(Events) /\ Len(end) = 1 /\ end[1] = CallEvent("tool_execution_end", m.call)
    BY <1>1, EventTypes
<1>3. CallEnds(m) = end \o Announce(one)
    BY DEF CallEnds
<1> HIDE DEF one, end
<1>4. /\ Announce(one) \in Seq(Events) /\ Len(Announce(one)) = 2 * Len(one)
      /\ Announce(one)[1] = Event("message_start", m) /\ Announce(one)[2] = Event("message_end", m)
    BY <1>1, AnnounceType, AnnounceElements
<1>5. Len(one) = 1
    BY DEF one
<1> DEFINE announced == Announce(one)
<1>6. announced \in Seq(Events) /\ Len(announced) = 2
    BY <1>4, <1>5
<1>7. announced[1] = Event("message_start", m) /\ announced[2] = Event("message_end", m)
    BY <1>4
<1>8. CallEnds(m) = end \o announced
    BY <1>3
<1> HIDE DEF announced
<1>9. (end \o announced)[1] = end[1] /\ (end \o announced)[2] = announced[1] /\ (end \o announced)[3] = announced[2]
    <2>1. end \in Seq(Events) /\ announced \in Seq(Events)
        BY <1>2, <1>6
    <2>2. 1 \in 1..Len(end) /\ 1 \in 1..Len(announced) /\ 2 \in 1..Len(announced)
        BY <1>2, <1>6
    <2>3. /\ \A k \in 1..Len(end) : (end \o announced)[k] = end[k]
          /\ \A k \in 1..Len(announced) : (end \o announced)[Len(end) + k] = announced[k]
        BY <2>1
    <2>4. /\ (end \o announced)[1] = end[1]
          /\ (end \o announced)[Len(end) + 1] = announced[1]
          /\ (end \o announced)[Len(end) + 2] = announced[2]
        BY <2>2, <2>3
    <2>5. Len(end) + 1 = 2 /\ Len(end) + 2 = 3
        BY <1>2
    <2> QED
        BY <2>4, <2>5
<1> QED
    BY <1>2, <1>7, <1>8, <1>9

LEMMA SkipEventsElements ==
    ASSUME NEW s \in Seq(ToolMsgs), NEW k \in 1..Len(s)
    PROVE  /\ SkipEvents(s)[4 * k - 3] = CallEvent("tool_execution_start", s[k].call)
           /\ SkipEvents(s)[4 * k - 2] = CallEvent("tool_execution_end", s[k].call)
           /\ SkipEvents(s)[4 * k - 1] = Event("message_start", s[k])
           /\ SkipEvents(s)[4 * k] = Event("message_end", s[k])
<1> DEFINE q == SkipEvents(s)
<1>1. s[k] \in ToolMsgs /\ k \in Nat /\ Len(s) \in Nat
    OBVIOUS
<1>2. ASSUME NEW d \in 0..3
      PROVE  q[4 * k - 3 + d] = IF d = 0 THEN CallEvent("tool_execution_start", s[k].call)
                                ELSE CallEnds(s[k])[d]
    <2> DEFINE i == 4 * k - 3 + d
    <2>1. i \in 1..4 * Len(s)
        BY <1>1
    <2>2. (i + 3) \div 4 = k
        BY <1>1
    <2>3. (i - 1) % 4 = d
        BY <1>1
    <2> HIDE DEF i
    <2>4. q[i] = IF (i - 1) % 4 = 0 THEN CallEvent("tool_execution_start", s[(i + 3) \div 4].call)
                 ELSE CallEnds(s[(i + 3) \div 4])[(i - 1) % 4]
        BY <2>1 DEF SkipEvents
    <2>5. q[i] = IF d = 0 THEN CallEvent("tool_execution_start", s[k].call) ELSE CallEnds(s[k])[d]
        BY <2>2, <2>3, <2>4
    <2> QED
        BY <2>5 DEF i
<1>3. /\ 4 * k - 3 + 0 = 4 * k - 3 /\ 4 * k - 3 + 1 = 4 * k - 2
      /\ 4 * k - 3 + 2 = 4 * k - 1 /\ 4 * k - 3 + 3 = 4 * k
    BY <1>1
<1> HIDE DEF q
<1>4. q[4 * k - 3] = CallEvent("tool_execution_start", s[k].call)
    BY <1>2, <1>3
<1>5. q[4 * k - 2] = CallEnds(s[k])[1] /\ q[4 * k - 1] = CallEnds(s[k])[2] /\ q[4 * k] = CallEnds(s[k])[3]
    BY <1>2, <1>3
<1> QED
    BY <1>1, <1>4, <1>5, CallEndsElements DEF q

LEMMA SkipEventsIndex ==
    ASSUME NEW s \in Seq(ToolMsgs)
    PROVE  /\ Len(SkipEvents(s)) = 4 * Len(s)
           /\ \A i \in 1..4 * Len(s) : \E k \in 1..Len(s) :
                 i \in {4 * k - 3, 4 * k - 2, 4 * k - 1, 4 * k}
<1>1. Len(SkipEvents(s)) = 4 * Len(s)
    BY DEF SkipEvents
<1>2. ASSUME NEW i \in 1..4 * Len(s)
      PROVE  \E k \in 1..Len(s) : i \in {4 * k - 3, 4 * k - 2, 4 * k - 1, 4 * k}
    <2> DEFINE k == (i + 3) \div 4
    <2>1. Len(s) \in Nat
        OBVIOUS
    <2>2. k \in 1..Len(s)
        BY <2>1
    <2>3. i \in {4 * k - 3, 4 * k - 2, 4 * k - 1, 4 * k}
        BY <2>1
    <2> QED
        BY <2>2, <2>3
<1> QED
    BY <1>1, <1>2

LEMMA CarriedSkipEvents == ASSUME NEW s \in Seq(ToolMsgs) PROVE Carried(SkipEvents(s)) = s
<1> DEFINE q == SkipEvents(s)
           p == [k \in 1..Len(s) |-> 4 * k]
<1>1. q \in Seq(Events) /\ Len(q) = 4 * Len(s) /\ Len(s) \in Nat /\ s \in Seq(Msgs)
    BY SkipEventsType, SkipEventsIndex DEF Msgs
<1>2. \A k \in 1..Len(s) :
         /\ q[4 * k - 3].kind # "message_end" /\ q[4 * k - 2].kind # "message_end"
         /\ q[4 * k - 1].kind # "message_end"
         /\ q[4 * k].kind = "message_end" /\ q[4 * k].msg = s[k]
    <2> TAKE k \in 1..Len(s)
    <2>1. /\ q[4 * k - 3] = CallEvent("tool_execution_start", s[k].call)
          /\ q[4 * k - 2] = CallEvent("tool_execution_end", s[k].call)
          /\ q[4 * k - 1] = Event("message_start", s[k])
          /\ q[4 * k] = Event("message_end", s[k])
        BY SkipEventsElements
    <2> HIDE DEF q
    <2> QED
        BY <2>1 DEF Event, CallEvent
<1>3. \A i \in 1..4 * Len(s) : \E k \in 1..Len(s) :
         i \in {4 * k - 3, 4 * k - 2, 4 * k - 1, 4 * k}
    BY SkipEventsIndex
<1>4. \A k \in 1..Len(s) : 4 * k \in 1..Len(q)
    BY <1>1
<1> HIDE DEF q
<1>5. Lists(p, Len(s), Ends(q))
    <2>1. \A k \in 1..Len(s) : p[k] \in Ends(q)
        BY <1>2, <1>4 DEF Ends
    <2>2. ASSUME NEW i \in Ends(q) PROVE \E k \in 1..Len(s) : p[k] = i
        <3>1. i \in 1..4 * Len(s) /\ q[i].kind = "message_end"
            BY <1>1 DEF Ends
        <3>2. PICK k \in 1..Len(s) : i \in {4 * k - 3, 4 * k - 2, 4 * k - 1, 4 * k}
            BY <1>3, <3>1
        <3>3. i = 4 * k
            BY <1>2, <3>1, <3>2
        <3> QED
            BY <3>3
    <2>3. \A i, j \in 1..Len(s) : i < j => p[i] < p[j]
        OBVIOUS
    <2> QED
        BY <2>1, <2>2, <2>3 DEF Lists
<1>6. \A k \in 1..Len(s) : q[p[k]].msg = s[k]
    BY <1>2
<1> HIDE DEF p
<1> QED
    BY <1>1, <1>5, <1>6, CarriedAlong DEF q

-----------------------------------------------------------------------------
(* The messages of one origin in a transcript.                             *)

IsVia(via, m) == m.role = "user" /\ m.via = via
AllVia(via, s) == \A i \in 1..Len(s) : IsVia(via, s[i])
NoneVia(via, s) == \A i \in 1..Len(s) : ~IsVia(via, s[i])

LEMMA SentAsFacts ==
    ASSUME NEW via, NEW s \in Seq(Msgs)
    PROVE  /\ Below(SentAs(via, s), Len(s)) /\ Holds(s, SentAs(via, s), Msgs)
           /\ Len(s) \in Nat
<1>1. \A i \in 1..Len(s) : s[i] \in Msgs
    OBVIOUS
<1> QED
    BY <1>1 DEF Below, Holds, SentAs

LEMMA ViaType == ASSUME NEW via, NEW s \in Seq(Msgs) PROVE Via(via, s) \in Seq(Msgs)
BY SentAsFacts, PickedType DEF Via

LEMMA ViaConcat ==
    ASSUME NEW via, NEW s \in Seq(Msgs), NEW t \in Seq(Msgs)
    PROVE  Via(via, Cat(s, t)) = Cat(Via(via, s), Via(via, t))
<1> DEFINE both == s \o t
<1>1. Len(s) \in Nat /\ Len(t) \in Nat /\ Len(both) = Len(s) + Len(t)
    OBVIOUS
<1>2. /\ \A i \in 1..Len(s) : both[i] = s[i] /\ i \in 1..Len(both)
      /\ \A j \in 1..Len(t) : both[Len(s) + j] = t[j] /\ Len(s) + j \in 1..Len(both)
    OBVIOUS
<1>3. \A k \in 1..Len(both) : k \in 1..Len(s) \/ \E j \in 1..Len(t) : k = Len(s) + j
    <2> TAKE k \in 1..Len(both)
    <2>1. k \in 1..Len(s) \/ (k - Len(s) \in 1..Len(t) /\ k = Len(s) + (k - Len(s)))
        BY <1>1
    <2> QED
        BY <2>1
<1> HIDE DEF both
<1>4. SentAs(via, both) = SentAs(via, s) \cup {Len(s) + j : j \in SentAs(via, t)}
    <2>1. ASSUME NEW k \in SentAs(via, both)
          PROVE  k \in SentAs(via, s) \/ \E j \in SentAs(via, t) : k = Len(s) + j
        <3>1. k \in 1..Len(both) /\ both[k].role = "user" /\ both[k].via = via
            BY DEF SentAs
        <3>2. CASE k \in 1..Len(s)
            BY <1>2, <3>1, <3>2 DEF SentAs
        <3>3. CASE \E j \in 1..Len(t) : k = Len(s) + j
            BY <1>2, <3>1, <3>3 DEF SentAs
        <3> QED
            BY <1>3, <3>1, <3>2, <3>3
    <2>2. ASSUME NEW k \in SentAs(via, s) PROVE k \in SentAs(via, both)
        BY <1>2 DEF SentAs
    <2>3. ASSUME NEW j \in SentAs(via, t) PROVE Len(s) + j \in SentAs(via, both)
        BY <1>2 DEF SentAs
    <2> QED
        BY <2>1, <2>2, <2>3
<1>5. Copies(both, 0, s, SentAs(via, s))
    <2> SUFFICES ASSUME NEW i \in SentAs(via, s) PROVE both[0 + i] = s[i]
        BY DEF Copies
    <2>1. i \in 1..Len(s) /\ 0 + i = i
        BY DEF SentAs
    <2> QED
        BY <1>2, <2>1
<1>6. Copies(both, Len(s), t, SentAs(via, t))
    BY <1>2 DEF Copies, SentAs
<1>7. /\ Below(SentAs(via, s), Len(s)) /\ Holds(s, SentAs(via, s), Msgs)
      /\ Below(SentAs(via, t), Len(t)) /\ Holds(t, SentAs(via, t), Msgs)
    BY SentAsFacts
<1>8. Follows(both, s, SentAs(via, s), Len(s), t, SentAs(via, t), Len(t), Msgs)
    BY <1>1, <1>5, <1>6, <1>7 DEF Follows
<1>9. Picked(Merged(SentAs(via, s), Len(s), SentAs(via, t)), both)
          = Cat(Picked(SentAs(via, s), s), Picked(SentAs(via, t), t))
    BY <1>8, PickedConcat
<1>10. SentAs(via, both) = Merged(SentAs(via, s), Len(s), SentAs(via, t))
    BY <1>4 DEF Merged
<1> QED
    BY <1>9, <1>10 DEF Via, Cat, both

LEMMA ViaAll == ASSUME NEW via, NEW s \in Seq(Msgs), AllVia(via, s) PROVE Via(via, s) = s
<1>1. SentAs(via, s) = 1..Len(s)
    BY DEF SentAs, AllVia, IsVia
<1> QED
    BY <1>1, PickedAll DEF Via

LEMMA ViaNone == ASSUME NEW via, NEW s \in Seq(Msgs), NoneVia(via, s) PROVE Via(via, s) = <<>>
<1>1. SentAs(via, s) = {}
    BY DEF SentAs, NoneVia, IsVia
<1> QED
    BY <1>1, PickedNone DEF Via

\* The messages of one origin are none of another's.
LEMMA AllViaNone ==
    ASSUME NEW via, NEW other, via # other, NEW s, AllVia(via, s)
    PROVE  NoneVia(other, s)
BY DEF AllVia, NoneVia, IsVia

LEMMA ToolsViaNone ==
    ASSUME NEW via, NEW s \in Seq(ToolMsgs)
    PROVE  s \in Seq(Msgs) /\ NoneVia(via, s)
<1>1. \A i \in 1..Len(s) : s[i] \in ToolMsgs
    OBVIOUS
<1>2. s \in Seq(Msgs)
    BY DEF Msgs
<1> QED
    BY <1>1, <1>2 DEF NoneVia, IsVia, ToolMsgs

LEMMA EmptyVia == ASSUME NEW via PROVE AllVia(via, <<>>) /\ NoneVia(via, <<>>)
BY DEF AllVia, NoneVia

LEMMA OneVia ==
    ASSUME NEW via, NEW m
    PROVE  /\ IsVia(via, m) => AllVia(via, <<m>>)
           /\ ~IsVia(via, m) => NoneVia(via, <<m>>)
BY DEF AllVia, NoneVia

LEMMA AllViaPart ==
    ASSUME NEW via, NEW S, NEW s \in Seq(S), AllVia(via, s), NEW mode
    PROVE  AllVia(via, Dequeued(mode, s)) /\ AllVia(via, Remaining(mode, s))
<1>1. CASE mode = "all"
    <2>1. Dequeued(mode, s) = s /\ Len(Remaining(mode, s)) = 0
        BY <1>1 DEF Dequeued, Remaining
    <2> QED
        BY <2>1 DEF AllVia
<1>2. CASE mode # "all" /\ s # <<>>
    <2>1. Len(s) \in Nat \ {0}
        BY <1>2
    <2>2. Len(Dequeued(mode, s)) = 1 /\ Dequeued(mode, s)[1] = s[1]
        BY <1>2, <2>1 DEF Dequeued
    <2>3. /\ Len(Remaining(mode, s)) = Len(s) - 1
          /\ \A i \in 1..(Len(s) - 1) : Remaining(mode, s)[i] = s[i + 1] /\ i + 1 \in 1..Len(s)
        BY <1>2, <2>1, <2>2 DEF Remaining
    <2>4. AllVia(via, Dequeued(mode, s))
        BY <2>1, <2>2 DEF AllVia
    <2>5. AllVia(via, Remaining(mode, s))
        BY <2>3 DEF AllVia
    <2> QED
        BY <2>4, <2>5
<1>3. CASE mode # "all" /\ s = <<>>
    <2>1. Len(Dequeued(mode, s)) = 0 /\ Len(Remaining(mode, s)) = 0
        BY <1>3 DEF Dequeued, Remaining
    <2> QED
        BY <2>1 DEF AllVia
<1> QED
    BY <1>1, <1>2, <1>3

LEMMA DequeueSplits ==
    ASSUME NEW S, NEW s \in Seq(S), NEW mode
    PROVE  Cat(Dequeued(mode, s), Remaining(mode, s)) = s
<1> USE DEF Cat
<1>1. CASE mode = "all"
    <2>1. Dequeued(mode, s) = s /\ Remaining(mode, s) = <<>>
        BY <1>1 DEF Dequeued, Remaining
    <2> QED
        BY <2>1
<1>2. CASE mode # "all" /\ s # <<>>
    <2>1. Len(s) \in Nat \ {0}
        BY <1>2
    <2>2. Dequeued(mode, s) = SubSeq(s, 1, 1)
        BY <1>2 DEF Dequeued
    <2>4. SubSeq(s, 1, 1) = <<Head(s)>>
        <3> DEFINE x == SubSeq(s, 1, 1)
                   y == <<Head(s)>>
        <3>1. Len(x) = 1 /\ x[1] = s[1] /\ x \in Seq(S)
            BY <2>1
        <3>2. Len(y) = 1 /\ y[1] = s[1] /\ y \in Seq(S)
            BY <1>2, <2>1
        <3> HIDE DEF x, y
        <3>3. \A i \in 1..1 : x[i] = y[i]
            BY <3>1, <3>2
        <3>4. x = y
            BY <3>1, <3>2, <3>3, SeqEqual
        <3> QED
            BY <3>4 DEF x, y
    <2>3. Remaining(mode, s) = Tail(s)
        BY <2>1, <2>2, <2>4 DEF Remaining
    <2> QED
        BY <1>2, <2>2, <2>3, <2>4
<1>3. CASE mode # "all" /\ s = <<>>
    BY <1>3 DEF Dequeued, Remaining
<1> QED
    BY <1>1, <1>2, <1>3

-----------------------------------------------------------------------------
(* What a transcript or a context may look like.                           *)

\* Each tool call of an answer has its result, directly after the answer.
Complete(s) ==
    \A i \in 1..Len(s) : s[i].role = "assistant" /\ s[i].stop = "stop" =>
        \A k \in 1..s[i].calls :
            /\ i + k <= Len(s)
            /\ s[i + k].role = "toolResult" /\ s[i + k].call = Call(s[i], k)

\* A follow-up comes after an answer or another follow-up.
FollowUpsLast(s) ==
    \A i \in 1..Len(s) : IsVia("followUp", s[i]) =>
        i > 1 /\ (s[i - 1].role = "assistant" \/ IsVia("followUp", s[i - 1]))

\* No answer is still streaming.
Final(s) == \A i \in 1..Len(s) : s[i].role = "assistant" => s[i].stop # "partial"

\* What a run may start from.
Sound(s) == Complete(s) /\ FollowUpsLast(s) /\ Final(s)

LEMMA ButLastFacts ==
    ASSUME NEW S, NEW s \in Seq(S), s # <<>>
    PROVE  /\ Len(s) \in Nat \ {0} /\ Len(ButLast(s)) = Len(s) - 1
           /\ ButLast(s) \in Seq(S) /\ LastOf(s) = s[Len(s)]
           /\ \A i \in 1..(Len(s) - 1) : ButLast(s)[i] = s[i]
<1>1. Len(s) \in Nat \ {0} /\ LastOf(s) = s[Len(s)]
    BY DEF LastOf
<1>2. ButLast(s) \in Seq(S) /\ Len(ButLast(s)) = Len(s) - 1
    <2> DEFINE n == Len(s) - 1
    <2>2. n \in Nat /\ n <= Len(s)
        BY <1>1
    <2> HIDE DEF n
    <2>3. Len(SubSeq(s, 1, n)) = n
        BY <2>2
    <2>1. Len(SubSeq(s, 1, Len(s) - 1)) = Len(s) - 1
        BY <2>3 DEF n
    <2> QED
        BY <2>1, SeqFacts DEF ButLast
<1>3. \A i \in 1..(Len(s) - 1) : ButLast(s)[i] = s[i]
    BY <1>1 DEF ButLast
<1> QED
    BY <1>1, <1>2, <1>3

LEMMA RolesOf ==
    /\ \A s \in Seq(UserMsgs) : s \in Seq(Msgs) /\ \A i \in 1..Len(s) : s[i].role = "user"
    /\ \A s \in Seq(ToolMsgs) : s \in Seq(Msgs) /\ \A i \in 1..Len(s) : s[i].role = "toolResult"
<1>1. ASSUME NEW s \in Seq(UserMsgs)
      PROVE  s \in Seq(Msgs) /\ \A i \in 1..Len(s) : s[i].role = "user"
    <2>1. \A i \in 1..Len(s) : s[i] \in UserMsgs
        OBVIOUS
    <2>2. s \in Seq(Msgs)
        BY DEF Msgs
    <2> QED
        BY <2>1, <2>2 DEF UserMsgs
<1>2. ASSUME NEW s \in Seq(ToolMsgs)
      PROVE  s \in Seq(Msgs) /\ \A i \in 1..Len(s) : s[i].role = "toolResult"
    <2>1. \A i \in 1..Len(s) : s[i] \in ToolMsgs
        OBVIOUS
    <2>2. s \in Seq(Msgs)
        BY DEF Msgs
    <2> QED
        BY <2>1, <2>2 DEF ToolMsgs
<1> QED
    BY <1>1, <1>2

LEMMA CatFacts ==
    ASSUME NEW S, NEW s \in Seq(S), NEW t \in Seq(S)
    PROVE  /\ Len(s) \in Nat /\ Len(t) \in Nat /\ Len(Cat(s, t)) = Len(s) + Len(t)
           /\ \A i \in 1..Len(s) : Cat(s, t)[i] = s[i]
           /\ \A k \in 1..Len(t) : Cat(s, t)[Len(s) + k] = t[k]
           /\ \A i \in 1..Len(Cat(s, t)) :
                 i \in 1..Len(s) \/ \E k \in 1..Len(t) : i = Len(s) + k
<1>1. /\ Len(s) \in Nat /\ Len(t) \in Nat /\ Len(Cat(s, t)) = Len(s) + Len(t)
      /\ \A i \in 1..Len(s) : Cat(s, t)[i] = s[i]
      /\ \A k \in 1..Len(t) : Cat(s, t)[Len(s) + k] = t[k]
    BY DEF Cat
<1>2. ASSUME NEW i \in 1..Len(Cat(s, t)), i \notin 1..Len(s)
      PROVE  \E k \in 1..Len(t) : i = Len(s) + k
    <2>1. i - Len(s) \in 1..Len(t) /\ i = Len(s) + (i - Len(s))
        BY <1>1, <1>2
    <2> QED
        BY <2>1
<1> QED
    BY <1>1, <1>2

LEMMA AppendFacts ==
    ASSUME NEW S, NEW s \in Seq(S), NEW m \in S
    PROVE  /\ Append(s, m) \in Seq(S) /\ Append(s, m) # <<>>
           /\ LastOf(Append(s, m)) = m /\ ButLast(Append(s, m)) = s
           /\ Append(s, m) = Cat(s, <<m>>)
BY DEF LastOf, ButLast, Cat

\* Users' messages do not come between an answer and its results.
LEMMA CompleteUsers ==
    ASSUME NEW s \in Seq(Msgs), NEW t \in Seq(UserMsgs), Complete(s)
    PROVE  Complete(Cat(s, t))
<1> DEFINE u == Cat(s, t)
<1>1. /\ Len(s) \in Nat /\ Len(t) \in Nat /\ Len(u) = Len(s) + Len(t)
      /\ \A i \in 1..Len(s) : u[i] = s[i]
      /\ \A k \in 1..Len(t) : u[Len(s) + k] = t[k]
      /\ \A i \in 1..Len(u) : i \in 1..Len(s) \/ \E k \in 1..Len(t) : i = Len(s) + k
    <2>1. t \in Seq(Msgs)
        BY RolesOf
    <2> QED
        BY <2>1, CatFacts
<1>2. \A k \in 1..Len(t) : t[k].role = "user"
    BY RolesOf
<1> HIDE DEF u
<1>3. ASSUME NEW i \in 1..Len(u), u[i].role = "assistant", u[i].stop = "stop",
             NEW k \in 1..u[i].calls
      PROVE  i + k <= Len(u) /\ u[i + k].role = "toolResult" /\ u[i + k].call = Call(u[i], k)
    <2>1. i \in 1..Len(s)
        BY <1>1, <1>2, <1>3
    <2>2. s[i].role = "assistant" /\ s[i].stop = "stop" /\ k \in 1..s[i].calls
        BY <1>1, <1>3, <2>1
    <2>3. i + k <= Len(s) /\ s[i + k].role = "toolResult" /\ s[i + k].call = Call(s[i], k)
        BY <2>1, <2>2 DEF Complete
    <2>4. i + k \in 1..Len(s) /\ i + k <= Len(u)
        BY <1>1, <2>1, <2>3
    <2> QED
        BY <1>1, <2>1, <2>3, <2>4
<1> QED
    BY <1>3 DEF Complete, u

\* An answer that needs no results.
LEMMA CompleteUnanswered ==
    ASSUME NEW s \in Seq(Msgs), s # <<>>, Complete(ButLast(s)),
           LastOf(s).role = "assistant" => LastOf(s).stop # "stop" \/ LastOf(s).calls = 0
    PROVE  Complete(s)
<1>1. /\ Len(s) \in Nat \ {0} /\ Len(ButLast(s)) = Len(s) - 1 /\ LastOf(s) = s[Len(s)]
      /\ \A i \in 1..(Len(s) - 1) : ButLast(s)[i] = s[i]
    BY ButLastFacts
<1>2. ASSUME NEW i \in 1..Len(s), s[i].role = "assistant", s[i].stop = "stop",
             NEW k \in 1..s[i].calls
      PROVE  i + k <= Len(s) /\ s[i + k].role = "toolResult" /\ s[i + k].call = Call(s[i], k)
    <2>1. i # Len(s)
        BY <1>1, <1>2
    <2>2. i \in 1..(Len(s) - 1)
        BY <1>1, <2>1
    <2>3. /\ i + k <= Len(s) - 1
          /\ ButLast(s)[i + k].role = "toolResult" /\ ButLast(s)[i + k].call = Call(s[i], k)
        BY <1>1, <1>2, <2>2 DEF Complete
    <2>4. i + k \in 1..(Len(s) - 1)
        BY <2>2, <2>3
    <2> QED
        BY <1>1, <2>3, <2>4
<1> QED
    BY <1>2 DEF Complete

\* Dropping a message that is no result takes none away.
LEMMA CompleteButLast ==
    ASSUME NEW s \in Seq(Msgs), s # <<>>, Complete(s), LastOf(s).role # "toolResult"
    PROVE  Complete(ButLast(s))
<1>1. /\ Len(s) \in Nat \ {0} /\ Len(ButLast(s)) = Len(s) - 1 /\ LastOf(s) = s[Len(s)]
      /\ \A i \in 1..(Len(s) - 1) : ButLast(s)[i] = s[i]
    BY ButLastFacts
<1> DEFINE u == ButLast(s)
<1> HIDE DEF u
<1>2. ASSUME NEW i \in 1..Len(u), u[i].role = "assistant", u[i].stop = "stop",
             NEW k \in 1..u[i].calls
      PROVE  i + k <= Len(u) /\ u[i + k].role = "toolResult" /\ u[i + k].call = Call(u[i], k)
    <2>1. i \in 1..(Len(s) - 1) /\ i \in 1..Len(s) /\ u[i] = s[i]
        BY <1>1 DEF u
    <2>2. i + k <= Len(s) /\ s[i + k].role = "toolResult" /\ s[i + k].call = Call(s[i], k)
        BY <1>2, <2>1 DEF Complete
    <2>3. i + k # Len(s)
        BY <1>1, <2>2
    <2>6. k \in Nat
        BY <1>2
    <2>4. i + k \in 1..(Len(s) - 1)
        BY <1>1, <2>1, <2>2, <2>3, <2>6
    <2>5. u[i + k] = s[i + k] /\ Len(u) = Len(s) - 1
        BY <1>1, <2>4 DEF u
    <2> QED
        BY <2>1, <2>2, <2>4, <2>5
<1> QED
    BY <1>2 DEF Complete, u

\* An answer and the results of its calls.
LEMMA CompleteAnswered ==
    ASSUME NEW s \in Seq(Msgs), s # <<>>, Complete(ButLast(s)), NEW t \in Seq(ToolMsgs),
           LastOf(s).role = "assistant", Len(t) = LastOf(s).calls,
           \A k \in 1..Len(t) : t[k].call = Call(LastOf(s), k)
    PROVE  Complete(Cat(s, t))
<1>1. /\ Len(s) \in Nat \ {0} /\ Len(ButLast(s)) = Len(s) - 1 /\ LastOf(s) = s[Len(s)]
      /\ \A i \in 1..(Len(s) - 1) : ButLast(s)[i] = s[i]
    BY ButLastFacts
<1> DEFINE u == Cat(s, t)
<1>2. /\ Len(t) \in Nat /\ Len(u) = Len(s) + Len(t)
      /\ \A i \in 1..Len(s) : u[i] = s[i]
      /\ \A k \in 1..Len(t) : u[Len(s) + k] = t[k]
      /\ \A i \in 1..Len(u) : i \in 1..Len(s) \/ \E k \in 1..Len(t) : i = Len(s) + k
    <2>1. t \in Seq(Msgs)
        BY RolesOf
    <2> QED
        BY <2>1, CatFacts
<1>3. \A k \in 1..Len(t) : t[k].role = "toolResult"
    BY RolesOf
<1> HIDE DEF u
<1>4. ASSUME NEW i \in 1..Len(u), u[i].role = "assistant", u[i].stop = "stop",
             NEW k \in 1..u[i].calls
      PROVE  i + k <= Len(u) /\ u[i + k].role = "toolResult" /\ u[i + k].call = Call(u[i], k)
    <2>1. i \in 1..Len(s) /\ u[i] = s[i]
        BY <1>2, <1>3, <1>4
    <2>2. CASE i = Len(s)
        <3>1. k \in 1..Len(t) /\ u[i] = LastOf(s)
            BY <1>1, <1>4, <2>1, <2>2
        <3>2. u[i + k] = t[k]
            BY <1>2, <2>2, <3>1
        <3>3. i + k <= Len(u)
            BY <1>1, <1>2, <2>2, <3>1
        <3> QED
            BY <1>3, <3>1, <3>2, <3>3
    <2>3. CASE i # Len(s)
        <3>1. i \in 1..(Len(s) - 1) /\ ButLast(s)[i] = s[i]
            BY <1>1, <2>1, <2>3
        <3>2. /\ i + k <= Len(s) - 1
              /\ ButLast(s)[i + k].role = "toolResult" /\ ButLast(s)[i + k].call = Call(s[i], k)
            BY <1>1, <1>4, <2>1, <3>1 DEF Complete
        <3>3. i + k \in 1..(Len(s) - 1) /\ i + k \in 1..Len(s) /\ i + k <= Len(u)
            BY <1>1, <1>2, <3>1, <3>2
        <3> QED
            BY <1>1, <1>2, <2>1, <3>2, <3>3
    <2> QED
        BY <2>2, <2>3
<1> QED
    BY <1>4 DEF Complete, u

LEMMA FollowUpsCat ==
    ASSUME NEW s \in Seq(Msgs), NEW t \in Seq(Msgs), FollowUpsLast(s),
           \/ NoneVia("followUp", t)
           \/ AllVia("followUp", t) /\ EndsWith(s, "assistant")
    PROVE  FollowUpsLast(Cat(s, t))
<1> DEFINE u == Cat(s, t)
<1>1. /\ Len(s) \in Nat /\ Len(t) \in Nat /\ Len(u) = Len(s) + Len(t)
      /\ \A i \in 1..Len(s) : u[i] = s[i]
      /\ \A k \in 1..Len(t) : u[Len(s) + k] = t[k]
      /\ \A i \in 1..Len(u) : i \in 1..Len(s) \/ \E k \in 1..Len(t) : i = Len(s) + k
    BY CatFacts
<1> HIDE DEF u
<1>2. ASSUME NEW i \in 1..Len(u), IsVia("followUp", u[i])
      PROVE  i > 1 /\ (u[i - 1].role = "assistant" \/ IsVia("followUp", u[i - 1]))
    <2>1. CASE i \in 1..Len(s)
        <3>1. i > 1 /\ (s[i - 1].role = "assistant" \/ IsVia("followUp", s[i - 1]))
            BY <1>1, <1>2, <2>1 DEF FollowUpsLast
        <3>2. i - 1 \in 1..Len(s)
            BY <2>1, <3>1
        <3> QED
            BY <1>1, <3>1, <3>2
    <2>2. CASE \E k \in 1..Len(t) : i = Len(s) + k
        <3>1. PICK k \in 1..Len(t) : i = Len(s) + k
            BY <2>2
        <3>2. IsVia("followUp", t[k])
            BY <1>1, <1>2, <3>1
        <3>3. AllVia("followUp", t) /\ EndsWith(s, "assistant")
            BY <3>2 DEF NoneVia
        <3>4. s # <<>> /\ Len(s) \in 1..Len(s) /\ s[Len(s)].role = "assistant" /\ Len(s) > 0
            BY <1>1, <3>3 DEF EndsWith, LastOf
        <3>5. CASE k = 1
            <4>1. i > 1 /\ i - 1 = Len(s)
                BY <1>1, <3>1, <3>4, <3>5
            <4> QED
                BY <1>1, <3>4, <4>1
        <3>6. CASE k # 1
            <4>1. k - 1 \in 1..Len(t) /\ i - 1 = Len(s) + (k - 1) /\ i > 1
                BY <1>1, <3>1, <3>6
            <4>2. u[i - 1] = t[k - 1]
                BY <1>1, <4>1
            <4> QED
                BY <3>3, <4>1, <4>2 DEF AllVia
        <3> QED
            BY <3>5, <3>6
    <2> QED
        BY <1>1, <2>1, <2>2
<1> QED
    BY <1>2 DEF FollowUpsLast, u

LEMMA FinalCat ==
    ASSUME NEW s \in Seq(Msgs), NEW t \in Seq(Msgs), Final(s), Final(t)
    PROVE  Final(Cat(s, t))
<1> DEFINE u == Cat(s, t)
<1>1. /\ \A i \in 1..Len(s) : u[i] = s[i]
      /\ \A k \in 1..Len(t) : u[Len(s) + k] = t[k]
      /\ \A i \in 1..Len(u) : i \in 1..Len(s) \/ \E k \in 1..Len(t) : i = Len(s) + k
    BY CatFacts
<1> HIDE DEF u
<1> QED
    BY <1>1 DEF Final, u

LEMMA NoAnswersFinal ==
    /\ \A s \in Seq(UserMsgs) : s \in Seq(Msgs) /\ Final(s)
    /\ \A s \in Seq(ToolMsgs) : s \in Seq(Msgs) /\ Final(s)
BY RolesOf DEF Final

\* The first messages of a transcript.
LEMMA ButLastKeeps ==
    ASSUME NEW s \in Seq(Msgs), s # <<>>
    PROVE  /\ FollowUpsLast(s) => FollowUpsLast(ButLast(s))
           /\ Final(s) => Final(ButLast(s))
<1>1. /\ Len(s) \in Nat \ {0} /\ Len(ButLast(s)) = Len(s) - 1
      /\ \A i \in 1..(Len(s) - 1) : ButLast(s)[i] = s[i]
    BY ButLastFacts
<1>2. \A i \in 1..(Len(s) - 1) : i \in 1..Len(s) /\ (i > 1 => i - 1 \in 1..(Len(s) - 1))
    BY <1>1
<1> QED
    BY <1>1, <1>2 DEF FollowUpsLast, Final

LEMMA EmptySound == Sound(<<>>)
BY DEF Sound, Complete, FollowUpsLast, Final

-----------------------------------------------------------------------------
(* The shape of a run: what its program counter says of its context, of    *)
(* the results of the answer it works on and of the messages it polled.    *)

Working == {"answered", "tool", "toolDone"}
IsPartial(c) == EndsWith(c, "assistant") /\ LastOf(c).stop = "partial"
CommittedOf(c) == IF IsPartial(c) THEN ButLast(c) ELSE c

\* The results so far are those of the first calls of the answer m.
ToolsShape(p, m, res) ==
    /\ m.stop = "stop" /\ Len(res) <= m.calls
    /\ p = "tool" => Len(res) < m.calls
    /\ p = "toolDone" => res # <<>>
    /\ \A k \in 1..Len(res) : res[k].call = Call(m, k)

ShapeOf(p, c, res, pend) ==
    /\ res # <<>> => p \in {"tool", "toolDone"}
    /\ pend # <<>> => p \in {"begin", "toolDone", "polled", "followUp"}
    /\ p = "followUp" => AllVia("followUp", pend) /\ EndsWith(c, "assistant")
    /\ p # "followUp" => AllVia("steer", pend)
    /\ p = "polled" => EndsWith(c, "assistant") \/ EndsWith(c, "toolResult")
    /\ IsPartial(c) => p = "streaming"
    /\ FollowUpsLast(c) /\ Final(CommittedOf(c))
    /\ p \in Working => EndsWith(c, "assistant") /\ Complete(ButLast(c))
    /\ p \notin Working => Complete(c)
    /\ p \in {"tool", "toolDone"} => ToolsShape(p, LastOf(c), res)

Shape(r) == ShapeOf(pc[r], ctx[r], results[r], pending[r])
Sources == AllVia("steer", steeringQueue) /\ AllVia("followUp", followUpQueue)

LEMMA ShapePrimed ==
    ASSUME NEW r PROVE Shape(r)' <=> ShapeOf(pc'[r], ctx'[r], results'[r], pending'[r])
BY DEF Shape, ShapeOf, ToolsShape, CommittedOf, IsPartial, EndsWith, LastOf, ButLast,
       AllVia, IsVia, FollowUpsLast, Final, Complete, Call, Working

LEMMA SourcesPrimed ==
    Sources' <=> AllVia("steer", steeringQueue') /\ AllVia("followUp", followUpQueue')
BY DEF Sources, AllVia, IsVia

LEMMA FinalWhole ==
    ASSUME NEW s \in Seq(Msgs), Final(s)
    PROVE  ~IsPartial(s) /\ CommittedOf(s) = s
<1>1. s # <<>> => Len(s) \in 1..Len(s)
    OBVIOUS
<1> QED
    BY <1>1 DEF Final, IsPartial, CommittedOf, EndsWith, LastOf

LEMMA CommittedType ==
    ASSUME NEW s \in Seq(Msgs) PROVE CommittedOf(s) \in Seq(Msgs)
BY SeqFacts DEF CommittedOf, IsPartial, EndsWith

\* The types of what a run works on.
LEMMA RunType ==
    ASSUME TypeInv, NEW r \in Runs
    PROVE  /\ ctx[r] \in Seq(Msgs) /\ results[r] \in Seq(ToolMsgs) /\ pending[r] \in Seq(UserMsgs)
           /\ results[r] \in Seq(Msgs) /\ pending[r] \in Seq(Msgs) /\ evq[r] \in Seq(Events)
           /\ messages \in Seq(Msgs)
           /\ steeringQueue \in Seq(UserMsgs) /\ followUpQueue \in Seq(UserMsgs)
           /\ steeringQueue \in Seq(Msgs) /\ followUpQueue \in Seq(Msgs)
<1>1. /\ ctx[r] \in Seq(Msgs) /\ results[r] \in Seq(ToolMsgs) /\ pending[r] \in Seq(UserMsgs)
      /\ evq[r] \in Seq(Events) /\ messages \in Seq(Msgs)
      /\ steeringQueue \in Seq(UserMsgs) /\ followUpQueue \in Seq(UserMsgs)
    BY DEF TypeInv, TypeOK
<1> QED
    BY <1>1, RolesOf

\* The calls that are skipped are those after the last one that has a result.
LEMMA SkippedFacts ==
    ASSUME TypeInv, NEW r \in Runs, pc[r] = "toolDone", Len(results[r]) <= LastOf(ctx[r]).calls
    PROVE  /\ Skipped(r) \in Seq(ToolMsgs)
           /\ Len(Skipped(r)) = LastOf(ctx[r]).calls - Len(results[r])
           /\ \A k \in 1..Len(Skipped(r)) :
                 Skipped(r)[k].call = Call(LastOf(ctx[r]), Len(results[r]) + k)
<1> DEFINE m == LastOf(ctx[r])
           n == m.calls
           a == Len(results[r])
           skip == [i \in 1..n |-> ToolResult(Call(m, i), TRUE)]
<1>1. n \in Nat /\ a \in Nat /\ a <= n
    BY NextCallType, AgentAssumption DEF AssistantMsgs, AgentAssumption, TypeInv, TypeOK
<1>2. Skipped(r) = SubSeq(skip, a + 1, n)
    BY DEF Skipped
<1>3. \A i \in 1..n : skip[i].call = Call(m, i)
    BY DEF ToolResult
<1>4. skip = [i \in 1..n |-> skip[i]]
    OBVIOUS
<1> HIDE DEF m, n, a, skip
<1>5. Len(SubSeq(skip, a + 1, n)) = n - a /\ \A k \in 1..(n - a) : SubSeq(skip, a + 1, n)[k] = skip[a + k]
    <2>1. a + 1 \in Int /\ n \in Int /\ \A i \in (a + 1)..n : skip[i] \in {skip[j] : j \in 1..n}
        BY <1>1
    <2>2. /\ Len(SubSeq(skip, a + 1, n)) = IF a + 1 <= n THEN n - (a + 1) + 1 ELSE 0
          /\ \A k \in 1..(n - (a + 1) + 1) : SubSeq(skip, a + 1, n)[k] = skip[(a + 1) + k - 1]
        BY <2>1, SubSeqProperties
    <2>3. n - (a + 1) + 1 = n - a /\ \A k \in 1..(n - a) : (a + 1) + k - 1 = a + k
        BY <1>1
    <2> QED
        BY <1>1, <2>2, <2>3
<1>6. \A k \in 1..(n - a) : a + k \in 1..n
    BY <1>1
<1>7. /\ Len(Skipped(r)) = n - a
      /\ \A k \in 1..(n - a) : Skipped(r)[k].call = Call(m, a + k)
    BY <1>2, <1>3, <1>5, <1>6
<1> QED
    BY <1>7, SkippedType DEF m, n, a

\* A client's message polled with its kind.
LEMMA PolledKind ==
    ASSUME TypeInv, Sources, NEW mode
    PROVE  /\ Dequeued(mode, steeringQueue) \in Seq(UserMsgs)
           /\ Remaining(mode, steeringQueue) \in Seq(UserMsgs)
           /\ AllVia("steer", Dequeued(mode, steeringQueue))
           /\ AllVia("steer", Remaining(mode, steeringQueue))
           /\ Dequeued(mode, followUpQueue) \in Seq(UserMsgs)
           /\ Remaining(mode, followUpQueue) \in Seq(UserMsgs)
           /\ AllVia("followUp", Dequeued(mode, followUpQueue))
           /\ AllVia("followUp", Remaining(mode, followUpQueue))
<1>1. steeringQueue \in Seq(UserMsgs) /\ followUpQueue \in Seq(UserMsgs)
    BY DEF TypeInv, TypeOK
<1> QED
    BY <1>1, AllViaPart, DequeuedType DEF Sources

\* The answer a run works on.
LEMMA AnswerFacts ==
    ASSUME TypeInv, NEW r \in Runs, Shape(r), pc[r] \in Working
    PROVE  /\ ctx[r] # <<>> /\ LastOf(ctx[r]) \in AssistantMsgs /\ LastOf(ctx[r]) \in Msgs
           /\ LastOf(ctx[r]).role = "assistant" /\ EndsWith(ctx[r], "assistant")
           /\ LastOf(ctx[r]).stop # "partial" /\ ~IsPartial(ctx[r]) /\ CommittedOf(ctx[r]) = ctx[r]
           /\ LastOf(ctx[r]).stop \in {"stop", "error", "aborted"} /\ LastOf(ctx[r]).calls \in Nat
<1>1. /\ ctx[r] # <<>> /\ LastOf(ctx[r]) \in AssistantMsgs /\ LastOf(ctx[r]) \in Msgs
    BY NextCallType DEF Working
<1>2. EndsWith(ctx[r], "assistant") /\ ~IsPartial(ctx[r])
    BY DEF Shape, ShapeOf, Working
<1>3. LastOf(ctx[r]).stop \in {"stop", "error", "aborted", "partial"} /\ LastOf(ctx[r]).calls \in Nat
    BY <1>1, AgentAssumption DEF AssistantMsgs, AgentAssumption
<1> QED
    BY <1>1, <1>2, <1>3 DEF IsPartial, CommittedOf, EndsWith

LEMMA LoopShape ==
    ASSUME TypeInv, Sources, NEW r \in Runs, Shape(r), Loop(r)
    PROVE  Shape(r)' /\ Sources'
<1> DEFINE c == ctx[r]
           res == results[r]
           pend == pending[r]
<1>t. /\ c \in Seq(Msgs) /\ res \in Seq(ToolMsgs) /\ pend \in Seq(UserMsgs)
      /\ res \in Seq(Msgs) /\ pend \in Seq(Msgs)
    BY RunType
<1>d. /\ pc \in [Runs -> {"new", "begin", "calling", "streaming", "answered", "tool",
                          "toolDone", "polled", "followUp", "ended", "crashed"}]
      /\ DOMAIN ctx = Runs /\ DOMAIN results = Runs /\ DOMAIN pending = Runs
    BY DEF TypeInv, TypeOK
<1>s. ShapeOf(pc[r], c, res, pend)
    BY DEF Shape
<1>n. steeringQueue' = steeringQueue /\ followUpQueue' = followUpQueue => Sources'
    BY SourcesPrimed DEF Sources
<1>p. PollSteering(r) => /\ pending'[r] = Dequeued(steeringMode, steeringQueue)
                         /\ pending'[r] \in Seq(UserMsgs) /\ AllVia("steer", pending'[r])
                         /\ Sources'
    BY <1>d, PolledKind, SourcesPrimed DEF PollSteering, Sources
<1>e. AllVia("steer", <<>>) /\ AllVia("followUp", <<>>)
    BY EmptyVia
<1> SUFFICES ShapeOf(pc'[r], ctx'[r], results'[r], pending'[r]) /\ Sources'
    BY ShapePrimed
<1> USE DEF Goto
<1> HIDE DEF c, res, pend
<1>1. CASE BeginTurn(r)
    <2>1. /\ pc'[r] = "calling" /\ ctx'[r] = Cat(c, pend) /\ results'[r] = res /\ pending'[r] = <<>>
          /\ steeringQueue' = steeringQueue /\ followUpQueue' = followUpQueue
        BY <1>1, <1>d DEF BeginTurn, queueVars, Cat, c, res, pend
    <2>2. pc[r] \in {"begin", "polled", "followUp"}
        BY <1>1 DEF BeginTurn, EntersTurn
    <2>3. /\ Complete(c) /\ FollowUpsLast(c) /\ ~IsPartial(c) /\ Final(c) /\ res = <<>>
        BY <1>s, <2>2 DEF ShapeOf, CommittedOf, Working
    <2>4. Complete(Cat(c, pend))
        BY <1>t, <2>3, CompleteUsers
    <2>5. FollowUpsLast(Cat(c, pend))
        <3>1. CASE pc[r] = "followUp"
            BY <1>s, <1>t, <2>3, <3>1, FollowUpsCat DEF ShapeOf
        <3>2. CASE pc[r] # "followUp"
            <4>1. NoneVia("followUp", pend)
                BY <1>s, <3>2, AllViaNone DEF ShapeOf
            <4> QED
                BY <1>t, <2>3, <4>1, FollowUpsCat
        <3> QED
            BY <3>1, <3>2
    <2>6. Final(Cat(c, pend)) /\ Cat(c, pend) \in Seq(Msgs)
        BY <1>t, <2>3, FinalCat, NoAnswersFinal, CatType
    <2>7. ~IsPartial(Cat(c, pend)) /\ CommittedOf(Cat(c, pend)) = Cat(c, pend)
        BY <2>6, FinalWhole
    <2> QED
        BY <1>e, <1>n, <2>1, <2>3, <2>4, <2>5, <2>6, <2>7 DEF ShapeOf, Working
<1>2. CASE CallModel(r) \/ LoopThrows(r)
    <2>1. /\ pc[r] = "calling" /\ pc'[r] \in {"streaming", "crashed"}
          /\ ctx'[r] = c /\ results'[r] = res /\ pending'[r] = pend
          /\ steeringQueue' = steeringQueue /\ followUpQueue' = followUpQueue
        BY <1>2, <1>d DEF CallModel, LoopThrows, queueVars, c, res, pend
    <2> QED
        BY <1>n, <1>s, <2>1 DEF ShapeOf, Working
<1>3. CASE StreamStart(r)
    <2> DEFINE partial == Assistant(turns + 1, 0, "partial")
    <2>1. /\ pc[r] = "streaming" /\ pc'[r] = "streaming" /\ ~IsPartial(c)
          /\ ctx'[r] = Append(c, partial) /\ results'[r] = res /\ pending'[r] = pend
          /\ steeringQueue' = steeringQueue /\ followUpQueue' = followUpQueue
        BY <1>3, <1>d DEF StreamStart, HasPartial, IsPartial, queueVars, c, res, pend
    <2>2. partial \in Msgs /\ partial.role = "assistant" /\ partial.stop = "partial"
        <3>1. partial \in Msgs
            BY AgentAssumption, MsgTypes DEF AgentAssumption, Msgs, TypeInv, TypeOK
        <3>2. partial.role = "assistant" /\ partial.stop = "partial"
            BY DEF Assistant
        <3> QED
            BY <3>1, <3>2
    <2> HIDE DEF partial
    <2>3. /\ Append(c, partial) \in Seq(Msgs) /\ Append(c, partial) # <<>>
          /\ LastOf(Append(c, partial)) = partial /\ ButLast(Append(c, partial)) = c
          /\ Append(c, partial) = Cat(c, <<partial>>)
        BY <1>t, <2>2, AppendFacts
    <2>4. Complete(c) /\ FollowUpsLast(c) /\ Final(c)
        BY <1>s, <2>1 DEF ShapeOf, CommittedOf, Working
    <2>5. Complete(Append(c, partial))
        BY <2>2, <2>3, <2>4, CompleteUnanswered
    <2>6. FollowUpsLast(Append(c, partial))
        <3>1. NoneVia("followUp", <<partial>>) /\ <<partial>> \in Seq(Msgs)
            BY <2>2, OneVia DEF IsVia
        <3> QED
            BY <1>t, <2>3, <2>4, <3>1, FollowUpsCat
    <2>7. EndsWith(Append(c, partial), "assistant") /\ IsPartial(Append(c, partial))
        BY <2>2, <2>3 DEF EndsWith, IsPartial
    <2>8. CommittedOf(Append(c, partial)) = c
        BY <2>3, <2>7 DEF CommittedOf
    <2> QED
        BY <1>n, <1>s, <2>1, <2>4, <2>5, <2>6, <2>8 DEF ShapeOf, Working
<1>4. CASE StreamEnd(r)
    <2> DEFINE before == CommittedOf(c)
    <2>1. PICK k \in 0..MaxCalls, stop \in {"stop", "error", "aborted"} :
             ctx' = [ctx EXCEPT ![r] = Append(IF HasPartial(r) THEN ButLast(@) ELSE @,
                                              Assistant(turns + 1, k, stop))]
        BY <1>4 DEF StreamEnd
    <2> DEFINE final == Assistant(turns + 1, k, stop)
    <2>2. /\ pc[r] = "streaming" /\ pc'[r] = "answered"
          /\ ctx'[r] = Append(before, final) /\ results'[r] = res /\ pending'[r] = pend
          /\ steeringQueue' = steeringQueue /\ followUpQueue' = followUpQueue
        BY <1>4, <1>d, <2>1 DEF StreamEnd, HasPartial, IsPartial, CommittedOf, queueVars, c, res, pend
    <2>3. final \in Msgs /\ final.role = "assistant" /\ final.stop # "partial"
        <3>1. final \in Msgs
            BY MsgTypes DEF Msgs, TypeInv, TypeOK
        <3>2. final.role = "assistant" /\ final.stop # "partial"
            BY DEF Assistant
        <3> QED
            BY <3>1, <3>2
    <2> HIDE DEF final
    <2>4. before \in Seq(Msgs) /\ Complete(before) /\ FollowUpsLast(before) /\ Final(before)
        <3>1. Complete(c) /\ FollowUpsLast(c) /\ Final(CommittedOf(c))
            BY <1>s, <2>2 DEF ShapeOf, Working
        <3>2. CASE IsPartial(c)
            <4>1. c # <<>> /\ LastOf(c).role = "assistant" /\ before = ButLast(c)
                BY <3>2 DEF IsPartial, EndsWith, CommittedOf
            <4> QED
                BY <1>t, <3>1, <4>1, SeqFacts, CompleteButLast, ButLastKeeps
        <3>3. CASE ~IsPartial(c)
            BY <1>t, <3>1, <3>3 DEF CommittedOf
        <3> QED
            BY <3>2, <3>3
    <2> HIDE DEF before
    <2>5. /\ Append(before, final) \in Seq(Msgs) /\ Append(before, final) # <<>>
          /\ LastOf(Append(before, final)) = final /\ ButLast(Append(before, final)) = before
          /\ Append(before, final) = Cat(before, <<final>>)
        BY <2>3, <2>4, AppendFacts
    <2>6. <<final>> \in Seq(Msgs) /\ NoneVia("followUp", <<final>>) /\ Final(<<final>>)
        <3>1. <<final>> \in Seq(Msgs) /\ NoneVia("followUp", <<final>>)
            BY <2>3, OneVia DEF IsVia
        <3> QED
            BY <2>3, <3>1 DEF Final
    <2>7. FollowUpsLast(Append(before, final)) /\ Final(Append(before, final))
        BY <2>4, <2>5, <2>6, FollowUpsCat, FinalCat
    <2>8. ~IsPartial(Append(before, final)) /\ CommittedOf(Append(before, final)) = Append(before, final)
        BY <2>5, <2>7, FinalWhole
    <2>9. EndsWith(Append(before, final), "assistant")
        BY <2>3, <2>5 DEF EndsWith
    <2> QED
        BY <1>n, <1>s, <2>2, <2>4, <2>5, <2>7, <2>8, <2>9 DEF ShapeOf, Working
<1>5. CASE TurnFailed(r)
    <2>1. /\ pc[r] = "answered" /\ pc'[r] = "ended" /\ Failed(LastOf(c))
          /\ ctx'[r] = c /\ results'[r] = res /\ pending'[r] = pend
          /\ steeringQueue' = steeringQueue /\ followUpQueue' = followUpQueue
        BY <1>5, <1>d DEF TurnFailed, queueVars, c, res, pend
    <2>2. c # <<>> /\ Complete(ButLast(c)) /\ LastOf(c).stop # "stop"
        BY <1>s, <2>1 DEF ShapeOf, Working, EndsWith, Failed
    <2>3. Complete(c)
        BY <1>t, <2>2, CompleteUnanswered
    <2> QED
        BY <1>n, <1>s, <2>1, <2>3 DEF ShapeOf, Working
<1>6. CASE TurnWithoutTools(r)
    <2>1. /\ pc[r] = "answered" /\ pc'[r] = "polled" /\ LastOf(c).calls = 0
          /\ ctx'[r] = c /\ results'[r] = res /\ PollSteering(r)
        BY <1>6, <1>d DEF TurnWithoutTools, c, res
    <2>2. c # <<>> /\ Complete(ButLast(c)) /\ EndsWith(c, "assistant")
        BY <1>s, <2>1 DEF ShapeOf, Working, EndsWith
    <2>3. Complete(c)
        BY <1>t, <2>1, <2>2, CompleteUnanswered
    <2> QED
        BY <1>p, <1>s, <2>1, <2>2, <2>3 DEF ShapeOf, Working
<1>7. CASE StartTool(r)
    <2>1. /\ pc[r] \in {"answered", "toolDone"} /\ pc'[r] = "tool"
          /\ ctx'[r] = c /\ results'[r] = res /\ pending'[r] = pend /\ Len(res) < LastOf(c).calls
          /\ pc[r] = "answered" => ~Failed(LastOf(c))
          /\ pc[r] = "toolDone" => pend = <<>>
          /\ steeringQueue' = steeringQueue /\ followUpQueue' = followUpQueue
        BY <1>7, <1>d DEF StartTool, MoreCalls, queueVars, c, res, pend
    <2>2. pend = <<>> /\ AllVia("steer", pend)
        BY <1>s, <2>1 DEF ShapeOf
    <2>3. ToolsShape("tool", LastOf(c), res)
        <3>1. CASE pc[r] = "toolDone"
            BY <1>s, <2>1, <3>1 DEF ShapeOf, ToolsShape
        <3>2. CASE pc[r] = "answered"
            <4>1. res = <<>> /\ Len(res) = 0
                BY <1>s, <3>2 DEF ShapeOf
            <4>2. LastOf(c).stop = "stop" /\ LastOf(c).calls \in Nat
                BY <2>1, <3>2, AnswerFacts DEF Failed, Working, c
            <4> QED
                BY <2>1, <4>1, <4>2 DEF ToolsShape
        <3> QED
            BY <2>1, <3>1, <3>2
    <2> QED
        BY <1>n, <1>s, <2>1, <2>2, <2>3 DEF ShapeOf, Working
<1>8. CASE FinishTool(r)
    <2> DEFINE result == ToolResult(NextCall(r), FALSE)
    <2>1. /\ pc[r] = "tool" /\ pc'[r] = "toolDone" /\ ctx'[r] = c
          /\ results'[r] = Append(res, result) /\ PollSteering(r)
        BY <1>8, <1>d DEF FinishTool, c, res
    <2>2. result \in ToolMsgs /\ result.call = Call(LastOf(c), Len(res) + 1)
        BY <2>1, NextCallType, MsgTypes DEF ToolResult, NextCall, c, res
    <2> HIDE DEF result
    <2>3. ToolsShape("tool", LastOf(c), res) /\ LastOf(c).calls \in Nat
        BY <1>s, <2>1, AnswerFacts DEF ShapeOf, Working, c
    <2>4. ToolsShape("toolDone", LastOf(c), Append(res, result))
        <3>1. /\ Len(Append(res, result)) = Len(res) + 1 /\ Len(res) \in Nat /\ Append(res, result) # <<>>
              /\ \A k \in 1..Len(res) : Append(res, result)[k] = res[k]
              /\ Append(res, result)[Len(res) + 1] = result
            BY <1>t, <2>2
        <3>2. \A k \in 1..(Len(res) + 1) : k \in 1..Len(res) \/ k = Len(res) + 1
            BY <3>1
        <3>3. Len(res) + 1 <= LastOf(c).calls
            BY <2>3, <3>1 DEF ToolsShape
        <3> QED
            BY <2>2, <2>3, <3>1, <3>2, <3>3 DEF ToolsShape
    <2> QED
        BY <1>p, <1>s, <2>1, <2>4 DEF ShapeOf, Working
<1>9. CASE EndTools(r)
    <2> DEFINE t == Cat(res, Skipped(r))
               after == Cat(c, t)
    <2>1. /\ pc[r] = "toolDone" /\ pc'[r] = "polled" /\ results'[r] = <<>>
          /\ ctx'[r] = Cat(Cat(c, res), Skipped(r))
        BY <1>9, <1>d DEF EndTools, Cat, c, res
    <2>2. \/ pending'[r] = pend /\ steeringQueue' = steeringQueue /\ followUpQueue' = followUpQueue
          \/ PollSteering(r)
        BY <1>9 DEF EndTools, queueVars, pend
    <2>3. /\ ToolsShape("toolDone", LastOf(c), res) /\ EndsWith(c, "assistant")
          /\ Complete(ButLast(c)) /\ FollowUpsLast(c) /\ AllVia("steer", pend)
        BY <1>s, <2>1 DEF ShapeOf, Working
    <2>4. /\ Skipped(r) \in Seq(ToolMsgs)
          /\ Len(Skipped(r)) = LastOf(c).calls - Len(res)
          /\ \A k \in 1..Len(Skipped(r)) : Skipped(r)[k].call = Call(LastOf(c), Len(res) + k)
        BY <2>1, <2>3, SkippedFacts DEF ToolsShape, c, res
    <2>5. ctx'[r] = after
        BY <1>t, <2>1, <2>4, CatAssoc, RolesOf
    <2>6. t \in Seq(ToolMsgs) /\ t \in Seq(Msgs) /\ Len(t) = LastOf(c).calls /\ Len(t) > 0
          /\ \A k \in 1..Len(t) : t[k].call = Call(LastOf(c), k)
        <3>1. t \in Seq(ToolMsgs)
            BY <1>t, <2>4, CatType
        <3>2. /\ Len(res) \in Nat /\ Len(t) = Len(res) + Len(Skipped(r))
              /\ \A k \in 1..Len(res) : t[k] = res[k]
              /\ \A k \in 1..Len(Skipped(r)) : t[Len(res) + k] = Skipped(r)[k]
              /\ \A k \in 1..Len(t) : k \in 1..Len(res) \/ \E j \in 1..Len(Skipped(r)) : k = Len(res) + j
            <4>1. res \in Seq(ToolMsgs) /\ Skipped(r) \in Seq(ToolMsgs)
                BY <1>t, <2>4
            <4> QED
                BY ONLY <4>1, CatFacts
        <3> HIDE DEF t
        <3>3. Len(res) > 0
            BY <1>t, <2>3 DEF ToolsShape
        <3>4. \A k \in 1..Len(t) : t[k].call = Call(LastOf(c), k)
            <4>1. \A k \in 1..Len(res) : res[k].call = Call(LastOf(c), k)
                BY <2>3 DEF ToolsShape
            <4>2. ASSUME NEW k \in 1..Len(t) PROVE t[k].call = Call(LastOf(c), k)
                <5>1. CASE k \in 1..Len(res)
                    BY ONLY <3>2, <4>1, <5>1
                <5>2. ASSUME NEW j \in 1..Len(Skipped(r)), k = Len(res) + j
                      PROVE  t[k].call = Call(LastOf(c), k)
                    BY ONLY <2>4, <3>2, <5>2
                <5> QED
                    BY ONLY <3>2, <4>2, <5>1, <5>2
            <4> QED
                BY ONLY <4>2
        <3>5. LastOf(c).calls \in Nat /\ Len(Skipped(r)) \in Nat
            BY <2>1, <2>4, AnswerFacts DEF Working, c
        <3> QED
            BY <2>4, <3>1, <3>2, <3>3, <3>4, <3>5, RolesOf
    <2> HIDE DEF t
    <2>7. Complete(after)
        BY <1>t, <2>3, <2>6, CompleteAnswered DEF EndsWith
    <2>8. after \in Seq(Msgs) /\ FollowUpsLast(after) /\ Final(after)
        <3>1. Final(c)
            BY <1>s, <2>1 DEF ShapeOf, CommittedOf
        <3>2. NoneVia("followUp", t) /\ Final(t)
            BY <2>6, ToolsViaNone, NoAnswersFinal
        <3> QED
            BY <1>t, <2>3, <2>6, <3>1, <3>2, FollowUpsCat, FinalCat, CatType
    <2>9. EndsWith(after, "toolResult")
        <3>1. Len(after) = Len(c) + Len(t) /\ after[Len(c) + Len(t)] = t[Len(t)] /\ Len(c) \in Nat
            <4>0. c \in Seq(Msgs) /\ t \in Seq(Msgs)
                BY <1>t, <2>6
            <4>1. /\ Len(after) = Len(c) + Len(t) /\ Len(c) \in Nat /\ Len(t) \in Nat
                  /\ \A k \in 1..Len(t) : after[Len(c) + k] = t[k]
                BY ONLY <4>0, CatFacts
            <4> HIDE DEF after
            <4>2. Len(t) \in 1..Len(t)
                BY <2>6, <4>1
            <4> QED
                BY <4>1, <4>2
        <3>2. t[Len(t)].role = "toolResult"
            BY <2>6, RolesOf
        <3>3. after # <<>>
            BY <2>6, <3>1
        <3> QED
            BY <3>1, <3>2, <3>3 DEF EndsWith, LastOf
    <2> HIDE DEF after
    <2>10. ~IsPartial(after) /\ CommittedOf(after) = after
        BY <2>8, FinalWhole
    <2>11. AllVia("steer", pending'[r]) /\ Sources'
        BY <1>n, <1>p, <2>2, <2>3
    <2> QED
        BY <2>1, <2>5, <2>7, <2>8, <2>9, <2>10, <2>11 DEF ShapeOf, Working
<1>10. CASE PollFollowUp(r)
    <2>1. /\ pc[r] = "polled" /\ pc'[r] = "followUp" /\ ~EndsWith(c, "toolResult")
          /\ ctx'[r] = c /\ results'[r] = res
          /\ pending'[r] = Dequeued(followUpMode, followUpQueue)
          /\ steeringQueue' = steeringQueue
          /\ followUpQueue' = Remaining(followUpMode, followUpQueue)
        BY <1>10, <1>d DEF PollFollowUp, EntersTurn, c, res
    <2>2. AllVia("followUp", pending'[r]) /\ Sources'
        BY <2>1, PolledKind, SourcesPrimed DEF Sources
    <2> QED
        BY <1>s, <2>1, <2>2 DEF ShapeOf, Working
<1>11. CASE EndLoop(r)
    <2>1. /\ pc[r] = "followUp" /\ pc'[r] = "ended" /\ pend = <<>>
          /\ ctx'[r] = c /\ results'[r] = res /\ pending'[r] = pend
          /\ steeringQueue' = steeringQueue /\ followUpQueue' = followUpQueue
        BY <1>11, <1>d DEF EndLoop, queueVars, c, res, pend
    <2> QED
        BY <1>e, <1>n, <1>s, <2>1 DEF ShapeOf, Working
<1> QED
    BY <1>1, <1>2, <1>3, <1>4, <1>5, <1>6, <1>7, <1>8, <1>9, <1>10, <1>11 DEF Loop

-----------------------------------------------------------------------------
(* What is shown once every event is consumed: the value that the last     *)
(* event of W in q stands for, or m if q has none.                         *)

Later(q, W, v, m, shown) ==
    \/ m = shown /\ \A j \in 1..Len(q) : q[j] \notin W
    \/ \E k \in 1..Len(q) : /\ q[k] \in W /\ v[q[k]] = shown
                            /\ \A j \in (k + 1)..Len(q) : q[j] \notin W

LEMMA LaterNone ==
    ASSUME NEW q, NEW W, NEW v, NEW m, \A j \in 1..Len(q) : q[j] \notin W
    PROVE  Later(q, W, v, m, m)
BY DEF Later

LEMMA LaterLast ==
    ASSUME NEW S, NEW q \in Seq(S), NEW W, NEW v, NEW m, q # <<>>, LastOf(q) \in W
    PROVE  Later(q, W, v, m, v[LastOf(q)])
<1>1. Len(q) \in 1..Len(q) /\ LastOf(q) = q[Len(q)] /\ \A j \in (Len(q) + 1)..Len(q) : FALSE
    BY DEF LastOf
<1> QED
    BY <1>1 DEF Later

LEMMA LaterConcat ==
    ASSUME NEW S, NEW q \in Seq(S), NEW t \in Seq(S), NEW W, NEW v, NEW m, NEW mid, NEW shown,
           Later(q, W, v, m, mid), Later(t, W, v, mid, shown)
    PROVE  Later(Cat(q, t), W, v, m, shown)
<1> DEFINE u == Cat(q, t)
<1>1. /\ Len(q) \in Nat /\ Len(t) \in Nat /\ Len(u) = Len(q) + Len(t)
      /\ \A i \in 1..Len(q) : u[i] = q[i]
      /\ \A k \in 1..Len(t) : u[Len(q) + k] = t[k]
      /\ \A i \in 1..Len(u) : i \in 1..Len(q) \/ \E k \in 1..Len(t) : i = Len(q) + k
    BY CatFacts
<1> HIDE DEF u
<1>2. ASSUME NEW k \in 1..Len(t), t[k] \in W, v[t[k]] = shown,
             \A j \in (k + 1)..Len(t) : t[j] \notin W
      PROVE  Later(u, W, v, m, shown)
    <2>1. Len(q) + k \in 1..Len(u) /\ u[Len(q) + k] = t[k]
        BY <1>1
    <2>2. ASSUME NEW j \in (Len(q) + k + 1)..Len(u) PROVE u[j] \notin W
        <3>1. j - Len(q) \in (k + 1)..Len(t) /\ j - Len(q) \in 1..Len(t) /\ Len(q) + (j - Len(q)) = j
            BY <1>1
        <3> QED
            BY <1>1, <1>2, <3>1
    <2> QED
        BY <1>2, <2>1, <2>2 DEF Later
<1>3. ASSUME mid = shown, \A j \in 1..Len(t) : t[j] \notin W
      PROVE  Later(u, W, v, m, shown)
    <2>1. CASE m = mid /\ \A j \in 1..Len(q) : q[j] \notin W
        <3>1. \A j \in 1..Len(u) : u[j] \notin W
            BY <1>1, <1>3, <2>1
        <3> QED
            BY <1>3, <2>1, <3>1 DEF Later
    <2>2. ASSUME NEW k \in 1..Len(q), q[k] \in W, v[q[k]] = mid,
                 \A j \in (k + 1)..Len(q) : q[j] \notin W
          PROVE  Later(u, W, v, m, shown)
        <3>1. k \in 1..Len(u) /\ u[k] = q[k]
            BY <1>1
        <3>2. ASSUME NEW j \in (k + 1)..Len(u) PROVE u[j] \notin W
            <4>1. j \in 1..Len(u)
                OBVIOUS
            <4>2. CASE j \in 1..Len(q)
                BY <1>1, <2>2, <4>2
            <4>3. CASE j \notin 1..Len(q)
                BY <1>1, <1>3, <4>1, <4>3
            <4> QED
                BY <4>2, <4>3
        <3> QED
            BY <1>3, <2>2, <3>1, <3>2 DEF Later
    <2> QED
        BY <2>1, <2>2 DEF Later
<1> QED
    BY <1>2, <1>3 DEF Later, u

LEMMA LaterTail ==
    ASSUME NEW S, NEW q \in Seq(S), q # <<>>, NEW W, NEW v, NEW m, NEW shown,
           Later(q, W, v, m, shown)
    PROVE  Later(Tail(q), W, v, IF Head(q) \in W THEN v[Head(q)] ELSE m, shown)
<1> DEFINE t == Tail(q)
<1>1. /\ Len(q) \in Nat \ {0} /\ Len(t) = Len(q) - 1 /\ Head(q) = q[1]
      /\ \A j \in 1..Len(t) : t[j] = q[j + 1]
    OBVIOUS
<1> HIDE DEF t
<1>2. CASE m = shown /\ \A j \in 1..Len(q) : q[j] \notin W
    <2>1. Head(q) \notin W /\ \A j \in 1..Len(t) : t[j] \notin W
        BY <1>1, <1>2
    <2> QED
        BY <1>2, <2>1 DEF Later, t
<1>3. ASSUME NEW k \in 1..Len(q), q[k] \in W, v[q[k]] = shown,
             \A j \in (k + 1)..Len(q) : q[j] \notin W
      PROVE  Later(t, W, v, IF Head(q) \in W THEN v[Head(q)] ELSE m, shown)
    <2>1. CASE k = 1
        <3>1. \A j \in 1..Len(t) : t[j] \notin W
            BY <1>1, <1>3, <2>1
        <3> QED
            BY <1>1, <1>3, <2>1, <3>1 DEF Later
    <2>2. CASE k # 1
        <3>1. k - 1 \in 1..Len(t) /\ t[k - 1] = q[k]
            BY <1>1, <2>2
        <3>2. \A j \in ((k - 1) + 1)..Len(t) : t[j] \notin W
            BY <1>1, <1>3, <2>2
        <3> QED
            BY <1>3, <3>1, <3>2 DEF Later
    <2> QED
        BY <2>1, <2>2
<1> QED
    BY <1>2, <1>3 DEF Later, t

LEMMA LaterEmpty ==
    ASSUME NEW W, NEW v, NEW m, NEW shown, Later(<<>>, W, v, m, shown)
    PROVE  m = shown
BY DEF Later

-----------------------------------------------------------------------------
(* The events that change the message shown, and those that change whether *)
(* the call x is shown as running.                                         *)

MsgEvents == {e \in Events : e.kind \in {"message_start", "message_end"}}
MsgShown == [e \in MsgEvents |-> IF e.kind = "message_start" THEN e.msg ELSE NoMsg]
CallEventsOf(x) ==
    {e \in Events : e.kind \in {"tool_execution_start", "tool_execution_end"} /\ e.call = x}
CallShown(x) == [e \in CallEventsOf(x) |-> IF e.kind = "tool_execution_start" THEN "on" ELSE "off"]

ShowsMsg(q, m, shown) == Later(q, MsgEvents, MsgShown, m, shown)
ShowsCall(q, x, old, shown) == Later(q, CallEventsOf(x), CallShown(x), old, shown)

LEMMA MsgEventParts ==
    ASSUME NEW m \in Msgs
    PROVE  /\ Event("message_start", m) \in MsgEvents /\ MsgShown[Event("message_start", m)] = m
           /\ Event("message_end", m) \in MsgEvents /\ MsgShown[Event("message_end", m)] = NoMsg
           /\ Event("turn_end", m) \notin MsgEvents /\ AgentEnd \notin MsgEvents
<1>1. /\ Event("message_start", m).kind = "message_start" /\ Event("message_start", m).msg = m
      /\ Event("message_end", m).kind = "message_end"
      /\ Event("turn_end", m).kind = "turn_end" /\ AgentEnd.kind = "agent_end"
    BY DEF Event, AgentEnd
<1> QED
    BY <1>1, EventTypes DEF MsgEvents, MsgShown

LEMMA CallEventParts ==
    ASSUME NEW c \in CallIds, NEW x
    PROVE  /\ CallEvent("tool_execution_start", c) \in CallEventsOf(c)
           /\ CallShown(c)[CallEvent("tool_execution_start", c)] = "on"
           /\ CallEvent("tool_execution_end", c) \in CallEventsOf(c)
           /\ CallShown(c)[CallEvent("tool_execution_end", c)] = "off"
           /\ CallEvent("tool_execution_start", c) \notin MsgEvents
           /\ CallEvent("tool_execution_end", c) \notin MsgEvents
           /\ x # c => /\ CallEvent("tool_execution_start", c) \notin CallEventsOf(x)
                       /\ CallEvent("tool_execution_end", c) \notin CallEventsOf(x)
<1>1. /\ CallEvent("tool_execution_start", c).kind = "tool_execution_start"
      /\ CallEvent("tool_execution_start", c).call = c
      /\ CallEvent("tool_execution_end", c).kind = "tool_execution_end"
      /\ CallEvent("tool_execution_end", c).call = c
    BY DEF CallEvent
<1> QED
    BY <1>1, EventTypes DEF MsgEvents, CallEventsOf, CallShown

\* Events about messages change no call.
LEMMA NotCallEvents ==
    ASSUME NEW e, e.kind \in {"message_start", "message_end", "turn_end", "agent_end"}, NEW x
    PROVE  e \notin CallEventsOf(x)
BY DEF CallEventsOf

\* A single event.
LEMMA ShowsOne ==
    ASSUME NEW e \in Events, NEW old, NEW x
    PROVE  /\ e \in MsgEvents => ShowsMsg(<<e>>, old, MsgShown[e])
           /\ e \notin MsgEvents => ShowsMsg(<<e>>, old, old)
           /\ e \in CallEventsOf(x) => ShowsCall(<<e>>, x, old, CallShown(x)[e])
           /\ e \notin CallEventsOf(x) => ShowsCall(<<e>>, x, old, old)
<1> DEFINE one == <<e>>
<1>1. one \in Seq(Events) /\ one # <<>> /\ LastOf(one) = e /\ \A j \in 1..Len(one) : one[j] = e
    BY DEF LastOf
<1> HIDE DEF one
<1>2. \A W, v : /\ e \in W => Later(one, W, v, old, v[e])
                /\ e \notin W => Later(one, W, v, old, old)
    BY <1>1, LaterLast, LaterNone
<1> QED
    BY <1>2 DEF ShowsMsg, ShowsCall, one

\* A message announced is shown no longer once its message_end is consumed.
LEMMA ShowsAnnounce ==
    ASSUME NEW s \in Seq(Msgs), NEW x, NEW old
    PROVE  ShowsMsg(Announce(s), NoMsg, NoMsg) /\ ShowsCall(Announce(s), x, old, old)
           /\ (s # <<>> => ShowsMsg(Announce(s), old, NoMsg))
<1> DEFINE q == Announce(s)
<1>1. q \in Seq(Events) /\ Len(q) = 2 * Len(s) /\ Len(s) \in Nat
    BY AnnounceType
<1>2. \A i \in 1..Len(q) : q[i].kind \in {"message_start", "message_end"}
    BY <1>1 DEF Announce, Event
<1>3. ASSUME s # <<>> PROVE q # <<>> /\ LastOf(q) \in MsgEvents /\ MsgShown[LastOf(q)] = NoMsg
    <2>1. Len(s) \in 1..Len(s) /\ s[Len(s)] \in Msgs
        BY <1>1, <1>3
    <2>2. q[2 * Len(s)] = Event("message_end", s[Len(s)])
        BY <2>1, AnnounceElements
    <2> HIDE DEF q
    <2>3. q # <<>> /\ LastOf(q) = Event("message_end", s[Len(s)])
        BY <1>1, <2>1, <2>2 DEF LastOf
    <2> QED
        BY <2>1, <2>3, MsgEventParts
<1> HIDE DEF q
<1>4. ASSUME s # <<>>, NEW o PROVE ShowsMsg(q, o, NoMsg)
    BY <1>1, <1>3, <1>4, LaterLast DEF ShowsMsg
<1>5. CASE s = <<>>
    <2>1. \A j \in 1..Len(q) : q[j] \notin MsgEvents
        BY <1>1, <1>5
    <2> QED
        BY <1>2, <1>5, <2>1, LaterNone, NotCallEvents DEF ShowsMsg, ShowsCall, q
<1>6. CASE s # <<>>
    <2>1. ShowsCall(q, x, old, old)
        BY <1>2, LaterNone, NotCallEvents DEF ShowsCall
    <2> QED
        BY <1>4, <1>6, <2>1 DEF q
<1> QED
    BY <1>5, <1>6

LEMMA ShowsCallEnds ==
    ASSUME NEW m \in ToolMsgs, NEW x, NEW old
    PROVE  /\ ShowsMsg(CallEnds(m), old, NoMsg)
           /\ x # m.call => ShowsCall(CallEnds(m), x, old, old)
           /\ ShowsCall(CallEnds(m), m.call, old, "off")
<1> DEFINE one == <<m>>
           first == CallEvent("tool_execution_end", m.call)
           end == <<first>>
<1>1. m.call \in CallIds /\ one \in Seq(Msgs) /\ one # <<>>
    BY DEF ToolMsgs, Msgs
<1>2. end \in Seq(Events) /\ first \in Events
    BY <1>1, EventTypes
<1>3. CallEnds(m) = Cat(end, Announce(one))
    BY DEF CallEnds, Cat
<1>4. /\ ShowsMsg(end, old, old)
      /\ x # m.call => ShowsCall(end, x, old, old)
      /\ ShowsCall(end, m.call, old, "off")
    BY <1>1, <1>2, ShowsOne, CallEventParts
<1> HIDE DEF one, end, first
<1>5. /\ Announce(one) \in Seq(Events)
      /\ ShowsMsg(Announce(one), old, NoMsg)
      /\ ShowsCall(Announce(one), x, old, old)
      /\ ShowsCall(Announce(one), m.call, "off", "off")
    BY <1>1, AnnounceType, ShowsAnnounce
<1> QED
    BY <1>2, <1>3, <1>4, <1>5, LaterConcat DEF ShowsMsg, ShowsCall

LEMMA ShowsSkipEvents ==
    ASSUME NEW s \in Seq(ToolMsgs), \A j, k \in 1..Len(s) : s[j].call = s[k].call => j = k, NEW x
    PROVE  /\ ShowsMsg(SkipEvents(s), NoMsg, NoMsg)
           /\ ShowsCall(SkipEvents(s), x, "off", "off")
<1> DEFINE q == SkipEvents(s)
<1>1. q \in Seq(Events) /\ Len(q) = 4 * Len(s) /\ Len(s) \in Nat
    BY SkipEventsType, SkipEventsIndex
<1>2. \A k \in 1..Len(s) : /\ q[4 * k - 3] = CallEvent("tool_execution_start", s[k].call)
                           /\ q[4 * k - 2] = CallEvent("tool_execution_end", s[k].call)
                           /\ q[4 * k - 1] = Event("message_start", s[k])
                           /\ q[4 * k] = Event("message_end", s[k])
                           /\ s[k].call \in CallIds /\ s[k] \in Msgs
    <2> TAKE k \in 1..Len(s)
    <2>1. s[k] \in ToolMsgs
        OBVIOUS
    <2>2. s[k].call \in CallIds /\ s[k] \in Msgs
        BY <2>1 DEF ToolMsgs, Msgs
    <2> QED
        BY <2>2, SkipEventsElements
<1>3. \A i \in 1..Len(q) : \E k \in 1..Len(s) : i \in {4 * k - 3, 4 * k - 2, 4 * k - 1, 4 * k}
    BY <1>1, SkipEventsIndex
<1> HIDE DEF q
<1>4. ShowsMsg(q, NoMsg, NoMsg)
    <2>1. CASE s = <<>>
        <3>1. \A j \in 1..Len(q) : q[j] \notin MsgEvents
            BY <1>1, <2>1
        <3> QED
            BY <3>1, LaterNone DEF ShowsMsg
    <2>2. CASE s # <<>>
        <3>1. Len(s) \in 1..Len(s)
            BY <1>1, <2>2
        <3>2. q # <<>> /\ LastOf(q) = Event("message_end", s[Len(s)]) /\ s[Len(s)] \in Msgs
            BY <1>1, <1>2, <3>1 DEF LastOf
        <3>3. LastOf(q) \in MsgEvents /\ MsgShown[LastOf(q)] = NoMsg
            BY <3>2, MsgEventParts
        <3> QED
            BY <1>1, <3>2, <3>3, LaterLast DEF ShowsMsg
    <2> QED
        BY <2>1, <2>2
<1>5. ShowsCall(q, x, "off", "off")
    <2>1. ASSUME \A k \in 1..Len(s) : s[k].call # x
          PROVE  ShowsCall(q, x, "off", "off")
        <3>1. ASSUME NEW i \in 1..Len(q) PROVE q[i] \notin CallEventsOf(x)
            <4>1. PICK k \in 1..Len(s) : i \in {4 * k - 3, 4 * k - 2, 4 * k - 1, 4 * k}
                BY <1>3
            <4>2. CallEvent("tool_execution_start", s[k].call) \notin CallEventsOf(x)
                  /\ CallEvent("tool_execution_end", s[k].call) \notin CallEventsOf(x)
                BY <1>2, <2>1, CallEventParts
            <4>3. Event("message_start", s[k]) \notin CallEventsOf(x)
                  /\ Event("message_end", s[k]) \notin CallEventsOf(x)
                BY NotCallEvents DEF Event
            <4> QED
                BY <1>2, <4>1, <4>2, <4>3
        <3> QED
            BY <3>1, LaterNone DEF ShowsCall
    <2>2. ASSUME NEW k \in 1..Len(s), s[k].call = x
          PROVE  ShowsCall(q, x, "off", "off")
        <3>1. 4 * k - 2 \in 1..Len(q) /\ k \in Nat
            BY <1>1
        <3>2. q[4 * k - 2] \in CallEventsOf(x) /\ CallShown(x)[q[4 * k - 2]] = "off"
            BY <1>2, <2>2, CallEventParts
        <3>3. ASSUME NEW i \in (4 * k - 2 + 1)..Len(q) PROVE q[i] \notin CallEventsOf(x)
            <4>1. PICK j \in 1..Len(s) : i \in {4 * j - 3, 4 * j - 2, 4 * j - 1, 4 * j}
                BY <1>3, <3>1
            <4>2. i \in {4 * j - 3, 4 * j - 2} => j # k
                BY <3>1
            <4>3. i \in {4 * j - 3, 4 * j - 2} => s[j].call # x
                BY <2>2, <4>2
            <4>4. s[j].call # x => /\ q[4 * j - 3] \notin CallEventsOf(x)
                                   /\ q[4 * j - 2] \notin CallEventsOf(x)
                BY <1>2, CallEventParts
            <4>5. Event("message_start", s[j]) \notin CallEventsOf(x)
                  /\ Event("message_end", s[j]) \notin CallEventsOf(x)
                BY NotCallEvents DEF Event
            <4>6. q[4 * j - 1] \notin CallEventsOf(x) /\ q[4 * j] \notin CallEventsOf(x)
                BY <1>2, <4>5
            <4> QED
                BY <4>1, <4>3, <4>4, <4>6
        <3> QED
            BY <3>1, <3>2, <3>3 DEF ShowsCall, Later
    <2> QED
        BY <2>1, <2>2
<1> QED
    BY <1>4, <1>5 DEF q

-----------------------------------------------------------------------------
(* What a step of the loop does, seen from the agent: the events es it     *)
(* pushes carry the messages new that it adds to its context.              *)

\* The context, and the results that are still to be added to it.
TotalOf(c, res) == Cat(CommittedOf(c), res)

\* The message and the call that the agent shows once it has caught up.
MsgOf(c) == IF IsPartial(c) THEN LastOf(c) ELSE NoMsg
CallOf(p, c, res, x) == IF p = "tool" /\ x = Call(LastOf(c), Len(res) + 1) THEN "on" ELSE "off"

EndsRun(q) == q # <<>> /\ LastOf(q) = AgentEnd /\ NoEnd(ButLast(q))

\* The messages leave a queue through pending, and reach the context from there.
Untold(s) == NoneVia("steer", s) /\ NoneVia("followUp", s)
Moves(r, new) ==
    \/ /\ new = pending[r] /\ pending'[r] = <<>>
       /\ steeringQueue' = steeringQueue /\ followUpQueue' = followUpQueue
    \/ /\ Untold(new) /\ pending'[r] = pending[r]
       /\ steeringQueue' = steeringQueue /\ followUpQueue' = followUpQueue
    \/ /\ Untold(new) /\ pending[r] = <<>>
       /\ pending'[r] = Dequeued(steeringMode, steeringQueue)
       /\ steeringQueue' = Remaining(steeringMode, steeringQueue)
       /\ followUpQueue' = followUpQueue
    \/ /\ Untold(new) /\ pending[r] = <<>>
       /\ pending'[r] = Dequeued(followUpMode, followUpQueue)
       /\ followUpQueue' = Remaining(followUpMode, followUpQueue)
       /\ steeringQueue' = steeringQueue

Carries(r, es, new) ==
    /\ evq'[r] = Cat(evq[r], es) /\ Carried(es) = new
    /\ TotalOf(ctx'[r], results'[r]) = Cat(TotalOf(ctx[r], results[r]), new)
    /\ pc'[r] = "ended" => EndsRun(es)

Shows(r, es) ==
    /\ ShowsMsg(es, MsgOf(ctx[r]), MsgOf(ctx'[r]))
    /\ \A x \in CallIds : ShowsCall(es, x, CallOf(pc[r], ctx[r], results[r], x),
                                           CallOf(pc'[r], ctx'[r], results'[r], x))

Effect(r, es, new) == Carries(r, es, new) /\ Shows(r, es) /\ Moves(r, new)

LEMMA PushIs ==
    ASSUME TypeInv, Exclusive, NEW r \in Runs, LoopLives(r), NEW es, Push(r, es)
    PROVE  evq'[r] = Cat(evq[r], es)
<1>1. cons[r] = "reading" /\ evq \in [Runs -> Seq(Events)]
    BY DEF Exclusive, Reading, TypeInv, TypeOK
<1> QED
    BY <1>1 DEF Push, Cat

LEMMA NothingCarried ==
    /\ <<>> \in Seq(Events) /\ Carried(<<>>) = <<>> /\ Untold(<<>>) /\ <<>> \in Seq(Msgs)
    /\ \A old : ShowsMsg(<<>>, old, old)
    /\ \A x, old : ShowsCall(<<>>, x, old, old)
<1>1. Ends(<<>>) = {}
    BY DEF Ends
<1>2. <<>> \in Seq(Events) /\ <<>> \in Seq(Msgs) /\ \A W : \A j \in 1..Len(<<>>) : <<>>[j] \notin W
    OBVIOUS
<1>3. Carried(<<>>) = <<>> /\ Untold(<<>>)
    BY <1>1, CarriedNone, EmptyVia DEF Untold
<1>4. \A W, v, old : Later(<<>>, W, v, old, old)
    BY <1>2, LaterNone
<1> QED
    BY <1>2, <1>3, <1>4 DEF ShowsMsg, ShowsCall

\* One event that is neither the start nor the end of a message.
LEMMA OneEvent ==
    ASSUME NEW e \in Events, e.kind # "message_end"
    PROVE  <<e>> \in Seq(Events) /\ Carried(<<e>>) = <<>>
<1>1. <<e>> \in Seq(Events) /\ Ends(<<e>>) = {}
    BY DEF Ends
<1> QED
    BY <1>1, CarriedNone

LEMMA TotalWhole ==
    ASSUME NEW c \in Seq(Msgs), ~IsPartial(c)
    PROVE  TotalOf(c, <<>>) = c /\ \A res : TotalOf(c, res) = Cat(c, res)
BY CatNone DEF TotalOf, CommittedOf

LEMMA LoopEffect ==
    ASSUME TypeInv, Exclusive, NEW r \in Runs, Shape(r), Loop(r)
    PROVE  \E es \in Seq(Events), new \in Seq(Msgs) : Effect(r, es, new)
<1> DEFINE c == ctx[r]
           res == results[r]
           pend == pending[r]
<1>t. /\ c \in Seq(Msgs) /\ res \in Seq(ToolMsgs) /\ pend \in Seq(UserMsgs)
      /\ res \in Seq(Msgs) /\ pend \in Seq(Msgs)
    BY RunType
<1>d. /\ pc \in [Runs -> {"new", "begin", "calling", "streaming", "answered", "tool",
                          "toolDone", "polled", "followUp", "ended", "crashed"}]
      /\ DOMAIN ctx = Runs /\ DOMAIN results = Runs /\ DOMAIN pending = Runs
    BY DEF TypeInv, TypeOK
<1>s. ShapeOf(pc[r], c, res, pend)
    BY DEF Shape
<1>p. PollSteering(r) => /\ pending'[r] = Dequeued(steeringMode, steeringQueue)
                         /\ steeringQueue' = Remaining(steeringMode, steeringQueue)
                         /\ followUpQueue' = followUpQueue
    BY <1>d DEF PollSteering
<1>e. /\ <<>> \in Seq(Events) /\ Carried(<<>>) = <<>> /\ Untold(<<>>) /\ <<>> \in Seq(Msgs)
      /\ \A old : ShowsMsg(<<>>, old, old)
      /\ \A x, old : ShowsCall(<<>>, x, old, old)
      /\ \A s \in Seq(Msgs) : Cat(s, <<>>) = s
      /\ \A s \in Seq(Events) : Cat(s, <<>>) = s
    BY NothingCarried, CatNone
<1>q. evq[r] \in Seq(Events) /\ TotalOf(c, res) \in Seq(Msgs) /\ CommittedOf(c) \in Seq(Msgs)
    BY <1>t, RunType, CommittedType, CatType DEF TotalOf
<1> USE DEF Goto
<1> HIDE DEF c, res, pend
<1>1. CASE BeginTurn(r)
    <2>1. /\ pc'[r] = "calling" /\ ctx'[r] = Cat(c, pend) /\ results'[r] = res /\ pending'[r] = <<>>
          /\ steeringQueue' = steeringQueue /\ followUpQueue' = followUpQueue
          /\ Push(r, Announce(pend)) /\ pc[r] \in {"begin", "polled", "followUp"}
        BY <1>1, <1>d DEF BeginTurn, EntersTurn, queueVars, Cat, c, res, pend
    <2>2. Final(c) /\ ~IsPartial(c) /\ res = <<>>
        BY <1>s, <2>1 DEF ShapeOf, CommittedOf
    <2>3. Final(Cat(c, pend)) /\ Cat(c, pend) \in Seq(Msgs)
        BY <1>t, <2>2, FinalCat, NoAnswersFinal, CatType
    <2>4. ~IsPartial(Cat(c, pend))
        BY <2>3, FinalWhole
    <2>5. Announce(pend) \in Seq(Events) /\ Carried(Announce(pend)) = pend
        BY <1>t, AnnounceType, CarriedAnnounce
    <2>6. evq'[r] = Cat(evq[r], Announce(pend))
        BY <2>1, PushIs DEF LoopLives
    <2>7. TotalOf(ctx'[r], results'[r]) = Cat(TotalOf(c, res), pend)
        BY <1>t, <2>1, <2>2, <2>3, <2>4, TotalWhole
    <2>8. Carries(r, Announce(pend), pend)
        BY <2>1, <2>5, <2>6, <2>7 DEF Carries, c, res
    <2>9. Shows(r, Announce(pend))
        BY <1>t, <2>1, <2>2, <2>4, ShowsAnnounce DEF Shows, MsgOf, CallOf, c
    <2>10. Moves(r, pend)
        BY <2>1 DEF Moves, pend
    <2> QED
        BY <1>t, <2>5, <2>8, <2>9, <2>10 DEF Effect
<1>2. CASE CallModel(r) \/ LoopThrows(r)
    <2>1. /\ pc[r] = "calling" /\ pc'[r] \in {"streaming", "crashed"}
          /\ ctx'[r] = c /\ results'[r] = res /\ pending'[r] = pend /\ evq'[r] = evq[r]
          /\ steeringQueue' = steeringQueue /\ followUpQueue' = followUpQueue
        BY <1>2, <1>d DEF CallModel, LoopThrows, queueVars, c, res, pend
    <2>2. Carries(r, <<>>, <<>>)
        BY <1>e, <1>q, <2>1 DEF Carries, c, res
    <2>3. Shows(r, <<>>)
        BY <1>e, <2>1 DEF Shows, CallOf, c
    <2>4. Moves(r, <<>>)
        BY <1>e, <2>1 DEF Moves, pend
    <2> QED
        BY <1>e, <2>2, <2>3, <2>4 DEF Effect
<1>3. CASE StreamStart(r)
    <2> DEFINE partial == Assistant(turns + 1, 0, "partial")
               e == Event("message_start", partial)
    <2>1. /\ pc[r] = "streaming" /\ pc'[r] = "streaming" /\ ~IsPartial(c)
          /\ ctx'[r] = Append(c, partial) /\ results'[r] = res /\ pending'[r] = pend
          /\ steeringQueue' = steeringQueue /\ followUpQueue' = followUpQueue
          /\ Push(r, <<e>>)
        BY <1>3, <1>d DEF StreamStart, HasPartial, IsPartial, queueVars, c, res, pend
    <2>2. partial \in Msgs /\ partial.role = "assistant" /\ partial.stop = "partial"
        <3>1. partial \in Msgs
            BY AgentAssumption, MsgTypes DEF AgentAssumption, Msgs, TypeInv, TypeOK
        <3>2. partial.role = "assistant" /\ partial.stop = "partial"
            BY DEF Assistant
        <3> QED
            BY <3>1, <3>2
    <2>3. e.kind = "message_start"
        BY DEF Event
    <2>4. e \in Events /\ e \in MsgEvents /\ MsgShown[e] = partial
        BY <2>2, EventTypes, MsgEventParts
    <2> HIDE DEF partial, e
    <2>5. /\ Append(c, partial) \in Seq(Msgs) /\ Append(c, partial) # <<>>
          /\ LastOf(Append(c, partial)) = partial /\ ButLast(Append(c, partial)) = c
        BY <1>t, <2>2, AppendFacts
    <2>6. EndsWith(Append(c, partial), "assistant") /\ IsPartial(Append(c, partial))
        BY <2>2, <2>5 DEF EndsWith, IsPartial
    <2>7. <<e>> \in Seq(Events) /\ Carried(<<e>>) = <<>>
        BY <2>3, <2>4, OneEvent
    <2>8. evq'[r] = Cat(evq[r], <<e>>)
        BY <2>1, PushIs DEF LoopLives
    <2>9. Carries(r, <<e>>, <<>>)
        <3>1. CommittedOf(ctx'[r]) = c /\ CommittedOf(c) = c
            BY <2>1, <2>5, <2>6 DEF CommittedOf
        <3>2. TotalOf(ctx'[r], results'[r]) = TotalOf(c, res)
            BY <2>1, <3>1 DEF TotalOf
        <3> QED
            BY <1>e, <1>q, <2>1, <2>7, <2>8, <3>2 DEF Carries, c, res
    <2>10. Shows(r, <<e>>)
        <3>1. MsgOf(c) = NoMsg /\ MsgOf(ctx'[r]) = partial
            BY <2>1, <2>5, <2>6 DEF MsgOf
        <3>2. ShowsMsg(<<e>>, NoMsg, partial)
            BY <2>4, ShowsOne
        <3>3. \A x : ShowsCall(<<e>>, x, "off", "off")
            BY <2>3, <2>4, ShowsOne, NotCallEvents
        <3> QED
            BY <2>1, <3>1, <3>2, <3>3 DEF Shows, CallOf, c
    <2>11. Moves(r, <<>>)
        BY <1>e, <2>1 DEF Moves, pend
    <2> QED
        BY <1>e, <2>7, <2>9, <2>10, <2>11 DEF Effect
<1>4. CASE StreamEnd(r)
    <2> DEFINE before == CommittedOf(c)
    <2>1. PICK k \in 0..MaxCalls, stop \in {"stop", "error", "aborted"} :
             /\ ctx' = [ctx EXCEPT ![r] = Append(IF HasPartial(r) THEN ButLast(@) ELSE @,
                                                 Assistant(turns + 1, k, stop))]
             /\ Push(r, IF HasPartial(r)
                        THEN <<Event("message_end", Assistant(turns + 1, k, stop))>>
                        ELSE Announce(<<Assistant(turns + 1, k, stop)>>))
        BY <1>4 DEF StreamEnd
    <2> DEFINE final == Assistant(turns + 1, k, stop)
               one == <<final>>
               e == Event("message_end", final)
               es == IF IsPartial(c) THEN <<e>> ELSE Announce(one)
    <2>2. /\ pc[r] = "streaming" /\ pc'[r] = "answered"
          /\ ctx'[r] = Append(before, final) /\ results'[r] = res /\ pending'[r] = pend
          /\ steeringQueue' = steeringQueue /\ followUpQueue' = followUpQueue
          /\ Push(r, es)
        BY <1>4, <1>d, <2>1 DEF StreamEnd, HasPartial, IsPartial, CommittedOf, queueVars, c, res, pend
    <2>3. final \in Msgs /\ final.role = "assistant" /\ final.stop # "partial"
        <3>1. final \in Msgs
            BY MsgTypes DEF Msgs, TypeInv, TypeOK
        <3>2. final.role = "assistant" /\ final.stop # "partial"
            BY DEF Assistant
        <3> QED
            BY <3>1, <3>2
    <2>4. e.kind = "message_end"
        BY DEF Event
    <2>5. e \in Events /\ e \in MsgEvents /\ MsgShown[e] = NoMsg
        BY <2>3, EventTypes, MsgEventParts
    <2>6. Carried(<<e>>) = one
        BY <2>3, CarriedOne
    <2>7. one \in Seq(Msgs) /\ <<e>> \in Seq(Events) /\ one # <<>>
        BY <2>3, <2>5
    <2>8. Untold(one)
        BY <2>3, OneVia DEF IsVia, Untold
    <2>9. before \in Seq(Msgs)
        BY <1>q
    <2> HIDE DEF final, e
    <2>10. /\ Append(before, final) \in Seq(Msgs) /\ Append(before, final) # <<>>
           /\ LastOf(Append(before, final)) = final
           /\ Append(before, final) = Cat(before, one)
        BY <2>3, <2>9, AppendFacts
    <2> HIDE DEF before, one
    <2>11. ~IsPartial(Append(before, final))
        BY <2>3, <2>10 DEF IsPartial
    <2>12. es \in Seq(Events) /\ Carried(es) = one
        BY <2>6, <2>7, AnnounceType, CarriedAnnounce
    <2>13. /\ ShowsMsg(es, MsgOf(c), NoMsg)
           /\ \A x : ShowsCall(es, x, "off", "off")
        <3>1. CASE IsPartial(c)
            BY <2>4, <2>5, <3>1, ShowsOne, NotCallEvents
        <3>2. CASE ~IsPartial(c)
            BY <2>7, <3>2, ShowsAnnounce DEF MsgOf
        <3> QED
            BY <3>1, <3>2
    <2> HIDE DEF es
    <2>14. evq'[r] = Cat(evq[r], es)
        BY <2>2, PushIs DEF LoopLives
    <2>15. Carries(r, es, one)
        <3>1. res = <<>>
            BY <1>s, <2>2 DEF ShapeOf
        <3>2. TotalOf(ctx'[r], results'[r]) = Append(before, final)
            BY <2>2, <2>10, <2>11, <3>1, TotalWhole
        <3>3. TotalOf(c, res) = before
            BY <1>e, <2>9, <3>1 DEF TotalOf, before
        <3> QED
            BY <2>2, <2>10, <2>12, <2>14, <3>2, <3>3 DEF Carries, c, res
    <2>16. Shows(r, es)
        <3>1. MsgOf(ctx'[r]) = NoMsg
            BY <2>2, <2>11 DEF MsgOf
        <3> QED
            BY <2>2, <2>13, <3>1 DEF Shows, CallOf, c
    <2>17. Moves(r, one)
        BY <2>2, <2>8 DEF Moves, pend
    <2> QED
        BY <2>7, <2>12, <2>15, <2>16, <2>17 DEF Effect
<1>5. CASE TurnFailed(r)
    <2> DEFINE m == LastOf(c)
               e == Event("turn_end", m)
               es == <<e, AgentEnd>>
    <2>1. /\ pc[r] = "answered" /\ pc'[r] = "ended"
          /\ ctx'[r] = c /\ results'[r] = res /\ pending'[r] = pend
          /\ steeringQueue' = steeringQueue /\ followUpQueue' = followUpQueue
          /\ Push(r, es)
        BY <1>5, <1>d DEF TurnFailed, queueVars, c, res, pend
    <2>2. m \in Msgs
        BY <2>1, AnswerFacts DEF Working, c
    <2>3. e \in Events /\ AgentEnd \in Events /\ e.kind = "turn_end" /\ AgentEnd.kind = "agent_end"
          /\ e \notin MsgEvents /\ AgentEnd \notin MsgEvents
        <3>1. e.kind = "turn_end" /\ AgentEnd.kind = "agent_end"
            BY DEF Event, AgentEnd
        <3> QED
            BY <2>2, <3>1, EventTypes, MsgEventParts
    <2> HIDE DEF e
    <2>4. /\ es \in Seq(Events) /\ Len(es) = 2 /\ es[1] = e /\ es[2] = AgentEnd /\ es # <<>>
          /\ ButLast(es) = <<e>> /\ \A j \in 1..Len(es) : es[j] = e \/ es[j] = AgentEnd
        <3>1. /\ es \in Seq(Events) /\ Len(es) = 2 /\ es[1] = e /\ es[2] = AgentEnd /\ es # <<>>
              /\ \A j \in 1..2 : j = 1 \/ j = 2
            BY <2>3
        <3>2. ButLast(es) = <<e>>
            <4> DEFINE one == <<e>>
            <4>1. es = Append(one, AgentEnd) /\ one \in Seq(Events)
                BY <2>3
            <4> HIDE DEF one, es
            <4>2. ButLast(es) = one
                BY <2>3, <4>1, AppendFacts
            <4> QED
                BY <4>2 DEF one
        <3> QED
            BY <3>1, <3>2
    <2> HIDE DEF es
    <2>5. EndsRun(es)
        BY <2>3, <2>4 DEF EndsRun, LastOf, NoEnd
    <2>6. Carried(es) = <<>>
        <3>1. Ends(es) = {}
            BY <2>3, <2>4 DEF Ends
        <3> QED
            BY <3>1, CarriedNone
    <2>7. (\A old : ShowsMsg(es, old, old)) /\ \A x, old : ShowsCall(es, x, old, old)
        <3>1. \A j \in 1..Len(es) : es[j] \notin MsgEvents
            BY <2>3, <2>4
        <3>2. \A x : \A j \in 1..Len(es) : es[j] \notin CallEventsOf(x)
            BY <2>3, <2>4, NotCallEvents
        <3> QED
            BY <3>1, <3>2, LaterNone DEF ShowsMsg, ShowsCall
    <2>8. evq'[r] = Cat(evq[r], es)
        BY <2>1, PushIs DEF LoopLives
    <2>9. Carries(r, es, <<>>)
        BY <1>e, <1>q, <2>1, <2>5, <2>6, <2>8 DEF Carries, c, res
    <2>10. Shows(r, es)
        BY <2>1, <2>7 DEF Shows, CallOf, c
    <2>11. Moves(r, <<>>)
        BY <1>e, <2>1 DEF Moves, pend
    <2> QED
        BY <1>e, <2>4, <2>9, <2>10, <2>11 DEF Effect
<1>6. CASE TurnWithoutTools(r)
    <2> DEFINE e == Event("turn_end", LastOf(c))
    <2>1. /\ pc[r] = "answered" /\ pc'[r] = "polled"
          /\ ctx'[r] = c /\ results'[r] = res /\ PollSteering(r)
          /\ Push(r, <<e>>)
        BY <1>6, <1>d DEF TurnWithoutTools, c, res
    <2>2. e \in Events /\ e.kind = "turn_end" /\ e \notin MsgEvents
        <3>1. LastOf(c) \in Msgs
            BY <2>1, AnswerFacts DEF Working, c
        <3>2. e.kind = "turn_end"
            BY DEF Event
        <3> QED
            BY <3>1, <3>2, EventTypes, MsgEventParts
    <2> HIDE DEF e
    <2>3. <<e>> \in Seq(Events) /\ Carried(<<e>>) = <<>>
        BY <2>2, OneEvent
    <2>4. (\A old : ShowsMsg(<<e>>, old, old)) /\ \A x, old : ShowsCall(<<e>>, x, old, old)
        BY <2>2, ShowsOne, NotCallEvents
    <2>5. evq'[r] = Cat(evq[r], <<e>>)
        BY <2>1, PushIs DEF LoopLives
    <2>6. Carries(r, <<e>>, <<>>)
        BY <1>e, <1>q, <2>1, <2>3, <2>5 DEF Carries, c, res
    <2>7. Shows(r, <<e>>)
        BY <2>1, <2>4 DEF Shows, CallOf, c
    <2>8. Moves(r, <<>>)
        <3>1. pending[r] = <<>>
            BY <1>s, <2>1 DEF ShapeOf, pend
        <3> QED
            BY <1>e, <1>p, <2>1, <3>1 DEF Moves
    <2> QED
        BY <1>e, <2>3, <2>6, <2>7, <2>8 DEF Effect
<1>7. CASE StartTool(r)
    <2> DEFINE e == CallEvent("tool_execution_start", NextCall(r))
    <2>1. /\ pc[r] \in {"answered", "toolDone"} /\ pc'[r] = "tool"
          /\ ctx'[r] = c /\ results'[r] = res /\ pending'[r] = pend
          /\ steeringQueue' = steeringQueue /\ followUpQueue' = followUpQueue
          /\ Push(r, <<e>>)
        BY <1>7, <1>d DEF StartTool, queueVars, c, res, pend
    <2>2. NextCall(r) \in CallIds /\ NextCall(r) = Call(LastOf(c), Len(res) + 1)
        BY <2>1, NextCallType DEF NextCall, c, res
    <2>3. e \in Events /\ e.kind = "tool_execution_start" /\ e \notin MsgEvents
        <3>1. e.kind = "tool_execution_start"
            BY DEF CallEvent
        <3> QED
            BY <2>2, <3>1, EventTypes, CallEventParts
    <2>4. \A x \in CallIds : ShowsCall(<<e>>, x, "off", IF x = NextCall(r) THEN "on" ELSE "off")
        BY <2>2, <2>3, ShowsOne, CallEventParts
    <2> HIDE DEF e
    <2>5. <<e>> \in Seq(Events) /\ Carried(<<e>>) = <<>>
        BY <2>3, OneEvent
    <2>6. \A old : ShowsMsg(<<e>>, old, old)
        BY <2>3, ShowsOne
    <2>7. evq'[r] = Cat(evq[r], <<e>>)
        BY <2>1, PushIs DEF LoopLives
    <2>8. Carries(r, <<e>>, <<>>)
        BY <1>e, <1>q, <2>1, <2>5, <2>7 DEF Carries, c, res
    <2>9. Shows(r, <<e>>)
        BY <2>1, <2>2, <2>4, <2>6 DEF Shows, CallOf, c
    <2>10. Moves(r, <<>>)
        BY <1>e, <2>1 DEF Moves, pend
    <2> QED
        BY <1>e, <2>5, <2>8, <2>9, <2>10 DEF Effect
<1>8. CASE FinishTool(r)
    <2> DEFINE result == ToolResult(NextCall(r), FALSE)
               one == <<result>>
               es == CallEnds(result)
    <2>1. /\ pc[r] = "tool" /\ pc'[r] = "toolDone" /\ ctx'[r] = c
          /\ results'[r] = Append(res, result) /\ PollSteering(r) /\ Push(r, es)
        BY <1>8, <1>d DEF FinishTool, c, res
    <2>2. /\ result \in ToolMsgs /\ result \in Msgs /\ result.role # "user"
          /\ result.call = Call(LastOf(c), Len(res) + 1)
        <3>1. result.role # "user" /\ result.call = NextCall(r)
            BY DEF ToolResult
        <3>2. result \in ToolMsgs
            BY <2>1, NextCallType, MsgTypes
        <3> QED
            BY <3>1, <3>2 DEF Msgs, NextCall, c, res
    <2>3. es \in Seq(Events) /\ Carried(es) = one
        BY <2>2, CallEndsType, CarriedCallEnds
    <2>4. /\ ShowsMsg(es, NoMsg, NoMsg)
          /\ \A x : x # result.call => ShowsCall(es, x, "off", "off")
          /\ ShowsCall(es, result.call, "on", "off")
        BY <2>2, ShowsCallEnds
    <2> HIDE DEF result
    <2>5. one \in Seq(Msgs) /\ Untold(one)
        <3>1. one \in Seq(Msgs)
            BY <2>2
        <3>2. Untold(one)
            BY <2>2, OneVia DEF IsVia, Untold
        <3> QED
            BY <3>1, <3>2
    <2>6. Append(res, result) = Cat(res, one) /\ Append(res, result) \in Seq(Msgs)
        BY <1>t, <2>2, AppendFacts
    <2> HIDE DEF es, one
    <2>7. evq'[r] = Cat(evq[r], es)
        BY <2>1, PushIs DEF LoopLives
    <2>8. ~IsPartial(c)
        BY <1>s, <2>1 DEF ShapeOf
    <2>9. Carries(r, es, one)
        <3>1. TotalOf(ctx'[r], results'[r]) = Cat(TotalOf(c, res), one)
            BY <1>t, <2>1, <2>5, <2>6, <2>8, TotalWhole, CatAssoc
        <3> QED
            BY <2>1, <2>3, <2>7, <3>1 DEF Carries, c, res
    <2>10. Shows(r, es)
        <3>1. MsgOf(c) = NoMsg
            BY <2>8 DEF MsgOf
        <3>2. \A x : /\ CallOf(pc'[r], ctx'[r], results'[r], x) = "off"
                     /\ CallOf(pc[r], c, res, x) = IF x = result.call THEN "on" ELSE "off"
            BY <2>1, <2>2 DEF CallOf
        <3> QED
            BY <2>1, <2>4, <3>1, <3>2 DEF Shows, c, res
    <2>11. Moves(r, one)
        <3>1. pending[r] = <<>>
            BY <1>s, <2>1 DEF ShapeOf, pend
        <3> QED
            BY <1>p, <2>1, <2>5, <3>1 DEF Moves
    <2> QED
        BY <2>3, <2>5, <2>9, <2>10, <2>11 DEF Effect
<1>9. CASE EndTools(r)
    <2> DEFINE skips == Skipped(r)
               e == Event("turn_end", LastOf(c))
               es == Append(SkipEvents(skips), e)
    <2>1. /\ pc[r] = "toolDone" /\ pc'[r] = "polled" /\ results'[r] = <<>>
          /\ ctx'[r] = Cat(Cat(c, res), skips) /\ Push(r, es)
        BY <1>9, <1>d DEF EndTools, Cat, c, res
    <2>2. \/ pending'[r] = pend /\ steeringQueue' = steeringQueue /\ followUpQueue' = followUpQueue
          \/ pending[r] = <<>> /\ PollSteering(r)
        BY <1>9 DEF EndTools, queueVars, pend
    <2>3. ~IsPartial(c) /\ Len(res) <= LastOf(c).calls /\ Final(c)
        BY <1>s, <2>1 DEF ShapeOf, ToolsShape, CommittedOf
    <2>4. /\ skips \in Seq(ToolMsgs) /\ skips \in Seq(Msgs)
          /\ \A k \in 1..Len(skips) : skips[k].call = Call(LastOf(c), Len(res) + k)
        BY <2>1, <2>3, SkippedFacts, RolesOf DEF c, res
    <2> HIDE DEF skips
    <2>5. \A j, k \in 1..Len(skips) : skips[j].call = skips[k].call => j = k
        <3>1. Len(res) \in Nat
            BY <1>t
        <3>2. ASSUME NEW j \in 1..Len(skips), NEW k \in 1..Len(skips), skips[j].call = skips[k].call
              PROVE  j = k
            <4>1. Call(LastOf(c), Len(res) + j) = Call(LastOf(c), Len(res) + k)
                BY <2>4, <3>2
            <4>2. Len(res) + j = Len(res) + k
                BY <4>1 DEF Call
            <4> QED
                BY <3>1, <4>2
        <3> QED
            BY <3>2
    <2>6. e \in Events /\ e.kind = "turn_end" /\ e \notin MsgEvents
        <3>1. LastOf(c) \in Msgs
            BY <2>1, AnswerFacts DEF Working, c
        <3>2. e.kind = "turn_end"
            BY DEF Event
        <3> QED
            BY <3>1, <3>2, EventTypes, MsgEventParts
    <2> HIDE DEF e
    <2>7. <<e>> \in Seq(Events) /\ Carried(<<e>>) = <<>>
        BY <2>6, OneEvent
    <2>8. SkipEvents(skips) \in Seq(Events) /\ Carried(SkipEvents(skips)) = skips
        BY <2>4, SkipEventsType, CarriedSkipEvents
    <2>9. es = Cat(SkipEvents(skips), <<e>>) /\ es \in Seq(Events)
        BY <2>6, <2>8, AppendFacts
    <2>10. Carried(es) = skips
        <3>1. Carried(es) = Cat(skips, Carried(<<e>>))
            BY ONLY <2>7, <2>8, <2>9, CarriedConcat
        <3> QED
            BY <1>e, <2>4, <2>7, <3>1
    <2>11. ShowsMsg(es, NoMsg, NoMsg) /\ \A x : ShowsCall(es, x, "off", "off")
        <3>1. ShowsMsg(<<e>>, NoMsg, NoMsg) /\ \A x : ShowsCall(<<e>>, x, "off", "off")
            BY <2>6, ShowsOne, NotCallEvents
        <3>2. /\ ShowsMsg(SkipEvents(skips), NoMsg, NoMsg)
              /\ \A x : ShowsCall(SkipEvents(skips), x, "off", "off")
            BY <2>4, <2>5, ShowsSkipEvents
        <3> QED
            BY <2>7, <2>8, <2>9, <3>1, <3>2, LaterConcat DEF ShowsMsg, ShowsCall
    <2> HIDE DEF es
    <2>12. evq'[r] = Cat(evq[r], es)
        BY <2>1, PushIs DEF LoopLives
    <2>13. Untold(skips)
        BY <2>4, ToolsViaNone DEF Untold
    <2>14. Cat(Cat(c, res), skips) \in Seq(Msgs) /\ ~IsPartial(Cat(Cat(c, res), skips))
        <3>1. Final(res) /\ Final(skips)
            BY <1>t, <2>4, NoAnswersFinal
        <3>2. Cat(c, res) \in Seq(Msgs) /\ Final(Cat(c, res))
            BY <1>t, <2>3, <3>1, FinalCat, CatType
        <3>3. Cat(Cat(c, res), skips) \in Seq(Msgs) /\ Final(Cat(Cat(c, res), skips))
            BY <2>4, <3>1, <3>2, FinalCat, CatType
        <3> QED
            BY <3>3, FinalWhole
    <2>15. Carries(r, es, skips)
        <3>1. TotalOf(ctx'[r], results'[r]) = Cat(TotalOf(c, res), skips)
            BY <1>t, <2>1, <2>3, <2>14, TotalWhole
        <3> QED
            BY <2>1, <2>10, <2>12, <3>1 DEF Carries, c, res
    <2>16. Shows(r, es)
        <3>1. MsgOf(c) = NoMsg /\ MsgOf(ctx'[r]) = NoMsg
            BY <2>1, <2>3, <2>14 DEF MsgOf
        <3> QED
            BY <2>1, <2>11, <3>1 DEF Shows, CallOf, c
    <2>17. Moves(r, skips)
        BY <1>p, <2>2, <2>13 DEF Moves, pend
    <2> QED
        BY <2>4, <2>9, <2>15, <2>16, <2>17 DEF Effect
<1>10. CASE PollFollowUp(r)
    <2>1. /\ pc[r] = "polled" /\ pc'[r] = "followUp" /\ pending[r] = <<>>
          /\ ctx'[r] = c /\ results'[r] = res /\ evq'[r] = evq[r]
          /\ pending'[r] = Dequeued(followUpMode, followUpQueue)
          /\ steeringQueue' = steeringQueue
          /\ followUpQueue' = Remaining(followUpMode, followUpQueue)
        BY <1>10, <1>d DEF PollFollowUp, EntersTurn, c, res
    <2>2. Carries(r, <<>>, <<>>)
        BY <1>e, <1>q, <2>1 DEF Carries, c, res
    <2>3. Shows(r, <<>>)
        BY <1>e, <2>1 DEF Shows, CallOf, c
    <2>4. Moves(r, <<>>)
        BY <1>e, <2>1 DEF Moves
    <2> QED
        BY <1>e, <2>2, <2>3, <2>4 DEF Effect
<1>11. CASE EndLoop(r)
    <2> DEFINE es == <<AgentEnd>>
    <2>1. /\ pc[r] = "followUp" /\ pc'[r] = "ended"
          /\ ctx'[r] = c /\ results'[r] = res /\ pending'[r] = pend
          /\ steeringQueue' = steeringQueue /\ followUpQueue' = followUpQueue
          /\ Push(r, es)
        BY <1>11, <1>d DEF EndLoop, queueVars, c, res, pend
    <2>2. AgentEnd \in Events /\ AgentEnd.kind = "agent_end"
        BY EventTypes DEF AgentEnd
    <2>3. AgentEnd \notin MsgEvents
        BY <2>2 DEF MsgEvents
    <2>4. es \in Seq(Events) /\ Carried(es) = <<>>
        BY <2>2, OneEvent
    <2>5. (\A old : ShowsMsg(es, old, old)) /\ \A x, old : ShowsCall(es, x, old, old)
        BY <2>2, <2>3, ShowsOne, NotCallEvents
    <2>6. EndsRun(es)
        BY DEF EndsRun, LastOf, ButLast, NoEnd
    <2> HIDE DEF es
    <2>7. evq'[r] = Cat(evq[r], es)
        BY <2>1, PushIs DEF LoopLives
    <2>8. Carries(r, es, <<>>)
        BY <1>e, <1>q, <2>1, <2>4, <2>6, <2>7 DEF Carries, c, res
    <2>9. Shows(r, es)
        BY <2>1, <2>5 DEF Shows, CallOf, c
    <2>10. Moves(r, <<>>)
        BY <1>e, <2>1 DEF Moves, pend
    <2> QED
        BY <1>e, <2>4, <2>8, <2>9, <2>10 DEF Effect
<1> QED
    BY <1>1, <1>2, <1>3, <1>4, <1>5, <1>6, <1>7, <1>8, <1>9, <1>10, <1>11 DEF Loop

\* A run that has announced its end, and one more event of it consumed.
LEMMA EndsRunCat ==
    ASSUME NEW q \in Seq(Events), NEW es \in Seq(Events), NoEnd(q), EndsRun(es)
    PROVE  EndsRun(Cat(q, es))
<1> DEFINE b == ButLast(es)
           t == Cat(q, b)
<1>1. es # <<>> /\ LastOf(es) = AgentEnd /\ NoEnd(b) /\ AgentEnd \in Events
    BY EventTypes DEF EndsRun
<1>2. b \in Seq(Events) /\ es = Append(b, AgentEnd)
    <2>1. /\ Len(es) \in Nat \ {0} /\ Len(b) = Len(es) - 1 /\ b \in Seq(Events)
          /\ LastOf(es) = es[Len(es)] /\ \A i \in 1..(Len(es) - 1) : b[i] = es[i]
        BY <1>1, ButLastFacts
    <2> HIDE DEF b
    <2>2. es = Append(b, AgentEnd)
        BY <1>1, <2>1
    <2> QED
        BY <2>1, <2>2
<1> HIDE DEF b
<1>3. t \in Seq(Events) /\ NoEnd(t) /\ Cat(q, es) = Append(t, AgentEnd)
    <2>1. t \in Seq(Events)
        BY <1>2, CatType
    <2>2. NoEnd(t)
        BY <1>1, <1>2, NoEndConcat DEF Cat
    <2>3. Cat(q, es) = Append(t, AgentEnd)
        BY <1>1, <1>2 DEF Cat
    <2> QED
        BY <2>1, <2>2, <2>3
<1> HIDE DEF t
<1>4. /\ Append(t, AgentEnd) # <<>> /\ LastOf(Append(t, AgentEnd)) = AgentEnd
      /\ ButLast(Append(t, AgentEnd)) = t
    BY <1>1, <1>3, AppendFacts
<1> QED
    BY <1>3, <1>4 DEF EndsRun

LEMMA EndsRunTail ==
    ASSUME NEW q \in Seq(Events), EndsRun(q)
    PROVE  /\ Head(q) = AgentEnd => Tail(q) = <<>>
           /\ Head(q) # AgentEnd => EndsRun(Tail(q))
<1> DEFINE b == ButLast(q)
           t == Tail(q)
<1>1. /\ q # <<>> /\ q[Len(q)] = AgentEnd /\ Len(q) \in Nat \ {0} /\ Len(b) = Len(q) - 1
      /\ \A i \in 1..(Len(q) - 1) : b[i] = q[i]
      /\ \A i \in 1..(Len(q) - 1) : b[i].kind # "agent_end"
    BY ButLastFacts DEF EndsRun, NoEnd, LastOf
<1> HIDE DEF b
<1>2. AgentEnd.kind = "agent_end" /\ Head(q) = q[1] /\ t \in Seq(Events)
      /\ Len(t) = Len(q) - 1 /\ \A i \in 1..(Len(q) - 1) : t[i] = q[i + 1]
    BY <1>1 DEF AgentEnd
<1> HIDE DEF t
<1>3. ASSUME Head(q) = AgentEnd PROVE t = <<>>
    <2>1. Len(q) = 1
        BY <1>1, <1>2, <1>3
    <2> QED
        BY <1>2, <2>1
<1>4. ASSUME Head(q) # AgentEnd PROVE EndsRun(t)
    <2>1. Len(q) > 1 /\ t # <<>>
        BY <1>1, <1>2, <1>4
    <2> DEFINE tb == ButLast(t)
    <2>2. /\ Len(tb) = Len(t) - 1 /\ LastOf(t) = t[Len(t)]
          /\ \A i \in 1..(Len(t) - 1) : tb[i] = t[i]
        BY <1>2, <2>1, ButLastFacts
    <2> HIDE DEF tb
    <2>3. LastOf(t) = AgentEnd
        BY <1>1, <1>2, <2>1, <2>2
    <2>4. \A i \in 1..Len(tb) : i + 1 \in 1..(Len(q) - 1) /\ tb[i] = q[i + 1]
        BY <1>1, <1>2, <2>1, <2>2
    <2>5. NoEnd(tb)
        BY <1>1, <2>4 DEF NoEnd
    <2> QED
        BY <2>1, <2>3, <2>5 DEF EndsRun, tb
<1> QED
    BY <1>3, <1>4 DEF t

-----------------------------------------------------------------------------
(* The invariant: what the transcript, the events under way and a run's    *)
(* context have to do with each other.                                     *)

RunOf(cn, p, c, res, q, ms) ==
    /\ p = "new" <=> cn = "new"
    /\ cn = "reading" => Cat(ms, Carried(q)) = TotalOf(c, res)
    /\ cn = "reading" /\ p = "ended" => EndsRun(q)
    /\ cn = "exiting" => p = "ended" /\ ms = c

Run(r) == RunOf(cons[r], pc[r], ctx[r], results[r], evq[r], messages)
NoneOpen == \A r \in Runs : ~Open(r)
Idle == NoneOpen => Sound(messages)

Core == Sources /\ (\A r \in Runs : Shape(r) /\ Run(r)) /\ Idle

LEMMA RunPrimed ==
    ASSUME NEW r
    PROVE  Run(r)' <=> RunOf(cons'[r], pc'[r], ctx'[r], results'[r], evq'[r], messages')
BY DEF Run, RunOf, Cat, Carried, Ends, Picked, Rank, TotalOf, CommittedOf, IsPartial, EndsWith,
       LastOf, ButLast, EndsRun, NoEnd, AgentEnd

LEMMA IdlePrimed ==
    /\ NoneOpen' <=> \A r \in Runs : cons'[r] \notin {"reading", "exiting"}
    /\ Idle' <=> (NoneOpen' => Sound(messages'))
BY DEF Idle, NoneOpen, Open, Sound, Complete, FollowUpsLast, Final, IsVia, Call

LEMMA CorePrimed ==
    ASSUME Sources', Idle',
           \A r \in Runs : /\ ShapeOf(pc'[r], ctx'[r], results'[r], pending'[r])
                           /\ RunOf(cons'[r], pc'[r], ctx'[r], results'[r], evq'[r], messages')
    PROVE  Core'
BY ShapePrimed, RunPrimed DEF Core

LEMMA LoopFrame ==
    ASSUME TypeInv, NEW r \in Runs, Loop(r)
    PROVE  /\ LoopLives(r) /\ pc'[r] # "new"
           /\ messages' = messages /\ streamMessage' = streamMessage
           /\ pendingToolCalls' = pendingToolCalls /\ cons' = cons
           /\ steered' = steered /\ followed' = followed
           /\ \A q \in Runs \ {r} : /\ pc'[q] = pc[q] /\ ctx'[q] = ctx[q]
                                    /\ results'[q] = results[q] /\ pending'[q] = pending[q]
                                    /\ evq'[q] = evq[q]
<1> USE DEF Goto, Push, agentVars, queueVars, handleVars, historyVars, LoopLives
<1>d. /\ DOMAIN pc = Runs /\ DOMAIN ctx = Runs /\ DOMAIN pending = Runs
      /\ DOMAIN results = Runs /\ DOMAIN evq = Runs
    BY DEF TypeInv, TypeOK
<1>1. CASE BeginTurn(r)
    BY <1>1, <1>d DEF BeginTurn, EntersTurn
<1>2. CASE CallModel(r) \/ LoopThrows(r)
    BY <1>2, <1>d DEF CallModel, LoopThrows
<1>3. CASE StreamStart(r)
    BY <1>3, <1>d DEF StreamStart
<1>4. CASE StreamEnd(r)
    <2>1. /\ pc[r] = "streaming" /\ pc' = [pc EXCEPT ![r] = "answered"]
          /\ UNCHANGED <<agentVars, queueVars, handleVars, used, steered, followed,
                         cons, signal, pending, results>>
        BY <1>4 DEF StreamEnd
    <2>2. PICK c, es : ctx' = [ctx EXCEPT ![r] = c] /\ evq' = [evq EXCEPT ![r] = es]
        BY <1>4 DEF StreamEnd
    <2> QED
        BY <1>d, <2>1, <2>2
<1>5. CASE TurnFailed(r)
    BY <1>5, <1>d DEF TurnFailed
<1>6. CASE TurnWithoutTools(r)
    BY <1>6, <1>d DEF TurnWithoutTools, PollSteering
<1>7. CASE StartTool(r)
    BY <1>7, <1>d DEF StartTool
<1>8. CASE FinishTool(r)
    BY <1>8, <1>d DEF FinishTool, PollSteering
<1>9. CASE EndTools(r)
    <2>1. /\ pc[r] = "toolDone" /\ pc' = [pc EXCEPT ![r] = "polled"]
          /\ UNCHANGED <<agentVars, handleVars, historyVars, cons, signal>>
          /\ results' = [results EXCEPT ![r] = <<>>]
        BY <1>9 DEF EndTools
    <2>2. PICK c, es : ctx' = [ctx EXCEPT ![r] = c] /\ evq' = [evq EXCEPT ![r] = es]
        BY <1>9 DEF EndTools
    <2>3. \A q \in Runs \ {r} : pending'[q] = pending[q]
        <3>1. pending' = pending \/ PollSteering(r)
            BY <1>9 DEF EndTools
        <3>2. PollSteering(r) =>
                 pending' = [pending EXCEPT ![r] = Dequeued(steeringMode, steeringQueue)]
            BY DEF PollSteering
        <3> QED
            BY <1>d, <3>1, <3>2
    <2> QED
        BY <1>d, <2>1, <2>2, <2>3
<1>10. CASE PollFollowUp(r)
    BY <1>10, <1>d DEF PollFollowUp
<1>11. CASE EndLoop(r)
    BY <1>11, <1>d DEF EndLoop
<1> QED
    BY <1>1, <1>2, <1>3, <1>4, <1>5, <1>6, <1>7, <1>8, <1>9, <1>10, <1>11 DEF Loop

LEMMA CoreLoop ==
    ASSUME TypeInv, Exclusive, Core, NEW r \in Runs, Loop(r)
    PROVE  Core'
<1>1. /\ LoopLives(r) /\ pc'[r] # "new" /\ messages' = messages /\ cons' = cons
      /\ \A q \in Runs \ {r} : /\ pc'[q] = pc[q] /\ ctx'[q] = ctx[q]
                               /\ results'[q] = results[q] /\ pending'[q] = pending[q]
                               /\ evq'[q] = evq[q]
    BY LoopFrame
<1>2. /\ cons[r] = "reading" /\ NoEnd(evq[r]) /\ Open(r)
      /\ \A q \in Runs \ {r} : cons[q] \notin {"reading", "exiting"}
    BY <1>1 DEF Exclusive, Reading, Open
<1>3. Sources' /\ ShapeOf(pc'[r], ctx'[r], results'[r], pending'[r])
    BY LoopShape, ShapePrimed DEF Core
<1>4. PICK es \in Seq(Events), new \in Seq(Msgs) : Effect(r, es, new)
    BY LoopEffect DEF Core
<1>5. /\ evq'[r] = Cat(evq[r], es) /\ Carried(es) = new
      /\ TotalOf(ctx'[r], results'[r]) = Cat(TotalOf(ctx[r], results[r]), new)
      /\ pc'[r] = "ended" => EndsRun(es)
    BY <1>4 DEF Effect, Carries
<1>6. /\ evq[r] \in Seq(Events) /\ messages \in Seq(Msgs) /\ Carried(evq[r]) \in Seq(Msgs)
      /\ Cat(messages, Carried(evq[r])) = TotalOf(ctx[r], results[r])
    BY <1>2, RunType, CarriedType DEF Core, Run, RunOf
<1>7. Cat(messages, Carried(evq'[r])) = TotalOf(ctx'[r], results'[r])
    <2>1. Carried(evq'[r]) = Cat(Carried(evq[r]), new)
        BY <1>5, <1>6, CarriedConcat
    <2> QED
        BY <1>5, <1>6, <2>1, CatAssoc
<1>8. pc'[r] = "ended" => EndsRun(evq'[r])
    BY <1>2, <1>5, <1>6, EndsRunCat
<1>9. RunOf(cons'[r], pc'[r], ctx'[r], results'[r], evq'[r], messages')
    BY <1>1, <1>2, <1>7, <1>8 DEF RunOf
<1>10. ASSUME NEW q \in Runs, q # r
       PROVE  /\ ShapeOf(pc'[q], ctx'[q], results'[q], pending'[q])
              /\ RunOf(cons'[q], pc'[q], ctx'[q], results'[q], evq'[q], messages')
    BY <1>1, <1>2, <1>10 DEF Core, Shape, Run, RunOf
<1>11. Idle'
    BY <1>1, <1>2, IdlePrimed
<1> QED
    BY <1>3, <1>9, <1>10, <1>11, CorePrimed

\* A run that starts.
LEMMA CoreBegin ==
    ASSUME TypeInv, Core, NoneOpen, NEW r \in Runs,
           NEW new \in Seq(UserMsgs), FollowUpsLast(Cat(messages, new)), NEW skipPoll \in BOOLEAN,
           NEW sq \in Seq(UserMsgs), AllVia("steer", sq),
           NEW fq \in Seq(UserMsgs), AllVia("followUp", fq),
           BeginRun(r, new, skipPoll, sq, fq)
    PROVE  Core'
<1>1. Sound(messages) /\ messages \in Seq(Msgs) /\ new \in Seq(Msgs)
    BY RunType, RolesOf DEF Core, Idle
<1>d. /\ DOMAIN pc = Runs /\ DOMAIN ctx = Runs /\ DOMAIN pending = Runs
      /\ DOMAIN cons = Runs /\ DOMAIN evq = Runs
    BY DEF TypeInv, TypeOK
<1>2. /\ cons[r] = "new" /\ cons'[r] = "reading" /\ pc'[r] = "begin" /\ results' = results
      /\ evq'[r] = Announce(new) /\ ctx'[r] = Cat(messages, new) /\ messages' = messages
      /\ pending'[r] = IF skipPoll THEN <<>> ELSE Dequeued(steeringMode, sq)
      /\ steeringQueue' = IF skipPoll THEN sq ELSE Remaining(steeringMode, sq)
      /\ followUpQueue' = fq
      /\ \A q \in Runs \ {r} : /\ cons'[q] = cons[q] /\ pc'[q] = pc[q] /\ ctx'[q] = ctx[q]
                               /\ pending'[q] = pending[q] /\ evq'[q] = evq[q]
    BY <1>d DEF BeginRun, Goto, Cat
<1>3. results[r] = <<>>
    BY <1>2 DEF Core, Run, RunOf, Shape, ShapeOf
<1>4. Sources' /\ AllVia("steer", pending'[r])
    BY <1>2, AllViaPart, EmptyVia, SourcesPrimed
<1> DEFINE c == Cat(messages, new)
<1>5. c \in Seq(Msgs) /\ Complete(c) /\ FollowUpsLast(c) /\ Final(c)
    BY <1>1, CatType, CompleteUsers, FinalCat, NoAnswersFinal DEF Sound
<1>6. ctx'[r] = c
    BY <1>2
<1> HIDE DEF c
<1>7. ~IsPartial(c) /\ CommittedOf(c) = c
    BY <1>5, FinalWhole
<1>8. ShapeOf(pc'[r], ctx'[r], results'[r], pending'[r])
    BY <1>2, <1>3, <1>4, <1>5, <1>6, <1>7 DEF ShapeOf, Working
<1>9. RunOf(cons'[r], pc'[r], ctx'[r], results'[r], evq'[r], messages')
    <2>1. Carried(evq'[r]) = new
        BY <1>1, <1>2, CarriedAnnounce
    <2>2. TotalOf(ctx'[r], results'[r]) = c
        BY <1>2, <1>3, <1>5, <1>6, <1>7, TotalWhole
    <2> QED
        BY <1>2, <2>1, <2>2 DEF RunOf, c
<1>10. ASSUME NEW q \in Runs, q # r
       PROVE  /\ ShapeOf(pc'[q], ctx'[q], results'[q], pending'[q])
              /\ RunOf(cons'[q], pc'[q], ctx'[q], results'[q], evq'[q], messages')
    BY <1>2, <1>10 DEF Core, Shape, Run, RunOf, NoneOpen, Open
<1>11. Idle'
    BY <1>2, IdlePrimed
<1> QED
    BY <1>4, <1>8, <1>9, <1>10, <1>11, CorePrimed

\* No run is open when one starts: MayStart and isStreaming see to it.
LEMMA StartsAlone ==
    ASSUME Exclusive, Disciplined, ~isStreaming, MayStart
    PROVE  NoneOpen
BY DEF Exclusive, Disciplined, MayStart, Open, Reading, NoneOpen

\* Steps that leave the runs alone.
LEMMA CoreKept ==
    ASSUME Core, UNCHANGED <<cons, pc, ctx, results, pending, evq>>, Sources',
           messages' = messages \/ (Quiet /\ Sound(messages'))
    PROVE  Core'
<1>1. ASSUME NEW q \in Runs
      PROVE  /\ ShapeOf(pc'[q], ctx'[q], results'[q], pending'[q])
             /\ RunOf(cons'[q], pc'[q], ctx'[q], results'[q], evq'[q], messages')
    <2>1. ShapeOf(pc'[q], ctx'[q], results'[q], pending'[q])
        BY DEF Core, Shape
    <2>2. RunOf(cons[q], pc[q], ctx[q], results[q], evq[q], messages)
        BY DEF Core, Run
    <2>3. RunOf(cons[q], pc[q], ctx[q], results[q], evq[q], messages')
        BY <2>2 DEF RunOf, Quiet
    <2> QED
        BY <2>1, <2>3
<1>2. Idle'
    <2>1. NoneOpen' <=> NoneOpen
        BY IdlePrimed DEF NoneOpen, Open
    <2> QED
        BY <2>1, IdlePrimed DEF Core, Idle
<1> QED
    BY <1>1, <1>2, CorePrimed

LEMMA CoreClient ==
    ASSUME TypeInv, Exclusive, Core, Disciplined, Client
    PROVE  Core'
<1>t. /\ steeringQueue \in Seq(UserMsgs) /\ followUpQueue \in Seq(UserMsgs)
      /\ messages \in Seq(Msgs) /\ AllVia("steer", steeringQueue)
      /\ AllVia("followUp", followUpQueue)
    BY DEF TypeInv, TypeOK, Core, Sources
<1>q. \A mode : /\ Dequeued(mode, steeringQueue) \in Seq(UserMsgs)
                /\ Remaining(mode, steeringQueue) \in Seq(UserMsgs)
                /\ AllVia("steer", Dequeued(mode, steeringQueue))
                /\ AllVia("steer", Remaining(mode, steeringQueue))
                /\ Dequeued(mode, followUpQueue) \in Seq(UserMsgs)
                /\ Remaining(mode, followUpQueue) \in Seq(UserMsgs)
                /\ AllVia("followUp", Dequeued(mode, followUpQueue))
                /\ AllVia("followUp", Remaining(mode, followUpQueue))
    BY PolledKind DEF Core
<1>e. /\ <<>> \in Seq(UserMsgs) /\ AllVia("steer", <<>>) /\ AllVia("followUp", <<>>)
      /\ NoneVia("followUp", <<>>)
    BY EmptyVia
\* Messages that are no follow-ups may start a run at any time.
<1>f. ASSUME NEW s \in Seq(UserMsgs), FollowUpsLast(messages),
             NoneVia("followUp", s) \/ (AllVia("followUp", s) /\ EndsWith(messages, "assistant"))
      PROVE  FollowUpsLast(Cat(messages, s))
    BY <1>t, <1>f, RolesOf, FollowUpsCat
<1>s. NoneOpen => FollowUpsLast(messages)
    BY DEF Core, Idle, Sound
<1>1. ASSUME NEW r \in Runs, NEW i \in Inputs, Prompt(r, i) PROVE Core'
    <2> DEFINE new == <<User("prompt", i)>>
    <2>1. new \in Seq(UserMsgs)
        BY MsgTypes
    <2>2. NoneVia("followUp", new)
        BY OneVia DEF IsVia, User
    <2>3. NoneOpen /\ BeginRun(r, new, FALSE, steeringQueue, followUpQueue)
        BY <1>1, StartsAlone DEF Prompt
    <2> HIDE DEF new
    <2>4. FollowUpsLast(Cat(messages, new))
        BY <1>f, <1>s, <2>1, <2>2, <2>3
    <2> QED
        BY <1>t, <2>1, <2>3, <2>4, CoreBegin
<1>2. ASSUME NEW r \in Runs, ContinueFromContext(r) PROVE Core'
    <2>1. NoneOpen /\ BeginRun(r, <<>>, FALSE, steeringQueue, followUpQueue)
        BY <1>2, StartsAlone DEF ContinueFromContext
    <2>2. FollowUpsLast(Cat(messages, <<>>))
        BY <1>e, <1>f, <1>s, <2>1
    <2> QED
        BY <1>e, <1>t, <2>1, <2>2, CoreBegin
<1>3. ASSUME NEW r \in Runs, ContinueFromQueue(r) PROVE Core'
    <2>1. NoneOpen /\ EndsWith(messages, "assistant")
        BY <1>3, StartsAlone DEF ContinueFromQueue
    <2>2. CASE BeginRun(r, Dequeued(steeringMode, steeringQueue), TRUE,
                        Remaining(steeringMode, steeringQueue), followUpQueue)
        <3> DEFINE new == Dequeued(steeringMode, steeringQueue)
        <3>1. new \in Seq(UserMsgs) /\ NoneVia("followUp", new)
            BY <1>q, AllViaNone
        <3>2. FollowUpsLast(Cat(messages, new))
            BY <1>f, <1>s, <2>1, <3>1
        <3> QED
            BY <1>q, <1>t, <2>1, <2>2, <3>1, <3>2, CoreBegin
    <2>3. CASE BeginRun(r, Dequeued(followUpMode, followUpQueue), FALSE, <<>>,
                        Remaining(followUpMode, followUpQueue))
        <3> DEFINE new == Dequeued(followUpMode, followUpQueue)
        <3>1. FollowUpsLast(Cat(messages, new))
            BY <1>f, <1>q, <1>s, <2>1
        <3> QED
            BY <1>e, <1>q, <2>1, <2>3, <3>1, CoreBegin
    <2> QED
        BY <1>3, <2>2, <2>3 DEF ContinueFromQueue
<1>4. ASSUME NEW i \in Inputs, Steer(i) \/ FollowUp(i) PROVE Core'
    <2>1. /\ User("steer", i) \in UserMsgs /\ IsVia("steer", User("steer", i))
          /\ User("followUp", i) \in UserMsgs /\ IsVia("followUp", User("followUp", i))
        BY MsgTypes DEF IsVia, User
    <2>2. ASSUME NEW via, NEW s \in Seq(UserMsgs), AllVia(via, s), NEW m \in UserMsgs, IsVia(via, m)
          PROVE  AllVia(via, Append(s, m))
        BY <2>2 DEF AllVia
    <2>3. Sources'
        BY <1>4, <1>t, <2>1, <2>2, SourcesPrimed DEF Steer, FollowUp
    <2> QED
        BY <1>4, <2>3, CoreKept DEF Steer, FollowUp, agentVars, runVars
<1>5. ASSUME \/ ClearSteeringQueue \/ ClearFollowUpQueue \/ SetQueueMode \/ Abort
      PROVE Core'
    <2>1. /\ steeringQueue' \in {steeringQueue, <<>>} /\ followUpQueue' \in {followUpQueue, <<>>}
          /\ messages' = messages /\ UNCHANGED <<cons, pc, ctx, results, pending, evq>>
        BY <1>5 DEF ClearSteeringQueue, ClearFollowUpQueue, SetQueueMode, Abort,
                    agentVars, queueVars, runVars
    <2>2. Sources'
        BY <1>e, <1>t, <2>1, SourcesPrimed
    <2> QED
        BY <2>1, <2>2, CoreKept
<1>6. ASSUME Reset PROVE Core'
    <2>1. Sources' /\ messages' = <<>> /\ Quiet /\ UNCHANGED <<cons, pc, ctx, results, pending, evq>>
        BY <1>6, <1>e, SourcesPrimed DEF Reset, runVars
    <2> QED
        BY <2>1, EmptySound, CoreKept
<1>7. ASSUME DropLastAnswer PROVE Core'
    <2>1. /\ Quiet /\ EndsWith(messages, "assistant") /\ messages' = ButLast(messages)
          /\ steeringQueue' = steeringQueue /\ followUpQueue' = followUpQueue
          /\ UNCHANGED <<cons, pc, ctx, results, pending, evq>>
        BY <1>7 DEF DropLastAnswer, queueVars, runVars
    <2>2. Sound(messages)
        BY <2>1 DEF Core, Idle, NoneOpen, Quiet, Open
    <2>3. Sound(ButLast(messages))
        BY <1>t, <2>1, <2>2, CompleteButLast, ButLastKeeps DEF Sound, EndsWith
    <2>4. Sources'
        BY <1>t, <2>1, SourcesPrimed
    <2> QED
        BY <2>1, <2>3, <2>4, CoreKept
<1> QED
    BY <1>1, <1>2, <1>3, <1>4, <1>5, <1>6, <1>7 DEF Client

LEMMA CoreConsumer ==
    ASSUME TypeInv, Exclusive, Core, Disciplined, NEW r \in Runs, Consumer(r)
    PROVE  Core'
<1>t. /\ evq[r] \in Seq(Events) /\ messages \in Seq(Msgs) /\ Carried(evq[r]) \in Seq(Msgs)
      /\ ctx[r] \in Seq(Msgs)
      /\ DOMAIN cons = Runs /\ DOMAIN evq = Runs /\ cons[r] \in {"new", "reading", "exiting", "closed"}
    BY CarriedType DEF TypeInv, TypeOK
<1>r. RunOf(cons[r], pc[r], ctx[r], results[r], evq[r], messages)
      /\ ShapeOf(pc[r], ctx[r], results[r], pending[r])
    BY DEF Core, Run, Shape
<1>1. CASE Consume(r)
    <2> DEFINE e == Head(evq[r])
               q == evq[r]
    <2>1. /\ cons[r] = "reading" /\ q # <<>>
          /\ messages' = IF e.kind = "message_end" THEN Append(messages, e.msg) ELSE messages
          /\ evq'[r] = Tail(q) /\ cons'[r] = IF e = AgentEnd THEN "exiting" ELSE "reading"
          /\ UNCHANGED <<pc, ctx, results, pending, steeringQueue, followUpQueue>>
          /\ \A p \in Runs \ {r} : cons'[p] = cons[p] /\ evq'[p] = evq[p]
        BY <1>1, <1>t DEF Consume, OnEvent, queueVars
    <2>2. e \in Events /\ Tail(q) \in Seq(Events) /\ e = q[1] /\ 1 \in 1..Len(q)
        BY <1>t, <2>1
    <2>3. \A p \in Runs \ {r} : cons[p] \notin {"reading", "exiting"}
        BY <2>1 DEF Exclusive, Open
    <2>4. Cat(messages, Carried(q)) = TotalOf(ctx[r], results[r])
        BY <1>r, <2>1 DEF RunOf
    <2>5. pc[r] # "new" /\ (pc[r] = "ended" => EndsRun(q))
        BY <1>r, <2>1 DEF RunOf
    <2>6. /\ e.kind = "message_end" =>
                e.msg \in Msgs /\ Carried(q) = Cat(<<e.msg>>, Carried(Tail(q)))
          /\ e.kind # "message_end" => Carried(q) = Carried(Tail(q))
          /\ Carried(Tail(q)) \in Seq(Msgs)
        BY <1>t, <2>1, <2>2, CarriedHead, CarriedType
    <2> HIDE DEF e, q
    <2>7. Cat(messages', Carried(Tail(q))) = TotalOf(ctx[r], results[r])
        <3>1. CASE e.kind = "message_end"
            <4> DEFINE one == <<e.msg>>
            <4>1. one \in Seq(Msgs) /\ messages' = Cat(messages, one)
                  /\ Carried(q) = Cat(one, Carried(Tail(q)))
                BY <1>t, <2>1, <2>6, <3>1, AppendFacts
            <4> HIDE DEF one
            <4> QED
                BY <1>t, <2>4, <2>6, <4>1, CatAssoc
        <3>2. CASE e.kind # "message_end"
            BY <2>1, <2>4, <2>6, <3>2
        <3> QED
            BY <3>1, <3>2
    <2>8. RunOf(cons'[r], pc'[r], ctx'[r], results'[r], evq'[r], messages')
        <3>1. CASE e = AgentEnd
            <4>0. e.kind = "agent_end"
                BY <3>1 DEF AgentEnd
            <4>1. e.kind = "agent_end" /\ ~NoEnd(q)
                BY <2>2, <4>0 DEF NoEnd
            <4>2. pc[r] = "ended" /\ EndsRun(q)
                BY <2>5, <4>1 DEF Exclusive, LoopLives, q
            <4>3. Tail(q) = <<>>
                BY <1>t, <3>1, <4>2, EndsRunTail DEF q, e
            <4>4. Carried(Tail(q)) = <<>>
                BY <4>3, NothingCarried
            <4>5. messages' = TotalOf(ctx[r], results[r])
                BY <1>t, <2>1, <2>7, <4>1, <4>4, CatNone
            <4>6. results[r] = <<>> /\ ~IsPartial(ctx[r])
                BY <1>r, <4>2 DEF ShapeOf
            <4>7. messages' = ctx[r]
                BY <1>t, <4>5, <4>6, TotalWhole
            <4> QED
                BY <2>1, <3>1, <4>2, <4>7 DEF RunOf
        <3>2. CASE e # AgentEnd
            <4>1. pc[r] = "ended" => EndsRun(Tail(q))
                BY <1>t, <2>5, <3>2, EndsRunTail DEF q, e
            <4> QED
                BY <2>1, <2>5, <2>7, <3>2, <4>1 DEF RunOf
        <3> QED
            BY <3>1, <3>2
    <2>9. ASSUME NEW p \in Runs, p # r
          PROVE  RunOf(cons'[p], pc'[p], ctx'[p], results'[p], evq'[p], messages')
        <3>1. RunOf(cons[p], pc[p], ctx[p], results[p], evq[p], messages)
            BY DEF Core, Run
        <3> QED
            BY <2>1, <2>3, <2>9, <3>1 DEF RunOf
    <2>10. Sources' /\ \A p \in Runs : ShapeOf(pc'[p], ctx'[p], results'[p], pending'[p])
        BY <2>1, SourcesPrimed DEF Core, Sources, Shape
    <2>11. Idle'
        BY <2>1, IdlePrimed
    <2> QED
        BY <2>8, <2>9, <2>10, <2>11, CorePrimed
<1>2. CASE Close(r)
    <2>1. /\ cons[r] = "exiting" /\ cons'[r] = "closed"
          /\ UNCHANGED <<messages, evq, pc, ctx, results, pending, steeringQueue, followUpQueue>>
          /\ \A p \in Runs \ {r} : cons'[p] = cons[p]
        BY <1>2, <1>t DEF Close, Finally, queueVars
    <2>2. pc[r] = "ended" /\ messages = ctx[r]
        BY <1>r, <2>1 DEF RunOf
    <2>3. Sound(messages)
        <3>1. ~IsPartial(ctx[r]) /\ FollowUpsLast(ctx[r]) /\ Complete(ctx[r]) /\ Final(ctx[r])
            BY <1>r, <2>2 DEF ShapeOf, Working, CommittedOf
        <3> QED
            BY <2>2, <3>1 DEF Sound
    <2>4. Idle'
        BY <2>1, <2>3, IdlePrimed
    <2>5. Sources' /\ \A p \in Runs : ShapeOf(pc'[p], ctx'[p], results'[p], pending'[p])
        BY <2>1, SourcesPrimed DEF Core, Sources, Shape
    <2>6. ASSUME NEW p \in Runs
          PROVE  RunOf(cons'[p], pc'[p], ctx'[p], results'[p], evq'[p], messages')
        <3>1. RunOf(cons[p], pc[p], ctx[p], results[p], evq[p], messages)
            BY DEF Core, Run
        <3> QED
            BY <2>1, <2>2, <3>1 DEF RunOf
    <2> QED
        BY <2>4, <2>5, <2>6, CorePrimed
<1>3. CASE ListenerThrows(r)
    BY <1>3 DEF ListenerThrows, Disciplined
<1> QED
    BY <1>1, <1>2, <1>3 DEF Consumer

LEMMA CoreInit == Init => Core
<1> SUFFICES ASSUME Init PROVE Core
    OBVIOUS
<1>1. Sources
    BY EmptyVia DEF Init, Sources
<1>2. Idle
    BY EmptySound DEF Init, Idle
<1>3. ASSUME NEW r \in Runs PROVE Shape(r) /\ Run(r)
    <2>1. /\ cons[r] = "new" /\ pc[r] = "new" /\ ctx[r] = <<>> /\ results[r] = <<>>
          /\ pending[r] = <<>>
        BY DEF Init
    <2>2. /\ Complete(<<>>) /\ FollowUpsLast(<<>>) /\ Final(<<>>) /\ ~IsPartial(<<>>)
          /\ AllVia("steer", <<>>)
        BY EmptySound, EmptyVia DEF Sound, IsPartial, EndsWith
    <2>3. CommittedOf(<<>>) = <<>>
        BY <2>2 DEF CommittedOf
    <2>4. Shape(r)
        BY <2>1, <2>2, <2>3 DEF Shape, ShapeOf, Working
    <2> QED
        BY <2>1, <2>4 DEF Run, RunOf
<1> QED
    BY <1>1, <1>2, <1>3 DEF Core

LEMMA CoreNext ==
    ASSUME TypeInv, Exclusive, Core, Disciplined, [Next]_vars
    PROVE  Core'
<1>1. CASE Client
    BY <1>1, CoreClient
<1>2. CASE \E r \in Runs : Loop(r) \/ Consumer(r)
    BY <1>2, CoreLoop, CoreConsumer
<1>3. CASE UNCHANGED vars
    <2>1. /\ UNCHANGED <<cons, pc, ctx, results, pending, evq>> /\ messages' = messages
          /\ steeringQueue' = steeringQueue /\ followUpQueue' = followUpQueue
        BY <1>3 DEF vars, agentVars, queueVars, runVars
    <2>2. Sources'
        BY <2>1, SourcesPrimed DEF Core, Sources
    <2> QED
        BY <2>1, <2>2, CoreKept
<1> QED
    BY <1>1, <1>2, <1>3 DEF Next

-----------------------------------------------------------------------------
(* Where the messages sent with steer() and followUp() are: in the         *)
(* transcript and what is still to reach it, polled, or in their queue.    *)

DeliveredOf(via, s, pend, queue, sent) == Cat(Cat(Via(via, s), Via(via, pend)), queue) = sent

Both(s, pend, sq, fq, ss, fs) ==
    DeliveredOf("steer", s, pend, sq, ss) /\ DeliveredOf("followUp", s, pend, fq, fs)

Deliver ==
    /\ NoneOpen => Both(messages, <<>>, steeringQueue, followUpQueue, steered, followed)
    /\ \A r \in Runs : Open(r) =>
          Both(TotalOf(ctx[r], results[r]), pending[r], steeringQueue, followUpQueue,
               steered, followed)

LEMMA DeliverPrimed ==
    Deliver' <=>
        /\ NoneOpen' => Both(messages', <<>>, steeringQueue', followUpQueue', steered', followed')
        /\ \A r \in Runs : cons'[r] \in {"reading", "exiting"} =>
              Both(TotalOf(ctx'[r], results'[r]), pending'[r], steeringQueue', followUpQueue',
                   steered', followed')
BY DEF Deliver, Both, DeliveredOf, Cat, Via, Picked, Rank, SentAs, TotalOf, CommittedOf,
       IsPartial, EndsWith, LastOf, ButLast, NoneOpen, Open

LEMMA NothingVia == ASSUME NEW via PROVE <<>> \in Seq(Msgs) /\ Via(via, <<>>) = <<>>
<1>1. <<>> \in Seq(Msgs)
    OBVIOUS
<1> QED
    BY <1>1, EmptyVia, ViaNone

LEMMA DeliveredPolled ==
    ASSUME NEW via, NEW s \in Seq(Msgs), NEW pend \in Seq(Msgs), NEW q, NEW sent,
           DeliveredOf(via, s, pend, q, sent)
    PROVE  DeliveredOf(via, Cat(s, pend), <<>>, q, sent)
<1>1. <<>> \in Seq(Msgs) /\ Via(via, <<>>) = <<>>
    BY NothingVia
<1>2. Via(via, Cat(s, pend)) = Cat(Via(via, s), Via(via, pend))
    BY ViaConcat
<1>3. Cat(Via(via, s), Via(via, pend)) \in Seq(Msgs)
    BY ViaType, CatType
<1> QED
    BY <1>1, <1>2, <1>3, CatNone DEF DeliveredOf

LEMMA DeliveredOthers ==
    ASSUME NEW via, NEW s \in Seq(Msgs), NEW new \in Seq(Msgs), NoneVia(via, new),
           NEW pend, NEW q, NEW sent, DeliveredOf(via, s, pend, q, sent)
    PROVE  DeliveredOf(via, Cat(s, new), pend, q, sent)
<1>1. Via(via, Cat(s, new)) = Via(via, s)
    BY ViaConcat, ViaNone, ViaType, CatNone
<1> QED
    BY <1>1 DEF DeliveredOf

LEMMA DeliveredPoll ==
    ASSUME NEW via, NEW s \in Seq(Msgs), NEW q \in Seq(UserMsgs), AllVia(via, q), NEW mode,
           NEW sent, DeliveredOf(via, s, <<>>, q, sent)
    PROVE  DeliveredOf(via, s, Dequeued(mode, q), Remaining(mode, q), sent)
<1> DEFINE d == Dequeued(mode, q)
           m == Remaining(mode, q)
<1>1. <<>> \in Seq(Msgs) /\ Via(via, <<>>) = <<>> /\ Via(via, s) \in Seq(Msgs)
    BY NothingVia, ViaType
<1>2. d \in Seq(Msgs) /\ m \in Seq(Msgs) /\ AllVia(via, d) /\ Cat(d, m) = q
    BY DequeuedType, RolesOf, AllViaPart, DequeueSplits
<1> HIDE DEF d, m
<1>3. Via(via, d) = d
    BY <1>2, ViaAll
<1>4. Cat(Cat(Via(via, s), d), m) = Cat(Via(via, s), q)
    BY <1>1, <1>2, CatAssoc
<1>5. Cat(Via(via, s), <<>>) = Via(via, s)
    BY <1>1, CatNone
<1> QED
    BY <1>1, <1>3, <1>4, <1>5 DEF DeliveredOf, d, m

LEMMA DeliveredPollOther ==
    ASSUME NEW via, NEW s, NEW pend \in Seq(Msgs), NoneVia(via, pend), NEW q, NEW sent,
           DeliveredOf(via, s, <<>>, q, sent)
    PROVE  DeliveredOf(via, s, pend, q, sent)
<1>1. <<>> \in Seq(Msgs) /\ Via(via, <<>>) = <<>> /\ Via(via, pend) = <<>>
    BY NothingVia, ViaNone
<1> QED
    BY <1>1 DEF DeliveredOf

LEMMA DeliveredSend ==
    ASSUME NEW via, NEW s \in Seq(Msgs), NEW pend \in Seq(Msgs), NEW q \in Seq(UserMsgs),
           NEW sent, NEW m \in UserMsgs, DeliveredOf(via, s, pend, q, sent)
    PROVE  DeliveredOf(via, s, pend, Append(q, m), Append(sent, m))
<1> DEFINE x == Cat(Via(via, s), Via(via, pend))
<1>1. x \in Seq(Msgs) /\ q \in Seq(Msgs) /\ m \in Msgs
    BY ViaType, CatType, RolesOf DEF Msgs
<1>2. Cat(x, q) = sent
    BY DEF DeliveredOf
<1> HIDE DEF x
<1>3. Cat(x, Append(q, m)) = Append(Cat(x, q), m)
    BY <1>1 DEF Cat
<1> QED
    BY <1>2, <1>3 DEF DeliveredOf, x

LEMMA DeliveredClear ==
    ASSUME NEW via, NEW s \in Seq(Msgs), NEW pend \in Seq(Msgs), NEW q \in Seq(UserMsgs),
           NEW sent, DeliveredOf(via, s, pend, q, sent)
    PROVE  DeliveredOf(via, s, pend, <<>>, SubSeq(sent, 1, Len(sent) - Len(q)))
<1> DEFINE x == Cat(Via(via, s), Via(via, pend))
<1>1. x \in Seq(Msgs) /\ q \in Seq(Msgs)
    BY ViaType, CatType, RolesOf
<1>2. Cat(x, q) = sent
    BY DEF DeliveredOf
<1> HIDE DEF x
<1>3. /\ Len(x) \in Nat /\ Len(q) \in Nat /\ Len(sent) = Len(x) + Len(q)
      /\ \A i \in 1..Len(x) : sent[i] = x[i]
    BY <1>1, <1>2, CatFacts
<1>4. sent \in Seq(Msgs)
    BY <1>1, <1>2, CatType
<1>5. SubSeq(sent, 1, Len(x)) = x
    BY <1>1, <1>3, <1>4
<1>6. SubSeq(sent, 1, Len(sent) - Len(q)) = x
    <2>1. Len(sent) - Len(q) = Len(x)
        BY <1>3
    <2> QED
        BY <1>5, <2>1
<1>7. Cat(x, <<>>) = x
    BY <1>1, CatNone
<1> QED
    BY <1>6, <1>7 DEF DeliveredOf, x

LEMMA DeliverLoop ==
    ASSUME TypeInv, Exclusive, Core, Deliver, NEW r \in Runs, Loop(r)
    PROVE  Deliver'
<1>1. /\ LoopLives(r) /\ cons' = cons /\ steered' = steered /\ followed' = followed
    BY LoopFrame
<1>2. /\ cons[r] = "reading" /\ Open(r)
      /\ \A q \in Runs \ {r} : cons[q] \notin {"reading", "exiting"}
    BY <1>1 DEF Exclusive, Reading, Open
<1>3. PICK es \in Seq(Events), new \in Seq(Msgs) : Effect(r, es, new)
    BY LoopEffect DEF Core
<1> DEFINE s == TotalOf(ctx[r], results[r])
           pend == pending[r]
<1>4. TotalOf(ctx'[r], results'[r]) = Cat(s, new) /\ Moves(r, new)
    BY <1>3 DEF Effect, Carries
<1>5. /\ s \in Seq(Msgs) /\ pend \in Seq(Msgs)
      /\ steeringQueue \in Seq(UserMsgs) /\ followUpQueue \in Seq(UserMsgs)
    BY RunType, CommittedType, CatType DEF TotalOf
<1>6. /\ DeliveredOf("steer", s, pend, steeringQueue, steered)
      /\ DeliveredOf("followUp", s, pend, followUpQueue, followed)
    BY <1>2 DEF Deliver, Both
<1>7. AllVia("steer", steeringQueue) /\ AllVia("followUp", followUpQueue)
    BY DEF Core, Sources
<1>8. \A mode : /\ Dequeued(mode, steeringQueue) \in Seq(Msgs)
                /\ NoneVia("followUp", Dequeued(mode, steeringQueue))
                /\ Dequeued(mode, followUpQueue) \in Seq(Msgs)
                /\ NoneVia("steer", Dequeued(mode, followUpQueue))
    BY PolledKind, AllViaNone, RolesOf DEF Core
<1> SUFFICES Both(Cat(s, new), pending'[r], steeringQueue', followUpQueue', steered, followed)
    <2>1. ~NoneOpen'
        BY <1>1, <1>2, IdlePrimed
    <2> QED
        BY <1>1, <1>2, <1>4, <2>1, DeliverPrimed
<1> HIDE DEF s
<1>9. CASE /\ new = pending[r] /\ pending'[r] = <<>>
           /\ steeringQueue' = steeringQueue /\ followUpQueue' = followUpQueue
    BY <1>5, <1>6, <1>9, DeliveredPolled DEF Both
<1>10. ASSUME Untold(new), pending'[r] = pending[r],
              steeringQueue' = steeringQueue, followUpQueue' = followUpQueue
       PROVE  Both(Cat(s, new), pending'[r], steeringQueue', followUpQueue', steered, followed)
    BY <1>5, <1>6, <1>10, DeliveredOthers DEF Both, Untold
<1>11. ASSUME Untold(new), pending[r] = <<>>
       PROVE  /\ DeliveredOf("steer", Cat(s, new), <<>>, steeringQueue, steered)
              /\ DeliveredOf("followUp", Cat(s, new), <<>>, followUpQueue, followed)
              /\ Cat(s, new) \in Seq(Msgs)
    BY <1>5, <1>6, <1>11, DeliveredOthers, CatType DEF Untold
<1>12. ASSUME Untold(new), pending[r] = <<>>,
              pending'[r] = Dequeued(steeringMode, steeringQueue),
              steeringQueue' = Remaining(steeringMode, steeringQueue),
              followUpQueue' = followUpQueue
       PROVE  Both(Cat(s, new), pending'[r], steeringQueue', followUpQueue', steered, followed)
    BY <1>5, <1>7, <1>8, <1>11, <1>12, DeliveredPoll, DeliveredPollOther DEF Both
<1>13. ASSUME Untold(new), pending[r] = <<>>,
              pending'[r] = Dequeued(followUpMode, followUpQueue),
              followUpQueue' = Remaining(followUpMode, followUpQueue),
              steeringQueue' = steeringQueue
       PROVE  Both(Cat(s, new), pending'[r], steeringQueue', followUpQueue', steered, followed)
    BY <1>5, <1>7, <1>8, <1>11, <1>13, DeliveredPoll, DeliveredPollOther DEF Both
<1> QED
    BY <1>4, <1>9, <1>10, <1>12, <1>13 DEF Moves

LEMMA DeliverBegin ==
    ASSUME TypeInv, Core, Deliver, NoneOpen, NEW r \in Runs,
           NEW new \in Seq(UserMsgs), NEW skipPoll \in BOOLEAN,
           NEW sq \in Seq(UserMsgs), AllVia("steer", sq),
           NEW fq \in Seq(UserMsgs), AllVia("followUp", fq),
           Both(Cat(messages, new), <<>>, sq, fq, steered, followed),
           BeginRun(r, new, skipPoll, sq, fq), steered' = steered, followed' = followed
    PROVE  Deliver'
<1>1. Sound(messages) /\ messages \in Seq(Msgs) /\ new \in Seq(Msgs)
    BY RunType, RolesOf DEF Core, Idle
<1>d. /\ DOMAIN pc = Runs /\ DOMAIN ctx = Runs /\ DOMAIN pending = Runs
      /\ DOMAIN cons = Runs /\ DOMAIN evq = Runs
    BY DEF TypeInv, TypeOK
<1>2. /\ cons[r] = "new" /\ cons'[r] = "reading" /\ results' = results
      /\ ctx'[r] = Cat(messages, new)
      /\ pending'[r] = IF skipPoll THEN <<>> ELSE Dequeued(steeringMode, sq)
      /\ steeringQueue' = IF skipPoll THEN sq ELSE Remaining(steeringMode, sq)
      /\ followUpQueue' = fq
      /\ \A q \in Runs \ {r} : cons'[q] = cons[q]
    BY <1>d DEF BeginRun, Cat
<1>3. results[r] = <<>>
    BY <1>2 DEF Core, Run, RunOf, Shape, ShapeOf
<1> DEFINE c == Cat(messages, new)
<1>4. c \in Seq(Msgs) /\ Final(c)
    BY <1>1, CatType, FinalCat, NoAnswersFinal DEF Sound
<1>5. ctx'[r] = c /\ Both(c, <<>>, sq, fq, steered, followed)
    BY <1>2
<1> HIDE DEF c
<1>6. TotalOf(ctx'[r], results'[r]) = c
    BY <1>2, <1>3, <1>4, <1>5, FinalWhole, TotalWhole
<1>7. Both(c, pending'[r], steeringQueue', followUpQueue', steered, followed)
    <2>1. CASE skipPoll
        BY <1>2, <1>5, <2>1
    <2>2. CASE ~skipPoll
        <3>1. /\ Dequeued(steeringMode, sq) \in Seq(Msgs)
              /\ NoneVia("followUp", Dequeued(steeringMode, sq))
            BY DequeuedType, AllViaPart, AllViaNone, RolesOf
        <3> QED
            BY <1>2, <1>4, <1>5, <2>2, <3>1, DeliveredPoll, DeliveredPollOther DEF Both
    <2> QED
        BY <2>1, <2>2
<1>8. ~NoneOpen' /\ \A q \in Runs \ {r} : cons'[q] \notin {"reading", "exiting"}
    BY <1>2, IdlePrimed DEF NoneOpen, Open
<1> QED
    BY <1>6, <1>7, <1>8, DeliverPrimed

LEMMA DeliverClient ==
    ASSUME TypeInv, Exclusive, Core, Deliver, Disciplined, Client
    PROVE  Deliver'
<1>t. /\ steeringQueue \in Seq(UserMsgs) /\ followUpQueue \in Seq(UserMsgs)
      /\ messages \in Seq(Msgs) /\ AllVia("steer", steeringQueue)
      /\ AllVia("followUp", followUpQueue)
    BY DEF TypeInv, TypeOK, Core, Sources
<1>q. \A mode : /\ Dequeued(mode, steeringQueue) \in Seq(UserMsgs)
                /\ Dequeued(mode, steeringQueue) \in Seq(Msgs)
                /\ Remaining(mode, steeringQueue) \in Seq(UserMsgs)
                /\ NoneVia("followUp", Dequeued(mode, steeringQueue))
                /\ AllVia("steer", Remaining(mode, steeringQueue))
                /\ Dequeued(mode, followUpQueue) \in Seq(UserMsgs)
                /\ Dequeued(mode, followUpQueue) \in Seq(Msgs)
                /\ Remaining(mode, followUpQueue) \in Seq(UserMsgs)
                /\ NoneVia("steer", Dequeued(mode, followUpQueue))
                /\ AllVia("followUp", Remaining(mode, followUpQueue))
    BY PolledKind, AllViaNone, RolesOf DEF Core
<1>e. /\ <<>> \in Seq(UserMsgs) /\ AllVia("steer", <<>>) /\ AllVia("followUp", <<>>)
      /\ <<>> \in Seq(Msgs) /\ Untold(<<>>)
    BY EmptyVia DEF Untold
<1>d. NoneOpen => /\ DeliveredOf("steer", messages, <<>>, steeringQueue, steered)
                  /\ DeliveredOf("followUp", messages, <<>>, followUpQueue, followed)
    BY DEF Deliver, Both
<1>r. ASSUME NEW r \in Runs
      PROVE  TotalOf(ctx[r], results[r]) \in Seq(Msgs) /\ pending[r] \in Seq(Msgs)
    BY RunType, CommittedType, CatType DEF TotalOf
<1>1. ASSUME NEW r \in Runs, NEW i \in Inputs, Prompt(r, i) PROVE Deliver'
    <2> DEFINE new == <<User("prompt", i)>>
    <2>1. new \in Seq(UserMsgs)
        BY MsgTypes
    <2>2. Untold(new)
        BY OneVia DEF IsVia, User, Untold
    <2>3. /\ NoneOpen /\ BeginRun(r, new, FALSE, steeringQueue, followUpQueue)
          /\ steered' = steered /\ followed' = followed
        BY <1>1, StartsAlone DEF Prompt
    <2> HIDE DEF new
    <2>4. new \in Seq(Msgs)
        BY <2>1, RolesOf
    <2>5. Both(Cat(messages, new), <<>>, steeringQueue, followUpQueue, steered, followed)
        BY <1>d, <1>t, <2>2, <2>3, <2>4, DeliveredOthers DEF Both, Untold
    <2> QED
        BY <1>t, <2>1, <2>3, <2>5, DeliverBegin
<1>2. ASSUME NEW r \in Runs, ContinueFromContext(r) PROVE Deliver'
    <2>1. /\ NoneOpen /\ BeginRun(r, <<>>, FALSE, steeringQueue, followUpQueue)
          /\ steered' = steered /\ followed' = followed
        BY <1>2, StartsAlone DEF ContinueFromContext, historyVars
    <2>2. Both(Cat(messages, <<>>), <<>>, steeringQueue, followUpQueue, steered, followed)
        BY <1>d, <1>e, <1>t, <2>1, DeliveredOthers DEF Both, Untold
    <2> QED
        BY <1>e, <1>t, <2>1, <2>2, DeliverBegin
<1>3. ASSUME NEW r \in Runs, ContinueFromQueue(r) PROVE Deliver'
    <2>1. NoneOpen /\ steered' = steered /\ followed' = followed
        BY <1>3, StartsAlone DEF ContinueFromQueue, historyVars
    <2>2. CASE BeginRun(r, Dequeued(steeringMode, steeringQueue), TRUE,
                        Remaining(steeringMode, steeringQueue), followUpQueue)
        <3> DEFINE new == Dequeued(steeringMode, steeringQueue)
                   left == Remaining(steeringMode, steeringQueue)
        <3>1. DeliveredOf("steer", Cat(messages, new), <<>>, left, steered)
            BY <1>d, <1>q, <1>t, <2>1, DeliveredPoll, DeliveredPolled
        <3>2. DeliveredOf("followUp", Cat(messages, new), <<>>, followUpQueue, followed)
            BY <1>d, <1>q, <1>t, <2>1, DeliveredOthers
        <3>3. Both(Cat(messages, new), <<>>, left, followUpQueue, steered, followed)
            BY <3>1, <3>2 DEF Both
        <3> QED
            BY <1>q, <1>t, <2>1, <2>2, <3>3, DeliverBegin
    <2>3. CASE /\ steeringQueue = <<>>
               /\ BeginRun(r, Dequeued(followUpMode, followUpQueue), FALSE, <<>>,
                           Remaining(followUpMode, followUpQueue))
        <3> DEFINE new == Dequeued(followUpMode, followUpQueue)
                   left == Remaining(followUpMode, followUpQueue)
        <3>1. DeliveredOf("followUp", Cat(messages, new), <<>>, left, followed)
            BY <1>d, <1>q, <1>t, <2>1, DeliveredPoll, DeliveredPolled
        <3>2. DeliveredOf("steer", Cat(messages, new), <<>>, <<>>, steered)
            BY <1>d, <1>q, <1>t, <2>1, <2>3, DeliveredOthers
        <3>3. Both(Cat(messages, new), <<>>, <<>>, left, steered, followed)
            BY <3>1, <3>2 DEF Both
        <3> QED
            BY <1>e, <1>q, <2>1, <2>3, <3>3, DeliverBegin
    <2> QED
        BY <1>3, <2>2, <2>3 DEF ContinueFromQueue
<1>4. ASSUME NEW i \in Inputs, Steer(i) \/ FollowUp(i) PROVE Deliver'
    <2>1. User("steer", i) \in UserMsgs /\ User("followUp", i) \in UserMsgs
        BY MsgTypes
    <2>2. /\ UNCHANGED <<messages, cons, ctx, results, pending>>
          /\ \/ /\ steeringQueue' = Append(steeringQueue, User("steer", i))
                /\ steered' = Append(steered, User("steer", i))
                /\ followUpQueue' = followUpQueue /\ followed' = followed
             \/ /\ followUpQueue' = Append(followUpQueue, User("followUp", i))
                /\ followed' = Append(followed, User("followUp", i))
                /\ steeringQueue' = steeringQueue /\ steered' = steered
        BY <1>4 DEF Steer, FollowUp, agentVars, runVars
    <2>3. ASSUME NEW s \in Seq(Msgs), NEW pend \in Seq(Msgs),
                 Both(s, pend, steeringQueue, followUpQueue, steered, followed)
          PROVE  Both(s, pend, steeringQueue', followUpQueue', steered', followed')
        BY <1>t, <2>1, <2>2, <2>3, DeliveredSend DEF Both
    <2> QED
        BY <1>e, <1>r, <1>t, <2>2, <2>3, DeliverPrimed, IdlePrimed DEF Deliver, NoneOpen, Open
<1>5. ASSUME ClearSteeringQueue \/ ClearFollowUpQueue PROVE Deliver'
    <2>1. /\ UNCHANGED <<messages, cons, ctx, results, pending>>
          /\ \/ /\ steeringQueue' = <<>>
                /\ steered' = SubSeq(steered, 1, Len(steered) - Len(steeringQueue))
                /\ followUpQueue' = followUpQueue /\ followed' = followed
             \/ /\ followUpQueue' = <<>>
                /\ followed' = SubSeq(followed, 1, Len(followed) - Len(followUpQueue))
                /\ steeringQueue' = steeringQueue /\ steered' = steered
        BY <1>5 DEF ClearSteeringQueue, ClearFollowUpQueue, agentVars, runVars
    <2>2. ASSUME NEW s \in Seq(Msgs), NEW pend \in Seq(Msgs),
                 Both(s, pend, steeringQueue, followUpQueue, steered, followed)
          PROVE  Both(s, pend, steeringQueue', followUpQueue', steered', followed')
        BY <1>t, <2>1, <2>2, DeliveredClear DEF Both
    <2> QED
        BY <1>e, <1>r, <1>t, <2>1, <2>2, DeliverPrimed, IdlePrimed DEF Deliver, NoneOpen, Open
<1>6. ASSUME SetQueueMode \/ Abort PROVE Deliver'
    <2>1. UNCHANGED <<messages, cons, ctx, results, pending, steeringQueue, followUpQueue,
                      steered, followed>>
        BY <1>6 DEF SetQueueMode, Abort, agentVars, queueVars, runVars, historyVars
    <2> QED
        BY <2>1, DeliverPrimed, IdlePrimed DEF Deliver, NoneOpen, Open
<1>7. ASSUME Reset PROVE Deliver'
    <2>1. /\ messages' = <<>> /\ steeringQueue' = <<>> /\ followUpQueue' = <<>>
          /\ steered' = <<>> /\ followed' = <<>> /\ cons' = cons
          /\ \A r \in Runs : cons[r] \in {"new", "closed"}
        BY <1>7 DEF Reset, Quiet, runVars
    <2>2. Both(<<>>, <<>>, <<>>, <<>>, <<>>, <<>>)
        <3>1. Via("steer", <<>>) = <<>> /\ Via("followUp", <<>>) = <<>> /\ Cat(<<>>, <<>>) = <<>>
            BY <1>e, ViaNone, CatNone DEF Untold
        <3> QED
            BY <3>1 DEF Both, DeliveredOf
    <2> QED
        BY <2>1, <2>2, DeliverPrimed
<1>8. ASSUME DropLastAnswer PROVE Deliver'
    <2> DEFINE m == LastOf(messages)
               one == <<m>>
    <2>1. /\ EndsWith(messages, "assistant") /\ messages' = ButLast(messages) /\ cons' = cons
          /\ \A r \in Runs : cons[r] \in {"new", "closed"}
          /\ UNCHANGED <<steeringQueue, followUpQueue, steered, followed>>
        BY <1>8 DEF DropLastAnswer, Quiet, queueVars, runVars, historyVars
    <2>2. /\ messages # <<>> /\ m \in Msgs /\ ButLast(messages) \in Seq(Msgs) /\ m.role = "assistant"
        BY <1>t, <2>1, SeqFacts DEF EndsWith
    <2>3. one \in Seq(Msgs) /\ Untold(one)
        <3>1. one \in Seq(Msgs)
            BY <2>2
        <3>2. Untold(one)
            BY <2>2, OneVia DEF IsVia, Untold
        <3> QED
            BY <3>1, <3>2
    <2>4. messages = Cat(ButLast(messages), one)
        <3>1. /\ Len(messages) \in Nat \ {0} /\ Len(ButLast(messages)) = Len(messages) - 1
              /\ m = messages[Len(messages)]
              /\ \A i \in 1..(Len(messages) - 1) : ButLast(messages)[i] = messages[i]
            BY <1>t, <2>2, ButLastFacts
        <3>2. Cat(ButLast(messages), one) = Append(ButLast(messages), m)
            BY <2>2, AppendFacts
        <3> HIDE DEF m, one
        <3>3. messages = Append(ButLast(messages), m)
            BY <1>t, <2>2, <3>1
        <3> QED
            BY <3>2, <3>3
    <2> HIDE DEF m, one
    <2>5. ASSUME NEW via \in {"steer", "followUp"}
          PROVE  Via(via, ButLast(messages)) = Via(via, messages)
        <3>1. Via(via, Cat(ButLast(messages), one)) = Cat(Via(via, ButLast(messages)), Via(via, one))
            BY <2>2, <2>3, ViaConcat
        <3>2. Via(via, one) = <<>>
            BY <2>3, ViaNone DEF Untold
        <3> QED
            BY <2>2, <2>4, <3>1, <3>2, ViaType, CatNone
    <2>6. NoneOpen
        BY <2>1 DEF NoneOpen, Open
    <2>7. Both(ButLast(messages), <<>>, steeringQueue, followUpQueue, steered, followed)
        BY <1>d, <2>5, <2>6 DEF Both, DeliveredOf
    <2> QED
        BY <2>1, <2>7, DeliverPrimed
<1> QED
    BY <1>1, <1>2, <1>3, <1>4, <1>5, <1>6, <1>7, <1>8 DEF Client

LEMMA DeliverConsumer ==
    ASSUME TypeInv, Exclusive, Core, Deliver, Disciplined, NEW r \in Runs, Consumer(r)
    PROVE  Deliver'
<1>d. DOMAIN cons = Runs
    BY DEF TypeInv, TypeOK
<1>1. CASE Consume(r)
    <2>1. /\ cons[r] = "reading" /\ cons'[r] \in {"reading", "exiting"}
          /\ \A q \in Runs \ {r} : cons'[q] = cons[q]
          /\ UNCHANGED <<ctx, results, pending, steeringQueue, followUpQueue, steered, followed>>
        BY <1>1, <1>d DEF Consume, queueVars, historyVars
    <2>2. ~NoneOpen'
        BY <2>1, IdlePrimed
    <2> QED
        BY <2>1, <2>2, DeliverPrimed DEF Deliver, Open
<1>2. CASE Close(r)
    <2>1. /\ cons[r] = "exiting" /\ cons'[r] = "closed"
          /\ \A q \in Runs \ {r} : cons'[q] = cons[q]
          /\ UNCHANGED <<messages, ctx, results, pending, steeringQueue, followUpQueue,
                         steered, followed>>
        BY <1>2, <1>d DEF Close, Finally, queueVars, historyVars
    <2>2. pc[r] = "ended" /\ messages = ctx[r]
        BY <2>1 DEF Core, Run, RunOf
    <2>3. results[r] = <<>> /\ pending[r] = <<>> /\ ~IsPartial(ctx[r]) /\ ctx[r] \in Seq(Msgs)
        BY <2>2, RunType DEF Core, Shape, ShapeOf
    <2>4. TotalOf(ctx[r], results[r]) = messages
        BY <2>2, <2>3, TotalWhole
    <2>5. Both(messages, <<>>, steeringQueue, followUpQueue, steered, followed)
        BY <2>1, <2>3, <2>4 DEF Deliver, Open
    <2> QED
        BY <2>1, <2>5, DeliverPrimed DEF Deliver, Open
<1>3. CASE ListenerThrows(r)
    BY <1>3 DEF ListenerThrows, Disciplined
<1> QED
    BY <1>1, <1>2, <1>3 DEF Consumer

LEMMA DeliverInit == Init => Deliver
<1> SUFFICES ASSUME Init PROVE Deliver
    OBVIOUS
<1>1. Via("steer", <<>>) = <<>> /\ Via("followUp", <<>>) = <<>> /\ Cat(<<>>, <<>>) = <<>>
    BY NothingVia, CatNone
<1>2. Both(<<>>, <<>>, <<>>, <<>>, <<>>, <<>>)
    BY <1>1 DEF Both, DeliveredOf
<1> QED
    BY <1>2 DEF Init, Deliver, Open

LEMMA DeliverNext ==
    ASSUME TypeInv, Exclusive, Core, Deliver, Disciplined, [Next]_vars
    PROVE  Deliver'
<1>1. CASE Client
    BY <1>1, DeliverClient
<1>2. CASE \E r \in Runs : Loop(r) \/ Consumer(r)
    BY <1>2, DeliverLoop, DeliverConsumer
<1>3. CASE UNCHANGED vars
    <2>1. UNCHANGED <<messages, cons, ctx, results, pending, steeringQueue, followUpQueue,
                      steered, followed>>
        BY <1>3 DEF vars, agentVars, queueVars, runVars, historyVars
    <2> QED
        BY <2>1, DeliverPrimed, IdlePrimed DEF Deliver, NoneOpen, Open
<1> QED
    BY <1>1, <1>2, <1>3 DEF Next

-----------------------------------------------------------------------------
(* What the agent shows once it has consumed every event under way.        *)

OnIn(calls, x) == IF x \in calls THEN "on" ELSE "off"

DrainOf(q, m, calls, p, c, res) ==
    /\ ShowsMsg(q, m, MsgOf(c))
    /\ \A x \in CallIds : ShowsCall(q, x, OnIn(calls, x), CallOf(p, c, res, x))

Drain ==
    /\ NoneOpen => streamMessage = NoMsg /\ pendingToolCalls = {}
    /\ \A r \in Runs : Reading(r) =>
          DrainOf(evq[r], streamMessage, pendingToolCalls, pc[r], ctx[r], results[r])

LEMMA DrainPrimed ==
    Drain' <=>
        /\ NoneOpen' => streamMessage' = NoMsg /\ pendingToolCalls' = {}
        /\ \A r \in Runs : cons'[r] = "reading" =>
              DrainOf(evq'[r], streamMessage', pendingToolCalls', pc'[r], ctx'[r], results'[r])
BY DEF Drain, DrainOf, ShowsMsg, ShowsCall, Later, MsgOf, CallOf, OnIn, IsPartial, EndsWith,
       LastOf, Call, NoneOpen, Open, Reading, NoMsg

LEMMA DrainLoop ==
    ASSUME TypeInv, Exclusive, Core, Drain, NEW r \in Runs, Loop(r)
    PROVE  Drain'
<1>1. /\ LoopLives(r) /\ cons' = cons
      /\ streamMessage' = streamMessage /\ pendingToolCalls' = pendingToolCalls
    BY LoopFrame
<1>2. /\ cons[r] = "reading" /\ evq[r] \in Seq(Events)
      /\ \A q \in Runs \ {r} : cons[q] \notin {"reading", "exiting"}
    BY <1>1, RunType DEF Exclusive, Reading, Open
<1>3. PICK es \in Seq(Events), new \in Seq(Msgs) : Effect(r, es, new)
    BY LoopEffect DEF Core
<1>4. evq'[r] = Cat(evq[r], es)
    BY <1>3 DEF Effect, Carries
<1>5. /\ ShowsMsg(es, MsgOf(ctx[r]), MsgOf(ctx'[r]))
      /\ \A x \in CallIds : ShowsCall(es, x, CallOf(pc[r], ctx[r], results[r], x),
                                             CallOf(pc'[r], ctx'[r], results'[r], x))
    BY <1>3 DEF Effect, Shows
<1>6. /\ ShowsMsg(evq[r], streamMessage, MsgOf(ctx[r]))
      /\ \A x \in CallIds : ShowsCall(evq[r], x, OnIn(pendingToolCalls, x),
                                      CallOf(pc[r], ctx[r], results[r], x))
    BY <1>2 DEF Drain, DrainOf, Reading
<1>7. ShowsMsg(Cat(evq[r], es), streamMessage, MsgOf(ctx'[r]))
    BY <1>2, <1>5, <1>6, LaterConcat DEF ShowsMsg
<1>8. \A x \in CallIds : ShowsCall(Cat(evq[r], es), x, OnIn(pendingToolCalls, x),
                                   CallOf(pc'[r], ctx'[r], results'[r], x))
    BY <1>2, <1>5, <1>6, LaterConcat DEF ShowsCall
<1>9. ~NoneOpen'
    BY <1>1, <1>2, IdlePrimed
<1> QED
    BY <1>1, <1>2, <1>4, <1>7, <1>8, <1>9, DrainPrimed DEF DrainOf

LEMMA DrainBegin ==
    ASSUME TypeInv, Core, Drain, NoneOpen, NEW r \in Runs, NEW new \in Seq(UserMsgs),
           NEW skipPoll, NEW sq, NEW fq, BeginRun(r, new, skipPoll, sq, fq)
    PROVE  Drain'
<1>1. Sound(messages) /\ messages \in Seq(Msgs) /\ new \in Seq(Msgs)
    BY RunType, RolesOf DEF Core, Idle
<1>2. /\ cons'[r] = "reading" /\ pc'[r] = "begin" /\ streamMessage' = NoMsg
      /\ evq'[r] = Announce(new) /\ ctx'[r] = Cat(messages, new)
      /\ pendingToolCalls' = pendingToolCalls
      /\ \A q \in Runs \ {r} : cons'[q] = cons[q]
    BY DEF BeginRun, Goto, Cat, TypeInv, TypeOK
<1>3. ~IsPartial(Cat(messages, new))
    BY <1>1, CatType, FinalCat, NoAnswersFinal, FinalWhole DEF Sound
<1>4. MsgOf(ctx'[r]) = NoMsg /\ \A x : CallOf(pc'[r], ctx'[r], results'[r], x) = "off"
    BY <1>2, <1>3 DEF MsgOf, CallOf
<1>5. \A x : OnIn(pendingToolCalls', x) = "off"
    BY <1>2 DEF Drain, OnIn
<1>6. ShowsMsg(Announce(new), NoMsg, NoMsg) /\ \A x : ShowsCall(Announce(new), x, "off", "off")
    BY <1>1, ShowsAnnounce
<1>7. DrainOf(evq'[r], streamMessage', pendingToolCalls', pc'[r], ctx'[r], results'[r])
    BY <1>2, <1>4, <1>5, <1>6 DEF DrainOf
<1>8. ~NoneOpen' /\ \A q \in Runs \ {r} : cons'[q] # "reading"
    BY <1>2, IdlePrimed DEF NoneOpen, Open
<1> QED
    BY <1>7, <1>8, DrainPrimed

LEMMA DrainClient ==
    ASSUME TypeInv, Exclusive, Core, Drain, Disciplined, Client
    PROVE  Drain'
<1>q. \A mode : /\ Dequeued(mode, steeringQueue) \in Seq(UserMsgs)
                /\ Dequeued(mode, followUpQueue) \in Seq(UserMsgs)
    BY DequeuedType DEF TypeInv, TypeOK
<1>1. ASSUME NEW r \in Runs, NEW i \in Inputs, Prompt(r, i) PROVE Drain'
    <2>1. <<User("prompt", i)>> \in Seq(UserMsgs)
        BY MsgTypes
    <2> QED
        BY <1>1, <2>1, StartsAlone, DrainBegin DEF Prompt
<1>2. ASSUME NEW r \in Runs, ContinueFromContext(r) PROVE Drain'
    <2>1. <<>> \in Seq(UserMsgs)
        OBVIOUS
    <2> QED
        BY <1>2, <2>1, StartsAlone, DrainBegin DEF ContinueFromContext
<1>3. ASSUME NEW r \in Runs, ContinueFromQueue(r) PROVE Drain'
    BY <1>3, <1>q, StartsAlone, DrainBegin DEF ContinueFromQueue
<1>4. ASSUME \/ \E i \in Inputs : Steer(i) \/ FollowUp(i)
             \/ ClearSteeringQueue \/ ClearFollowUpQueue \/ SetQueueMode
             \/ Abort \/ DropLastAnswer
      PROVE Drain'
    <2>1. UNCHANGED <<streamMessage, pendingToolCalls, cons, evq, pc, ctx, results>>
        BY <1>4 DEF Steer, FollowUp, ClearSteeringQueue, ClearFollowUpQueue, SetQueueMode,
                    Abort, DropLastAnswer, agentVars, runVars
    <2> QED
        BY <2>1, DrainPrimed, IdlePrimed DEF Drain, NoneOpen, Open, Reading
<1>5. ASSUME Reset PROVE Drain'
    <2>1. /\ streamMessage' = NoMsg /\ pendingToolCalls' = {} /\ cons' = cons
          /\ \A r \in Runs : cons[r] \in {"new", "closed"}
        BY <1>5 DEF Reset, Quiet, runVars
    <2> QED
        BY <2>1, DrainPrimed
<1> QED
    BY <1>1, <1>2, <1>3, <1>4, <1>5 DEF Client

LEMMA DrainConsumer ==
    ASSUME TypeInv, Exclusive, Core, Drain, Disciplined, NEW r \in Runs, Consumer(r)
    PROVE  Drain'
<1>d. DOMAIN cons = Runs /\ DOMAIN evq = Runs
    BY DEF TypeInv, TypeOK
<1>1. CASE Consume(r)
    <2> DEFINE e == Head(evq[r])
               q == evq[r]
    <2>1. /\ cons[r] = "reading" /\ q # <<>> /\ q \in Seq(Events)
          /\ OnEvent(e)
          /\ evq'[r] = Tail(q) /\ cons'[r] = IF e = AgentEnd THEN "exiting" ELSE "reading"
          /\ UNCHANGED <<pc, ctx, results>>
          /\ \A p \in Runs \ {r} : cons'[p] = cons[p]
        BY <1>1, <1>d, RunType DEF Consume
    <2>2. e \in Events
        BY <2>1
    <2>3. \A p \in Runs \ {r} : cons'[p] # "reading"
        BY <2>1 DEF Exclusive, Open
    <2>4. ~NoneOpen'
        BY <2>1, IdlePrimed
    <2>5. DrainOf(q, streamMessage, pendingToolCalls, pc[r], ctx[r], results[r])
        BY <2>1 DEF Drain, Reading
    <2>6. ASSUME e # AgentEnd
          PROVE  streamMessage' = IF e \in MsgEvents THEN MsgShown[e] ELSE streamMessage
        <3>1. e.kind # "agent_end"
            BY <2>2, <2>6, EventParts
        <3> QED
            BY <2>1, <2>2, <3>1 DEF OnEvent, MsgEvents, MsgShown
    <2>7. ASSUME NEW x \in CallIds
          PROVE  OnIn(pendingToolCalls', x)
                    = IF e \in CallEventsOf(x) THEN CallShown(x)[e] ELSE OnIn(pendingToolCalls, x)
        BY <2>1, <2>2 DEF OnEvent, CallEventsOf, CallShown, OnIn
    <2> HIDE DEF e
    <2>8. ASSUME e # AgentEnd
          PROVE  DrainOf(Tail(q), streamMessage', pendingToolCalls', pc[r], ctx[r], results[r])
        <3>1. ShowsMsg(Tail(q), streamMessage', MsgOf(ctx[r]))
            BY <2>1, <2>5, <2>6, <2>8, LaterTail DEF DrainOf, ShowsMsg, e
        <3>2. ASSUME NEW x \in CallIds
              PROVE  ShowsCall(Tail(q), x, OnIn(pendingToolCalls', x),
                               CallOf(pc[r], ctx[r], results[r], x))
            BY <2>1, <2>5, <2>7, LaterTail DEF DrainOf, ShowsCall, e
        <3> QED
            BY <3>1, <3>2 DEF DrainOf
    <2> QED
        BY <2>1, <2>3, <2>4, <2>8, DrainPrimed
<1>2. CASE Close(r)
    <2>1. /\ streamMessage' = NoMsg /\ pendingToolCalls' = {} /\ cons[r] = "exiting"
          /\ \A q \in Runs \ {r} : cons'[q] = cons[q]
          /\ cons'[r] = "closed"
        BY <1>2, <1>d DEF Close, Finally
    <2>2. \A q \in Runs \ {r} : cons[q] # "reading"
        BY <2>1 DEF Exclusive, Open
    <2> QED
        BY <2>1, <2>2, DrainPrimed
<1>3. CASE ListenerThrows(r)
    BY <1>3 DEF ListenerThrows, Disciplined
<1> QED
    BY <1>1, <1>2, <1>3 DEF Consumer

LEMMA DrainNext ==
    ASSUME TypeInv, Exclusive, Core, Drain, Disciplined, [Next]_vars
    PROVE  Drain'
<1>1. CASE Client
    BY <1>1, DrainClient
<1>2. CASE \E r \in Runs : Loop(r) \/ Consumer(r)
    BY <1>2, DrainLoop, DrainConsumer
<1>3. CASE UNCHANGED vars
    <2>1. UNCHANGED <<streamMessage, pendingToolCalls, cons, evq, pc, ctx, results>>
        BY <1>3 DEF vars, agentVars, runVars
    <2> QED
        BY <2>1, DrainPrimed, IdlePrimed DEF Drain, NoneOpen, Open, Reading
<1> QED
    BY <1>1, <1>2, <1>3 DEF Next

-----------------------------------------------------------------------------
Invariant == TypeInv /\ Exclusive /\ Core /\ Deliver /\ Drain

LEMMA InvariantHolds == ASSUME Disciplined PROVE Spec => []Invariant
<1>1. Init => Invariant
    <2> SUFFICES ASSUME Init PROVE Invariant
        OBVIOUS
    <2>1. Exclusive /\ Drain
        BY DEF Init, Exclusive, Open, Reading, LoopLives, Drain
    <2> QED
        BY <2>1, InitType, CoreInit, DeliverInit DEF Invariant
<1>2. Invariant /\ [Next]_vars => Invariant'
    BY NextType, ExclusiveNext, CoreNext, DeliverNext, DrainNext DEF Invariant
<1> QED
    BY <1>1, <1>2, PTL DEF Spec

\* Two loops never run side by side, isStreaming is set as long as one runs
\* (Agent.prompt and Agent.continue refuse to start meanwhile), and the handles of
\* abort() and waitForIdle() are those of the run being read: for clients that
\* start no run inside agent_end and listeners that do not throw.
THEOREM RunsAreExclusive ==
    ASSUME Disciplined
    PROVE  Spec => [](OneLoopAtATime /\ HandlesReachLoop)
<1>1. Invariant => OneLoopAtATime /\ HandlesReachLoop
    BY DEF Invariant, Exclusive, OneLoopAtATime, HandlesReachLoop, Open, Reading
<1> QED
    BY <1>1, InvariantHolds, PTL

\* Whatever the model is sent (streamAssistantResponse, agent-loop.ts) holds, after
\* each answer, the results of all its tool calls in order, in every run and also
\* after steering messages cut calls short, runs that failed, resets and retries.
THEOREM ResultsFollowTheirCalls ==
    ASSUME Disciplined PROVE Spec => []ToolResultsFollowCalls
<1>1. Invariant => ToolResultsFollowCalls
    <2> SUFFICES ASSUME Invariant, NEW r \in Runs, pc[r] \in {"calling", "streaming"}
                 PROVE  Complete(ctx[r])
        BY DEF ToolResultsFollowCalls, Complete
    <2> QED
        BY DEF Invariant, Core, Shape, ShapeOf, Working
<1> QED
    BY <1>1, InvariantHolds, PTL

\* runLoop polls the follow-ups only when an answer has neither tool calls nor
\* steering messages after it: in a context a follow-up stands after an answer or
\* after another follow-up.
THEOREM FollowUpsWaitForTheAnswer ==
    ASSUME Disciplined PROVE Spec => []FollowUpsComeLast
<1>1. Invariant => FollowUpsComeLast
    BY DEF Invariant, Core, Shape, ShapeOf, FollowUpsLast, IsVia, FollowUpsComeLast
<1> QED
    BY <1>1, InvariantHolds, PTL

\* The transcript that Agent._runLoop builds from message_end events, with those
\* still under way, is the context that runLoop built, so the next run starts from
\* what this one sent to the model.
THEOREM TranscriptIsTheContext ==
    ASSUME Disciplined PROVE Spec => []TranscriptMirrors
<1>1. Invariant => TranscriptMirrors
    <2> SUFFICES ASSUME Invariant, NEW r \in Runs
                 PROVE  /\ Reading(r) =>
                              messages \o InFlight(r) = Committed(r) \o results[r]
                        /\ cons[r] = "exiting" => messages = ctx[r]
        BY DEF TranscriptMirrors
    <2>1. RunOf(cons[r], pc[r], ctx[r], results[r], evq[r], messages)
        BY DEF Invariant, Core, Run
    <2>2. Committed(r) = CommittedOf(ctx[r])
        BY DEF Committed, CommittedOf, HasPartial, IsPartial
    <2> QED
        BY <2>1, <2>2 DEF RunOf, Reading, InFlight, TotalOf, Cat
<1> QED
    BY <1>1, InvariantHolds, PTL

\* Agent.steer and Agent.followUp: the messages of each queue that are in the
\* transcript, on their way to it, polled or still queued are those sent and not
\* cleared, in the order they were sent, each once.
THEOREM QueuedMessagesArriveInOrder ==
    ASSUME Disciplined PROVE Spec => []DeliveredInOrder
<1>1. Invariant => DeliveredInOrder
    <2> SUFFICES ASSUME Invariant, NEW via \in {"steer", "followUp"}, NEW queue, NEW sent,
                        queue = IF via = "steer" THEN steeringQueue ELSE followUpQueue,
                        sent = IF via = "steer" THEN steered ELSE followed
                 PROVE  /\ Quiet => Via(via, messages) \o queue = sent
                        /\ \A r \in Runs : Reading(r) =>
                              Via(via, messages \o InFlight(r) \o pending[r]) \o queue = sent
        BY DEF DeliveredInOrder
    <2>1. ASSUME Quiet PROVE Via(via, messages) \o queue = sent
        <3>1. DeliveredOf(via, messages, <<>>, queue, sent)
            BY <2>1 DEF Invariant, Deliver, Both, NoneOpen, Open, Quiet
        <3>2. Cat(Via(via, messages), Via(via, <<>>)) = Via(via, messages)
            BY NothingVia, ViaType, CatNone DEF Invariant, TypeInv, TypeOK
        <3> QED
            BY <3>1, <3>2 DEF DeliveredOf, Cat
    <2>2. ASSUME NEW r \in Runs, Reading(r)
          PROVE  Via(via, messages \o InFlight(r) \o pending[r]) \o queue = sent
        <3> DEFINE s == TotalOf(ctx[r], results[r])
        <3>1. DeliveredOf(via, s, pending[r], queue, sent)
            BY <2>2 DEF Invariant, Deliver, Both, Open, Reading
        <3>2. /\ s \in Seq(Msgs) /\ pending[r] \in Seq(Msgs)
              /\ s = Cat(messages, Carried(evq[r]))
            BY <2>2, RunType, CommittedType, CatType
            DEF TotalOf, Invariant, Core, Run, RunOf, Reading
        <3> HIDE DEF s
        <3>3. Via(via, Cat(s, pending[r])) = Cat(Via(via, s), Via(via, pending[r]))
            BY <3>2, ViaConcat
        <3>4. Cat(s, pending[r]) = messages \o InFlight(r) \o pending[r]
            BY <3>2 DEF Cat, InFlight
        <3>5. Cat(Via(via, Cat(s, pending[r])), queue) = sent
            BY <3>1, <3>3 DEF DeliveredOf
        <3> QED
            BY <3>4, <3>5 DEF Cat
    <2> QED
        BY <2>1, <2>2
<1> QED
    BY <1>1, InvariantHolds, PTL

\* Once the events under way are consumed, streamMessage is the message that the
\* loop has begun and not ended, and pendingToolCalls holds the one call it runs;
\* between runs both are empty.
THEOREM DrainedAgentIsExact ==
    ASSUME Disciplined PROVE Spec => []DrainedStateExact
<1>1. Invariant => DrainedStateExact
    <2> SUFFICES ASSUME Invariant
                 PROVE  /\ \A r \in Runs : Reading(r) /\ evq[r] = <<>> =>
                           /\ streamMessage = IF HasPartial(r) THEN LastOf(ctx[r]) ELSE NoMsg
                           /\ pendingToolCalls = IF pc[r] = "tool" THEN {NextCall(r)} ELSE {}
                        /\ Quiet => streamMessage = NoMsg /\ pendingToolCalls = {}
        BY DEF DrainedStateExact
    <2>1. ASSUME NEW r \in Runs, Reading(r), evq[r] = <<>>
          PROVE  /\ streamMessage = IF HasPartial(r) THEN LastOf(ctx[r]) ELSE NoMsg
                 /\ pendingToolCalls = IF pc[r] = "tool" THEN {NextCall(r)} ELSE {}
        <3>1. DrainOf(<<>>, streamMessage, pendingToolCalls, pc[r], ctx[r], results[r])
            BY <2>1 DEF Invariant, Drain
        <3>2. streamMessage = MsgOf(ctx[r])
            BY <3>1, LaterEmpty DEF DrainOf, ShowsMsg
        <3>3. \A x \in CallIds : OnIn(pendingToolCalls, x) = CallOf(pc[r], ctx[r], results[r], x)
            BY <3>1, LaterEmpty DEF DrainOf, ShowsCall
        <3>4. \A x \in CallIds :
                 x \in pendingToolCalls <=> pc[r] = "tool" /\ x = NextCall(r)
            BY <3>3 DEF OnIn, CallOf, NextCall
        <3>5. pc[r] = "tool" => NextCall(r) \in CallIds
            BY NextCallType DEF Invariant
        <3>6. pendingToolCalls \subseteq CallIds
            BY DEF Invariant, TypeInv, TypeOK
        <3> QED
            BY <3>2, <3>4, <3>5, <3>6 DEF MsgOf, HasPartial, IsPartial
    <2>2. Quiet => streamMessage = NoMsg /\ pendingToolCalls = {}
        BY DEF Invariant, Drain, NoneOpen, Open, Quiet
    <2> QED
        BY <2>1, <2>2
<1> QED
    BY <1>1, InvariantHolds, PTL
=============================================================================
