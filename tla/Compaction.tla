------------------------------ MODULE Compaction ------------------------------
(***************************************************************************)
(* packages/coding-agent/src/core/compaction/compaction.ts: where a        *)
(* compaction cuts the branch of a session, what it gives to the           *)
(* summarizer, and what buildSessionContext() (session-manager.ts) makes   *)
(* of the branch afterwards.                                               *)
(*                                                                         *)
(* The branch is the sequence of entries from the root to the leaf.  Going *)
(* back to an earlier entry needs no action: what may follow a shorter     *)
(* branch is explored from the shorter branch.  A summary stands for a set *)
(* of entries; that the model really mentions them is its own affair.      *)
(***************************************************************************)
EXTENDS Naturals, Sequences, SequencesExt, FiniteSetsExt

CONSTANTS KeepRecentTokens, \* settings.keepRecentTokens
          Sizes,            \* kind of message -> what estimateTokens may say of it
          MaxEntries        \* bound: the length of the branch

\* "toolCall" is an assistant message that calls tools, "bash" a bashExecution.
Messages == {"user", "assistant", "toolCall", "toolResult", "bash"}
\* Entries that become messages although their type is not "message".
Notes == {"custom_message", "branch_summary"}
\* thinking_level_change, model_change, label, custom and session_info.
Kinds == Messages \cup Notes \cup {"setting", "compaction"}

ASSUME CompactionAssumption ==
    /\ KeepRecentTokens \in Nat /\ MaxEntries \in Nat
    /\ Sizes \in [Messages -> SUBSET Nat]

VARIABLE branch
branchVars == <<branch>>

-----------------------------------------------------------------------------
(* The cut.  from is the first entry after the previous compaction.        *)

IsCompaction(e) == e.kind = "compaction"
Boundary(s) == SelectLastInSeq(s, IsCompaction) + 1

\* What getMessageFromEntry() makes a message of, in the positions I of s.
MessagesAt(s, I) == {i \in I : s[i].kind \in Messages \cup Notes}

\* The sum of the first n values of f.
SumTo(f, n) ==
    LET sum[i \in 0..n] == IF i = 0 THEN 0 ELSE sum[i - 1] + f[i] IN sum[n]

\* estimateTokens() over the positions I of s, which skips notes.
Tokens(s, I) ==
    SumTo([i \in DOMAIN s |-> IF i \in I /\ s[i].kind \in Messages THEN s[i].size ELSE 0],
          Len(s))

\* Mutant of CutPoints: a tool result may be the first entry kept.
CutPointsAnywhere(s, from) == MessagesAt(s, from..Len(s))

CutPoints(s, from) == {i \in MessagesAt(s, from..Len(s)) : s[i].kind # "toolResult"}

\* Mutant of Cut: the closest cut point before, where there is one.
CutBefore(s, from) ==
    LET reached == {i \in from..Len(s) : /\ s[i].kind \in Messages
                                         /\ Tokens(s, i..Len(s)) >= KeepRecentTokens}
        earlier == {c \in CutPoints(s, from) : reached # {} /\ c <= Max(reached)}
    IN  IF earlier = {} THEN Min(CutPoints(s, from)) ELSE Max(earlier)

\* Walk back until the budget is reached, then the next cut point; else the first.
Cut(s, from) ==
    LET reached == {i \in from..Len(s) : /\ s[i].kind \in Messages
                                         /\ Tokens(s, i..Len(s)) >= KeepRecentTokens}
        later == {c \in CutPoints(s, from) : reached # {} /\ c >= Max(reached)}
    IN  IF later = {} THEN Min(CutPoints(s, from)) ELSE Min(later)

\* The cut, moved back over the entries before it that are not messages.
FirstKept(s, from) ==
    IF CutPoints(s, from) = {} THEN from
    ELSE Min({f \in from..Cut(s, from) :
                 \A i \in f..(Cut(s, from) - 1) : s[i].kind \notin Messages})

\* findTurnStartIndex: where the turn of entry i begins, 0 if nowhere after from.
TurnStart(s, i, from) ==
    LET starts == {j \in from..i : s[j].kind \in Notes \cup {"user", "bash"}}
    IN  IF starts = {} THEN 0 ELSE Max(starts)

IsSplitTurn(s, from) ==
    LET kept == FirstKept(s, from)
    IN  CutPoints(s, from) # {} /\ s[kept].kind # "user" /\ TurnStart(s, kept, from) # 0

\* messagesToSummarize and turnPrefixMessages.
HistoryEnd(s, from) ==
    IF IsSplitTurn(s, from) THEN TurnStart(s, FirstKept(s, from), from)
    ELSE FirstKept(s, from)
History(s, from) == MessagesAt(s, from..(HistoryEnd(s, from) - 1))
TurnPrefix(s, from) == MessagesAt(s, HistoryEnd(s, from)..(FirstKept(s, from) - 1))

\* What the summary of the previous compaction stands for.
PreviousSummary(s) == IF Boundary(s) = 1 THEN {} ELSE s[Boundary(s) - 1].covers

\* Mutant of Covers: the prefix of a split turn is summarized by nobody.
CoversNoPrefix(s) ==
    PreviousSummary(s) \cup History(s, Boundary(s))

\* compact(): a prefix without a history before it gets "No prior history."
Covers(s) ==
    LET from == Boundary(s)
    IN  IF TurnPrefix(s, from) # {} /\ History(s, from) = {} THEN TurnPrefix(s, from)
        ELSE PreviousSummary(s) \cup History(s, from) \cup TurnPrefix(s, from)

-----------------------------------------------------------------------------
(* buildSessionContext: the entries whose messages are sent to the model,  *)
(* next to the summary of the last compaction.                             *)
Context(s) ==
    LET c == Boundary(s) - 1
        first == IF c = 0 THEN 1 ELSE s[c].kept
    IN  MessagesAt(s, first..Len(s))

BranchInit == branch = <<>>

\* The last entry that is not a setting, which may come at any time.
LastMessageKind ==
    LET i == SelectLastInSeq(branch, LAMBDA e : e.kind # "setting")
    IN  IF i = 0 THEN "none" ELSE branch[i].kind

(* A message is persisted.  Tool results follow their calls, see module    *)
(* Agent, and none comes after a compaction: compact() disconnects from    *)
(* the run it aborts, and a run has ended before an automatic compaction.  *)
AppendMessage(kind, size) ==
    /\ Len(branch) < MaxEntries
    /\ kind = "toolResult" => LastMessageKind \in {"toolCall", "toolResult"}
    /\ branch' = Append(branch, [kind |-> kind, size |-> size])

AppendOther(kind) ==
    /\ Len(branch) < MaxEntries
    /\ branch' = Append(branch, [kind |-> kind])

\* prepareCompaction, compact and appendCompaction.
Compact ==
    /\ Len(branch) < MaxEntries
    /\ branch # <<>> /\ ~IsCompaction(Last(branch))
    /\ branch' = Append(branch, [kind |-> "compaction", covers |-> Covers(branch),
                                 kept |-> FirstKept(branch, Boundary(branch))])

BranchNext ==
    \/ \E kind \in Messages : \E size \in Sizes[kind] : AppendMessage(kind, size)
    \/ \E kind \in Notes \cup {"setting"} : AppendOther(kind)
    \/ Compact

BranchSpec == BranchInit /\ [][BranchNext]_branchVars

-----------------------------------------------------------------------------
(* Properties.                                                             *)

Compacted == branch # <<>> /\ IsCompaction(Last(branch))

\* The compactions of the branch before position i, the last one and 0 if none.
CompactionBefore(i) == SelectLastInSubSeq(branch, 1, i - 1, IsCompaction)

(* No request carries a tool result without its call: compaction.ts says   *)
(* of tool results that "they must follow their tool call".  Providers     *)
(* refuse a request that has one without.                                  *)
ResultsKeepTheirCalls ==
    \A i \in Context(branch) : branch[i].kind = "toolResult" =>
        \E j \in Context(branch) :
            /\ j < i /\ branch[j].kind = "toolCall"
            /\ \A k \in (j + 1)..(i - 1) : branch[k].kind \in {"toolResult", "setting"}

(* A compaction divides what came since the one before it: every message   *)
(* is in its summary, as history or as the prefix of a split turn, or is   *)
(* kept and sent, and never both.                                          *)
SummaryAndContextPartition ==
    LET c == Boundary(branch) - 1
        recent == MessagesAt(branch, (CompactionBefore(c) + 1)..Len(branch))
        covered == IF c = 0 THEN {} ELSE branch[c].covers
    IN  /\ recent \subseteq Context(branch) \cup covered
        /\ Context(branch) \cap covered = {}

(* What is kept meets keepRecentTokens: without its first message it is    *)
(* below the budget, and with the tool results the cut had to pass over it *)
(* reaches it.  Otherwise everything since the previous compaction is      *)
(* kept: it was less, or tool results at its end, with no cut point after  *)
(* them, reach the budget alone.                                           *)
KeptMeetsBudget ==
    Compacted =>
        LET c == Len(branch)
            kept == {i \in branch[c].kept..(c - 1) : branch[i].kind \in Messages}
            before == (CompactionBefore(c) + 1)..(branch[c].kept - 1)
            results == {i \in before : \A j \in i..(branch[c].kept - 1) :
                                           branch[j].kind \in {"toolResult", "setting"}}
        IN  \/ MessagesAt(branch, before) = {}
            \/ /\ kept # {} => Tokens(branch, kept \ {Min(kept)}) < KeepRecentTokens
               /\ Tokens(branch, kept \cup results) >= KeepRecentTokens

(* docs/compaction.md: compaction is to "summarize older content while     *)
(* preserving recent work", and the summary of a split turn has            *)
(* "Previous context (if any)".  So nothing of the conversation is         *)
(* forgotten: it is in the summary or in the context.                      *)
NothingIsForgotten ==
    MessagesAt(branch, 1..Len(branch)) \subseteq
        Context(branch) \cup (IF Boundary(branch) = 1 THEN {} ELSE PreviousSummary(branch))
=============================================================================
