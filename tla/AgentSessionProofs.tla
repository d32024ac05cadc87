-------------------------- MODULE AgentSessionProofs --------------------------
(* Proofs about AgentSession and about Compaction, which cuts the branches *)
(* that the session compacts.                                              *)
(*                                                                         *)
(* Compaction, for branches of any length, any budget and any sizes: a     *)
(* tool result is never sent without its call, a compaction divides what   *)
(* came since the one before it between its summary and what is kept, and  *)
(* what is kept meets the budget.                                          *)
(*                                                                         *)
(* AgentSession, for any number of calls, retries and sessions: the types, *)
(* and for a patient front end what the session promises: sessions do not  *)
(* mix, an overflow is recovered from once, retries end, and the context   *)
(* tells what the session file does.                                       *)
EXTENDS AgentSession, Compaction, SharedFacts, TLAPS

Entry == [kind : Messages, size : Nat] \cup [kind : Notes \cup {"setting"}]
            \cup [kind : {"compaction"}, covers : SUBSET Nat, kept : Nat]

-----------------------------------------------------------------------------
(* The last entry of a kind.                                               *)

CompactionsBefore(s, n) == {i \in 1..n : s[i].kind = "compaction"}

\* p is the last compaction among the first n entries of s, 0 if there is none.
LastCompaction(s, n, p) ==
    /\ p \in 0..n
    /\ p # 0 => s[p].kind = "compaction"
    /\ \A i \in (p + 1)..n : s[i].kind # "compaction"

LEMMA LastCompactionIsUnique ==
    ASSUME NEW s, NEW n \in Nat, NEW p, NEW q, LastCompaction(s, n, p), LastCompaction(s, n, q)
    PROVE  p = q
<1>1. p \in Nat /\ q \in Nat /\ p <= n /\ q <= n
    BY DEF LastCompaction
<1>2. ~(p < q)
    BY <1>1 DEF LastCompaction
<1>3. ~(q < p)
    BY <1>1 DEF LastCompaction
<1> QED
    BY <1>1, <1>2, <1>3

LEMMA MaxIsLast ==
    ASSUME NEW s, NEW n \in Nat
    PROVE  LET I == CompactionsBefore(s, n)
           IN  LastCompaction(s, n, IF I # {} THEN Max(I) ELSE 0)
<1> DEFINE I == CompactionsBefore(s, n)
<1>1. CASE I = {}
    BY <1>1 DEF CompactionsBefore, LastCompaction
<1>2. CASE I # {}
    <2>1. I \subseteq 1..n
        BY DEF CompactionsBefore
    <2> HIDE DEF I
    <2>2. Max(I) \in I /\ \A y \in I : y <= Max(I)
        BY <1>2, <2>1, MaxFacts
    <2>3. Max(I) \in 1..n /\ s[Max(I)].kind = "compaction"
        BY <2>2 DEF I, CompactionsBefore
    <2>4. \A i \in (Max(I) + 1)..n : s[i].kind # "compaction"
        <3> SUFFICES ASSUME NEW i \in (Max(I) + 1)..n, s[i].kind = "compaction" PROVE FALSE
            OBVIOUS
        <3>1. i \in 1..n /\ i > Max(I)
            BY <2>3
        <3>2. i \in I
            BY <3>1 DEF I, CompactionsBefore
        <3> QED
            BY <2>2, <2>3, <3>1, <3>2
    <2>5. LastCompaction(s, n, Max(I))
        BY <2>3, <2>4 DEF LastCompaction
    <2> QED
        BY <1>2, <2>5 DEF I
<1> QED
    BY <1>1, <1>2 DEF I

LEMMA BoundaryIsLast ==
    ASSUME NEW s, Len(s) \in Nat
    PROVE  LastCompaction(s, Len(s), Boundary(s) - 1)
<1> DEFINE I == CompactionsBefore(s, Len(s))
           m == IF I # {} THEN Max(I) ELSE 0
<1>1. Boundary(s) = m + 1
    BY DEF Boundary, SelectLastInSeq, IsCompaction, CompactionsBefore
<1>2. LastCompaction(s, Len(s), m)
    BY MaxIsLast
<1>3. m \in Int
    BY <1>2 DEF LastCompaction
<1> QED
    BY <1>1, <1>2, <1>3

LEMMA BoundaryIsAnInteger ==
    ASSUME NEW s, Len(s) \in Nat
    PROVE  Boundary(s) \in Nat
<1> DEFINE I == CompactionsBefore(s, Len(s))
           m == IF I # {} THEN Max(I) ELSE 0
<1>1. Boundary(s) = m + 1
    BY DEF Boundary, SelectLastInSeq, IsCompaction, CompactionsBefore
<1>2. LastCompaction(s, Len(s), m)
    BY MaxIsLast
<1> QED
    BY <1>1, <1>2 DEF LastCompaction

LEMMA LastOtherThanSetting ==
    ASSUME NEW s \in Seq(Entry), s = branch, LastMessageKind # "none"
    PROVE  \E i \in 1..Len(s) :
              /\ s[i].kind = LastMessageKind
              /\ \A k \in (i + 1)..Len(s) : s[k].kind = "setting"
<1> DEFINE I == {i \in 1..Len(branch) : branch[i].kind # "setting"}
           m == IF I # {} THEN Max(I) ELSE 0
<1>1. LastMessageKind = IF m = 0 THEN "none" ELSE branch[m].kind
    BY DEF LastMessageKind, SelectLastInSeq
<1>2. I # {} /\ m = Max(I)
    BY <1>1
<1>3. Len(branch) \in Nat /\ I \subseteq 1..Len(branch)
    OBVIOUS
<1> HIDE DEF m, I
<1>4. m \in I /\ \A y \in I : y <= m
    BY <1>2, <1>3, MaxFacts
<1>5. m \in 1..Len(branch)
    BY <1>4 DEF I
<1>6. LastMessageKind = branch[m].kind
    BY <1>1, <1>5
<1>7. ASSUME NEW k \in (m + 1)..Len(branch), branch[k].kind # "setting" PROVE FALSE
    <2>1. k \in 1..Len(branch) /\ k > m
        BY <1>5
    <2>2. k \in I
        BY <1>7, <2>1 DEF I
    <2> QED
        BY <2>1, <2>2, <1>4, <1>5
<1> QED
    BY <1>5, <1>6, <1>7

-----------------------------------------------------------------------------
(* Where a compaction cuts.                                                *)

LEMMA CutIsACutPoint ==
    ASSUME NEW s \in Seq(Entry), NEW from \in Nat, CutPoints(s, from) # {}
    PROVE  Cut(s, from) \in CutPoints(s, from)
<1> DEFINE reached == {i \in from..Len(s) : /\ s[i].kind \in Messages
                                            /\ Tokens(s, i..Len(s)) >= KeepRecentTokens}
           later == {c \in CutPoints(s, from) : reached # {} /\ c >= Max(reached)}
<1>1. Cut(s, from) = IF later = {} THEN Min(CutPoints(s, from)) ELSE Min(later)
    BY DEF Cut
<1>2. CutPoints(s, from) \subseteq Nat
    BY DEF CutPoints, MessagesAt
<1>3. later \subseteq CutPoints(s, from)
    OBVIOUS
<1> HIDE DEF later
<1>4. CASE later = {}
    BY <1>1, <1>2, <1>4, MinFacts
<1>5. CASE later # {}
    <2>1. Min(later) \in later
        BY <1>2, <1>3, <1>5, MinFacts
    <2> QED
        BY <1>1, <1>3, <1>5, <2>1
<1> QED
    BY <1>4, <1>5

\* What is kept begins at or before the cut, with no message in between.
LEMMA KeptReachesTheCut ==
    ASSUME NEW s \in Seq(Entry), NEW from \in Nat \ {0}, from <= Len(s) + 1
    PROVE  /\ FirstKept(s, from) \in from..(Len(s) + 1)
           /\ \/ FirstKept(s, from) = from /\ CutPoints(s, from) = {}
              \/ \E m \in FirstKept(s, from)..Len(s) :
                    /\ m \in CutPoints(s, from)
                    /\ \A i \in FirstKept(s, from)..(m - 1) : s[i].kind \notin Messages
<1> DEFINE cut == Cut(s, from)
           F == {f \in from..cut : \A i \in f..(cut - 1) : s[i].kind \notin Messages}
<1>1. CASE CutPoints(s, from) = {}
    BY <1>1 DEF FirstKept
<1>2. CASE CutPoints(s, from) # {}
    <2>1. cut \in CutPoints(s, from)
        BY <1>2, CutIsACutPoint
    <2>2. cut \in from..Len(s)
        BY <2>1 DEF CutPoints, MessagesAt
    <2>3. FirstKept(s, from) = Min(F)
        BY <1>2 DEF FirstKept
    <2> HIDE DEF cut
    <2>4. cut \in F
        BY <2>2
    <2>5. F \subseteq Nat
        BY <2>2
    <2> HIDE DEF F
    <2>6. Min(F) \in F
        BY <2>4, <2>5, MinFacts
    <2>7. FirstKept(s, from) \in from..cut
          /\ \A i \in FirstKept(s, from)..(cut - 1) : s[i].kind \notin Messages
        BY <2>3, <2>6 DEF F
    <2>8. FirstKept(s, from) \in from..(Len(s) + 1) /\ cut \in FirstKept(s, from)..Len(s)
        BY <2>2, <2>7
    <2> QED
        BY <2>1, <2>7, <2>8
<1> QED
    BY <1>1, <1>2

LEMMA HistoryEndsBeforeTheKept ==
    ASSUME NEW s \in Seq(Entry), NEW from \in Nat \ {0}, from <= Len(s) + 1
    PROVE  HistoryEnd(s, from) \in from..FirstKept(s, from)
<1> DEFINE kept == FirstKept(s, from)
           starts == {j \in from..kept : s[j].kind \in Notes \cup {"user", "bash"}}
<1>1. kept \in from..(Len(s) + 1)
    BY KeptReachesTheCut
<1>2. CASE ~IsSplitTurn(s, from)
    BY <1>1, <1>2 DEF HistoryEnd
<1>3. CASE IsSplitTurn(s, from)
    <2>1. TurnStart(s, kept, from) # 0
        BY <1>3 DEF IsSplitTurn
    <2>2. starts # {} /\ TurnStart(s, kept, from) = Max(starts)
        BY <2>1 DEF TurnStart
    <2>3. HistoryEnd(s, from) = TurnStart(s, kept, from)
        BY <1>3 DEF HistoryEnd
    <2>4. kept \in Nat /\ starts \subseteq from..kept /\ starts \subseteq 1..kept
        BY <1>1
    <2> HIDE DEF starts, kept
    <2>5. Max(starts) \in starts
        BY <2>2, <2>4, MaxFacts
    <2> QED
        BY <2>2, <2>3, <2>4, <2>5 DEF kept
<1> QED
    BY <1>2, <1>3

-----------------------------------------------------------------------------
(* The invariant.                                                          *)

\* Every tool result follows its call, with nothing between but settings and results.
ResultsFollow(s) ==
    \A i \in 1..Len(s) : s[i].kind = "toolResult" =>
        \E j \in 1..(i - 1) :
            /\ s[j].kind = "toolCall"
            /\ \A k \in (j + 1)..(i - 1) : s[k].kind \in {"toolResult", "setting"}

\* What the compaction at c kept begins with no result that would lack its call.
KeepsCalls(s, c) ==
    LET kept == s[c].kept
    IN  /\ kept \in 1..c
        /\ \/ kept = 1
           \/ s[kept - 1].kind = "compaction"
           \/ \E m \in kept..(c - 1) :
                 /\ s[m].kind \in (Messages \cup Notes) \ {"toolResult"}
                 /\ \A i \in kept..(m - 1) : s[i].kind \notin Messages

\* The compaction at c, with p the one before it, divides what is between them.
Divides(s, c) ==
    \A p \in 0..(c - 1) : LastCompaction(s, c - 1, p) =>
        /\ s[c].kept \in (p + 1)..c
        /\ s[c].covers \subseteq 1..(s[c].kept - 1)
        /\ MessagesAt(s, (p + 1)..(s[c].kept - 1)) \subseteq s[c].covers

CompactionInv ==
    /\ branch \in Seq(Entry)
    /\ ResultsFollow(branch)
    /\ \A c \in 1..Len(branch) : branch[c].kind = "compaction" =>
          KeepsCalls(branch, c) /\ Divides(branch, c)

LEMMA Appended ==
    ASSUME NEW s \in Seq(Entry), NEW e \in Entry, NEW t, t = Append(s, e)
    PROVE  /\ t \in Seq(Entry) /\ Len(t) = Len(s) + 1 /\ Len(s) \in Nat
           /\ t[Len(s) + 1] = e
           /\ \A i \in 1..Len(s) : t[i] = s[i]
OBVIOUS

LEMMA LastCompactionStays ==
    ASSUME NEW s, NEW t, NEW n \in Nat, \A i \in 1..n : t[i] = s[i],
           NEW p, LastCompaction(t, n, p)
    PROVE  LastCompaction(s, n, p)
<1>1. p \in 0..n
    BY DEF LastCompaction
<1>2. p # 0 => s[p].kind = "compaction"
    BY <1>1 DEF LastCompaction
<1>3. \A i \in (p + 1)..n : s[i].kind # "compaction"
    BY <1>1 DEF LastCompaction
<1> QED
    BY <1>1, <1>2, <1>3 DEF LastCompaction

LEMMA OldCompactionsStay ==
    ASSUME NEW s \in Seq(Entry), NEW e \in Entry, NEW t, t = Append(s, e),
           NEW c \in 1..Len(s), s[c].kind = "compaction", KeepsCalls(s, c), Divides(s, c)
    PROVE  KeepsCalls(t, c) /\ Divides(t, c)
<1>1. \A i \in 1..Len(s) : t[i] = s[i]
    BY Appended
<1>2. Len(s) \in Nat /\ c \in Nat /\ c <= Len(s)
    OBVIOUS
<1>3. t[c] = s[c]
    BY <1>1
<1> DEFINE kept == s[c].kept
<1>4. kept \in 1..c
    BY DEF KeepsCalls
<1> HIDE DEF kept
<1>5. KeepsCalls(t, c)
    <2>1. CASE kept = 1
        BY <1>2, <1>3, <1>4, <2>1 DEF KeepsCalls, kept
    <2>2. CASE kept # 1 /\ s[kept - 1].kind = "compaction"
        <3>1. kept - 1 \in 1..Len(s)
            BY <1>2, <1>4, <2>2
        <3>2. t[kept - 1] = s[kept - 1]
            BY <1>1, <3>1
        <3> QED
            BY <1>3, <1>4, <2>2, <3>2 DEF KeepsCalls, kept
    <2>3. CASE \E m \in kept..(c - 1) :
                  /\ s[m].kind \in (Messages \cup Notes) \ {"toolResult"}
                  /\ \A i \in kept..(m - 1) : s[i].kind \notin Messages
        <3>1. PICK m \in kept..(c - 1) :
                  /\ s[m].kind \in (Messages \cup Notes) \ {"toolResult"}
                  /\ \A i \in kept..(m - 1) : s[i].kind \notin Messages
            BY <2>3
        <3>2. t[m] = s[m] /\ \A i \in kept..(m - 1) : t[i] = s[i]
            BY <1>1, <1>2, <1>4
        <3>3. /\ t[m].kind \in (Messages \cup Notes) \ {"toolResult"}
              /\ \A i \in kept..(m - 1) : t[i].kind \notin Messages
            BY <3>1, <3>2
        <3> QED
            BY <1>3, <1>4, <3>3 DEF KeepsCalls, kept
    <2> QED
        BY <2>1, <2>2, <2>3 DEF KeepsCalls, kept
<1>6. Divides(t, c)
    <2> SUFFICES ASSUME NEW p \in 0..(c - 1), LastCompaction(t, c - 1, p)
                 PROVE  /\ t[c].kept \in (p + 1)..c
                        /\ t[c].covers \subseteq 1..(t[c].kept - 1)
                        /\ MessagesAt(t, (p + 1)..(t[c].kept - 1)) \subseteq t[c].covers
        BY DEF Divides
    <2>1. c - 1 \in Nat /\ \A i \in 1..(c - 1) : t[i] = s[i]
        BY <1>1, <1>2
    <2>2. LastCompaction(s, c - 1, p)
        BY <2>1, LastCompactionStays
    <2>3. /\ kept \in (p + 1)..c
          /\ s[c].covers \subseteq 1..(kept - 1)
          /\ MessagesAt(s, (p + 1)..(kept - 1)) \subseteq s[c].covers
        BY <2>2 DEF Divides, kept
    <2>4. \A i \in (p + 1)..(kept - 1) : t[i] = s[i]
        BY <1>1, <1>2, <1>4
    <2>5. MessagesAt(t, (p + 1)..(kept - 1)) \subseteq MessagesAt(s, (p + 1)..(kept - 1))
        BY <2>4 DEF MessagesAt
    <2> QED
        BY <1>3, <2>3, <2>5 DEF kept
<1> QED
    BY <1>5, <1>6

\* An entry that is no compaction, and no result without its call.
LEMMA AppendingKeepsInv ==
    ASSUME CompactionInv, NEW e \in Entry, branch' = Append(branch, e),
           e.kind = "toolResult" => LastMessageKind \in {"toolCall", "toolResult"},
           e.kind = "compaction" => KeepsCalls(branch', Len(branch) + 1)
                                    /\ Divides(branch', Len(branch) + 1)
    PROVE  CompactionInv'
<1> DEFINE s == branch
           n == Len(s)
           t == branch'
<1>1. /\ t \in Seq(Entry) /\ Len(t) = n + 1 /\ n \in Nat
      /\ t[n + 1] = e
      /\ \A i \in 1..n : t[i] = s[i]
    BY Appended DEF CompactionInv
<1>2. s \in Seq(Entry) /\ ResultsFollow(s)
    BY DEF CompactionInv
<1>3. ResultsFollow(t)
    <2> SUFFICES ASSUME NEW i \in 1..(n + 1), t[i].kind = "toolResult"
                 PROVE  \E j \in 1..(i - 1) :
                          /\ t[j].kind = "toolCall"
                          /\ \A k \in (j + 1)..(i - 1) : t[k].kind \in {"toolResult", "setting"}
        BY <1>1 DEF ResultsFollow
    <2> HIDE DEF n, s, t
    <2>1. CASE i \in 1..n
        <3>1. s[i].kind = "toolResult"
            BY <1>1, <2>1
        <3>2. PICK j \in 1..(i - 1) :
                 /\ s[j].kind = "toolCall"
                 /\ \A k \in (j + 1)..(i - 1) : s[k].kind \in {"toolResult", "setting"}
            BY <1>2, <2>1, <3>1 DEF ResultsFollow, n
        <3>3. j \in 1..n /\ \A k \in (j + 1)..(i - 1) : k \in 1..n
            BY <1>1, <2>1
        <3> QED
            BY <1>1, <3>2, <3>3
    <2>2. CASE i = n + 1
        <3>1. e.kind = "toolResult" /\ LastMessageKind \in {"toolCall", "toolResult"}
            BY <1>1, <2>2
        <3>2. PICK l \in 1..n : /\ s[l].kind = LastMessageKind
                                /\ \A k \in (l + 1)..n : s[k].kind = "setting"
            BY <1>2, <3>1, LastOtherThanSetting DEF s, n
        <3>3. CASE LastMessageKind = "toolCall"
            <4>1. \A k \in (l + 1)..(i - 1) : t[k].kind = "setting"
                BY <1>1, <2>2, <3>2
            <4>2. t[l].kind = "toolCall"
                BY <1>1, <3>2, <3>3
            <4>3. l \in 1..(i - 1)
                BY <1>1, <2>2
            <4> QED
                BY <4>1, <4>2, <4>3
        <3>4. CASE LastMessageKind = "toolResult"
            <4>1. PICK j \in 1..(l - 1) :
                     /\ s[j].kind = "toolCall"
                     /\ \A k \in (j + 1)..(l - 1) : s[k].kind \in {"toolResult", "setting"}
                BY <1>2, <3>2, <3>4 DEF ResultsFollow, n
            <4>2. j \in 1..n /\ j \in 1..(i - 1)
                BY <1>1, <2>2
            <4>3. ASSUME NEW k \in (j + 1)..(i - 1)
                  PROVE  t[k].kind \in {"toolResult", "setting"}
                <5>1. k \in 1..n
                    BY <1>1, <2>2, <4>2
                <5>2. k \in (j + 1)..(l - 1) \/ k = l \/ k \in (l + 1)..n
                    BY <5>1, <1>1
                <5>3. t[k] = s[k]
                    BY <1>1, <5>1
                <5> QED
                    BY <3>2, <3>4, <4>1, <5>2, <5>3
            <4>4. t[j].kind = "toolCall"
                BY <1>1, <4>1, <4>2
            <4> QED
                BY <4>2, <4>3, <4>4
        <3> QED
            BY <3>1, <3>3, <3>4
    <2> QED
        BY <1>1, <2>1, <2>2
<1>4. ASSUME NEW c \in 1..Len(t), t[c].kind = "compaction"
      PROVE  KeepsCalls(t, c) /\ Divides(t, c)
    <2>1. CASE c \in 1..n
        <3>1. s[c].kind = "compaction"
            BY <1>1, <1>4, <2>1
        <3>2. KeepsCalls(s, c) /\ Divides(s, c)
            BY <2>1, <3>1 DEF CompactionInv
        <3> QED
            BY <1>2, <2>1, <3>1, <3>2, OldCompactionsStay
    <2>2. CASE c = n + 1
        BY <1>1, <1>4, <2>2
    <2> QED
        BY <1>1, <2>1, <2>2
<1> QED
    BY <1>1, <1>3, <1>4 DEF CompactionInv

LEMMA NewCompaction ==
    ASSUME CompactionInv, Compact
    PROVE  CompactionInv'
<1> DEFINE s == branch
           n == Len(s)
           from == Boundary(s)
           kept == FirstKept(s, from)
           end == HistoryEnd(s, from)
           e == [kind |-> "compaction", covers |-> Covers(s), kept |-> kept]
           t == branch'
<1>1. t = Append(s, e)
    BY DEF Compact
<1>2. s \in Seq(Entry) /\ n \in Nat /\ ResultsFollow(s)
    BY DEF CompactionInv
<1>3. LastCompaction(s, n, from - 1)
    BY <1>2, BoundaryIsLast
<1>4. from \in Nat \ {0} /\ from <= n + 1 /\ from - 1 \in 0..n
    <2>1. from - 1 \in 0..n
        BY <1>3 DEF LastCompaction
    <2>2. from \in Int
        BY <1>2, BoundaryIsAnInteger
    <2> QED
        BY <1>2, <2>1, <2>2
<1>5. /\ kept \in from..(n + 1)
      /\ \/ kept = from /\ CutPoints(s, from) = {}
         \/ \E m \in kept..n : /\ m \in CutPoints(s, from)
                               /\ \A i \in kept..(m - 1) : s[i].kind \notin Messages
    BY <1>2, <1>4, KeptReachesTheCut
<1>6. end \in from..kept
    BY <1>2, <1>4, HistoryEndsBeforeTheKept
<1>7. Covers(s) \subseteq 1..(kept - 1) /\ MessagesAt(s, from..(kept - 1)) \subseteq Covers(s)
    <2>1. History(s, from) = MessagesAt(s, from..(end - 1))
        BY DEF History
    <2>2. TurnPrefix(s, from) = MessagesAt(s, end..(kept - 1))
        BY DEF TurnPrefix
    <2>3. PreviousSummary(s) \subseteq 1..(kept - 1)
        <3>1. CASE from = 1
            BY <3>1 DEF PreviousSummary
        <3>2. CASE from # 1
            <4> DEFINE p == from - 1
            <4>1. p \in 1..n /\ s[p].kind = "compaction"
                BY <1>3, <1>4, <3>2 DEF LastCompaction
            <4>2. KeepsCalls(s, p) /\ Divides(s, p)
                BY <4>1 DEF CompactionInv
            <4>3. s[p].kept \in 1..p
                BY <4>2 DEF KeepsCalls
            <4>4. PICK q \in 0..(p - 1) : LastCompaction(s, p - 1, q)
                <5>1. p - 1 \in Nat
                    BY <4>1
                <5>2. LastCompaction(s, p - 1, IF CompactionsBefore(s, p - 1) # {}
                                               THEN Max(CompactionsBefore(s, p - 1)) ELSE 0)
                    BY <5>1, MaxIsLast
                <5> QED
                    BY <5>2 DEF LastCompaction
            <4>5. s[p].covers \subseteq 1..(s[p].kept - 1)
                BY <4>2, <4>4 DEF Divides
            <4>6. PreviousSummary(s) = s[p].covers
                BY <3>2 DEF PreviousSummary
            <4>7. 1..(s[p].kept - 1) \subseteq 1..(kept - 1)
                BY <1>4, <1>5, <4>3
            <4> QED
                BY <4>5, <4>6, <4>7
        <3> QED
            BY <3>1, <3>2
    <2> DEFINE H == History(s, from)
               T == TurnPrefix(s, from)
               P == PreviousSummary(s)
    <2>4. Covers(s) = IF T # {} /\ H = {} THEN T ELSE P \cup H \cup T
        BY DEF Covers
    <2> HIDE DEF end, kept, n, from, s
    <2>5. H \subseteq 1..(kept - 1) /\ T \subseteq 1..(kept - 1)
        BY <1>2, <1>4, <1>5, <1>6, <2>1, <2>2 DEF MessagesAt
    <2>6. MessagesAt(s, from..(kept - 1)) \subseteq H \cup T
        <3> SUFFICES ASSUME NEW i \in MessagesAt(s, from..(kept - 1)) PROVE i \in H \cup T
            OBVIOUS
        <3>1. i \in from..(kept - 1) /\ s[i].kind \in Messages \cup Notes
            BY DEF MessagesAt
        <3>2. i \in from..(end - 1) \/ i \in end..(kept - 1)
            BY <3>1, <1>2, <1>4, <1>5, <1>6
        <3> QED
            BY <3>1, <3>2, <2>1, <2>2 DEF MessagesAt
    <2> HIDE DEF H, T, P
    <2> QED
        BY <2>3, <2>4, <2>5, <2>6 DEF P
<1>8. e \in Entry
    <2>1. Covers(s) \subseteq Nat
        BY <1>2, <1>4, <1>5, <1>7
    <2>2. kept \in Nat
        BY <1>2, <1>4, <1>5
    <2> QED
        BY <2>1, <2>2 DEF Entry
<1>9. /\ t[n + 1] = e
      /\ \A i \in 1..n : t[i] = s[i]
    BY <1>1, <1>2, <1>8, Appended
<1>10. KeepsCalls(t, n + 1)
    <2> HIDE DEF s, n, from, kept, t
    <2>1. t[n + 1].kept = kept
        BY <1>9
    <2>2. kept \in 1..(n + 1)
        BY <1>2, <1>4, <1>5
    <2>3. CASE kept = from /\ CutPoints(s, from) = {}
        <3>1. CASE from = 1
            BY <2>1, <2>2, <2>3, <3>1 DEF KeepsCalls
        <3>2. CASE from # 1
            <4>1. from - 1 \in 1..n /\ s[from - 1].kind = "compaction"
                BY <1>2, <1>3, <1>4, <3>2 DEF LastCompaction
            <4>2. t[kept - 1].kind = "compaction"
                BY <1>9, <2>3, <4>1
            <4> QED
                BY <2>1, <2>2, <4>2 DEF KeepsCalls
        <3> QED
            BY <3>1, <3>2
    <2>4. CASE \E m \in kept..n : /\ m \in CutPoints(s, from)
                                  /\ \A i \in kept..(m - 1) : s[i].kind \notin Messages
        <3>1. PICK m \in kept..n : /\ m \in CutPoints(s, from)
                                   /\ \A i \in kept..(m - 1) : s[i].kind \notin Messages
            BY <2>4
        <3>2. s[m].kind \in (Messages \cup Notes) \ {"toolResult"}
            BY <3>1 DEF CutPoints, MessagesAt
        <3>3. t[m] = s[m] /\ \A i \in kept..(m - 1) : t[i] = s[i]
            BY <1>2, <1>9, <2>2
        <3>4. m \in kept..((n + 1) - 1)
            BY <1>2
        <3>5. /\ t[m].kind \in (Messages \cup Notes) \ {"toolResult"}
              /\ \A i \in kept..(m - 1) : t[i].kind \notin Messages
            BY <3>1, <3>2, <3>3
        <3> QED
            BY <2>1, <2>2, <3>4, <3>5 DEF KeepsCalls
    <2> QED
        BY <1>5, <2>3, <2>4
<1>11. Divides(t, n + 1)
    <2> HIDE DEF s, n, from, kept, t
    <2>1. t[n + 1].kept = kept /\ t[n + 1].covers = Covers(s)
        BY <1>9
    <2> SUFFICES ASSUME NEW p \in 0..n, LastCompaction(t, n, p)
                 PROVE  /\ kept \in (p + 1)..(n + 1)
                        /\ Covers(s) \subseteq 1..(kept - 1)
                        /\ MessagesAt(t, (p + 1)..(kept - 1)) \subseteq Covers(s)
        <3>1. (n + 1) - 1 = n
            BY <1>2
        <3> QED
            BY <2>1, <3>1 DEF Divides
    <2>2. LastCompaction(s, n, p)
        BY <1>2, <1>9, LastCompactionStays
    <2>3. p = from - 1
        BY <1>2, <1>3, <2>2, LastCompactionIsUnique
    <2>4. p + 1 = from
        BY <1>4, <2>3
    <2>5. \A i \in from..(kept - 1) : t[i] = s[i]
        BY <1>2, <1>4, <1>5, <1>9
    <2>6. MessagesAt(t, from..(kept - 1)) \subseteq MessagesAt(s, from..(kept - 1))
        BY <2>5 DEF MessagesAt
    <2> QED
        BY <1>5, <1>7, <2>4, <2>6
<1> QED
    BY <1>1, <1>8, <1>10, <1>11, AppendingKeepsInv

LEMMA CompactionInvHolds == BranchSpec => []CompactionInv
<1>1. BranchInit => CompactionInv
    <2> SUFFICES ASSUME branch = <<>> PROVE CompactionInv
        BY DEF BranchInit
    <2>1. branch \in Seq(Entry) /\ Len(branch) = 0
        OBVIOUS
    <2> QED
        BY <2>1 DEF CompactionInv, ResultsFollow
<1>2. CompactionInv /\ [BranchNext]_branchVars => CompactionInv'
    <2> SUFFICES ASSUME CompactionInv, [BranchNext]_branchVars PROVE CompactionInv'
        OBVIOUS
    <2>1. ASSUME NEW kind \in Messages, NEW size \in Sizes[kind], AppendMessage(kind, size)
          PROVE  CompactionInv'
        <3> DEFINE e == [kind |-> kind, size |-> size]
        <3>1. size \in Nat
            BY CompactionAssumption
        <3>2. e \in Entry /\ e.kind = kind /\ kind # "compaction"
            BY <3>1 DEF Entry, Messages
        <3>3. /\ branch' = Append(branch, e)
              /\ kind = "toolResult" => LastMessageKind \in {"toolCall", "toolResult"}
            BY <2>1 DEF AppendMessage
        <3> HIDE DEF e
        <3> QED
            BY <3>2, <3>3, AppendingKeepsInv
    <2>2. ASSUME NEW kind \in Notes \cup {"setting"}, AppendOther(kind)
          PROVE  CompactionInv'
        <3> DEFINE e == [kind |-> kind]
        <3>1. e \in Entry /\ e.kind # "compaction" /\ e.kind # "toolResult"
            BY DEF Entry, Notes
        <3>2. branch' = Append(branch, e)
            BY <2>2 DEF AppendOther
        <3> HIDE DEF e
        <3> QED
            BY <3>1, <3>2, AppendingKeepsInv
    <2>3. CASE Compact
        BY <2>3, NewCompaction
    <2>4. CASE UNCHANGED branchVars
        BY <2>4 DEF branchVars, CompactionInv
    <2> QED
        BY <2>1, <2>2, <2>3, <2>4 DEF BranchNext
<1> QED
    BY <1>1, <1>2, PTL DEF BranchSpec

-----------------------------------------------------------------------------
(* What the invariant says of the context.                                 *)

LEMMA ContextBegins ==
    ASSUME CompactionInv, NEW c, c = Boundary(branch) - 1
    PROVE  /\ c \in 0..Len(branch)
           /\ LastCompaction(branch, Len(branch), c)
           /\ Context(branch) = MessagesAt(branch, (IF c = 0 THEN 1 ELSE branch[c].kept)..Len(branch))
           /\ c # 0 => branch[c].kind = "compaction" /\ KeepsCalls(branch, c) /\ Divides(branch, c)
<1>1. Len(branch) \in Nat
    BY DEF CompactionInv
<1>2. LastCompaction(branch, Len(branch), c)
    BY <1>1, BoundaryIsLast
<1>3. Context(branch) = MessagesAt(branch, (IF c = 0 THEN 1 ELSE branch[c].kept)..Len(branch))
    BY DEF Context
<1>4. c \in 0..Len(branch)
    BY <1>2 DEF LastCompaction
<1>5. ASSUME c # 0
      PROVE  branch[c].kind = "compaction" /\ KeepsCalls(branch, c) /\ Divides(branch, c)
    <2>1. branch[c].kind = "compaction"
        BY <1>2, <1>5 DEF LastCompaction
    <2>2. \A m \in 0..Len(branch) : m # 0 => m \in 1..Len(branch)
        BY <1>1
    <2>3. c \in 1..Len(branch)
        BY <1>4, <1>5, <2>2
    <2> QED
        BY <2>1, <2>3 DEF CompactionInv
<1> QED
    BY <1>2, <1>3, <1>4, <1>5

LEMMA InvKeepsCalls == CompactionInv => ResultsKeepTheirCalls
<1> SUFFICES ASSUME CompactionInv, NEW i \in Context(branch), branch[i].kind = "toolResult"
             PROVE  \E j \in Context(branch) :
                       /\ j < i /\ branch[j].kind = "toolCall"
                       /\ \A k \in (j + 1)..(i - 1) : branch[k].kind \in {"toolResult", "setting"}
    BY DEF ResultsKeepTheirCalls
<1>0. PICK c : c = Boundary(branch) - 1
    OBVIOUS
<1> DEFINE n == Len(branch)
           first == IF c = 0 THEN 1 ELSE branch[c].kept
<1>1. /\ n \in Nat /\ c \in 0..n
      /\ Context(branch) = MessagesAt(branch, first..n)
      /\ c # 0 => branch[c].kind = "compaction" /\ KeepsCalls(branch, c)
    <2>1. n \in Nat
        BY DEF CompactionInv
    <2> HIDE DEF n
    <2>2. /\ c \in 0..Len(branch)
          /\ Context(branch) = MessagesAt(branch, (IF c = 0 THEN 1 ELSE branch[c].kept)..Len(branch))
          /\ c # 0 => branch[c].kind = "compaction" /\ KeepsCalls(branch, c)
        BY <1>0, ContextBegins
    <2> QED
        BY <2>1, <2>2 DEF n
<1>2. first \in Nat \ {0}
    BY <1>1 DEF KeepsCalls
<1> HIDE DEF n, first
<1>3. i \in first..n /\ i \in 1..n
    BY <1>1, <1>2 DEF MessagesAt
<1>4. PICK j \in 1..(i - 1) :
         /\ branch[j].kind = "toolCall"
         /\ \A k \in (j + 1)..(i - 1) : branch[k].kind \in {"toolResult", "setting"}
    BY <1>3 DEF CompactionInv, ResultsFollow, n
<1>5. j >= first
    <2>1. CASE c = 0
        BY <2>1 DEF first
    <2>2. CASE c # 0
        <3>1. branch[c].kind = "compaction" /\ KeepsCalls(branch, c) /\ first = branch[c].kept
            BY <1>1, <2>2 DEF first
        <3>2. CASE c < i
            <4>1. c \notin (j + 1)..(i - 1) /\ c # j
                BY <1>4, <3>1
            <4>2. c < j
                BY <1>1, <1>3, <3>2, <4>1
            <4>3. first <= c
                BY <1>1, <1>2, <3>1 DEF KeepsCalls
            <4> QED
                BY <1>1, <1>2, <4>2, <4>3
        <3>3. CASE c >= i
            <4> SUFFICES ASSUME j < first PROVE FALSE
                BY <1>2, <1>3
            <4>1. c # i /\ i < c
                BY <1>1, <1>3, <3>1, <3>3
            <4>2. CASE branch[first - 1].kind = "compaction" /\ first # 1
                <5>1. first - 1 # j
                    BY <1>4, <4>2
                <5>2. first - 1 \in (j + 1)..(i - 1)
                    BY <1>2, <1>3, <5>1
                <5> QED
                    BY <1>4, <4>2, <5>2
            <4>3. CASE \E m \in first..(c - 1) :
                          /\ branch[m].kind \in (Messages \cup Notes) \ {"toolResult"}
                          /\ \A k \in first..(m - 1) : branch[k].kind \notin Messages
                <5>1. PICK m \in first..(c - 1) :
                          /\ branch[m].kind \in (Messages \cup Notes) \ {"toolResult"}
                          /\ \A k \in first..(m - 1) : branch[k].kind \notin Messages
                    BY <4>3
                <5>2. m # i /\ branch[i].kind \in Messages
                    BY <5>1 DEF Messages
                <5>3. ~(i < m)
                    BY <1>1, <1>2, <1>3, <5>1, <5>2
                <5>4. m \in (j + 1)..(i - 1)
                    BY <1>1, <1>2, <1>3, <5>2, <5>3
                <5>5. branch[m].kind = "setting"
                    BY <1>4, <5>1, <5>4
                <5> QED
                    BY <5>1, <5>5 DEF Messages, Notes
            <4>4. CASE first = 1
                BY <1>3, <4>4
            <4> QED
                BY <3>1, <4>2, <4>3, <4>4 DEF KeepsCalls
        <3> QED
            BY <1>1, <1>3, <3>2, <3>3
    <2> QED
        BY <2>1, <2>2
<1>6. j \in first..n /\ j < i
    BY <1>1, <1>2, <1>3, <1>5
<1>7. j \in Context(branch)
    BY <1>1, <1>4, <1>6 DEF MessagesAt, Messages
<1> QED
    BY <1>4, <1>6, <1>7

LEMMA InvPartitions == CompactionInv => SummaryAndContextPartition
<1> SUFFICES ASSUME CompactionInv PROVE SummaryAndContextPartition
    OBVIOUS
<1>0. PICK c : c = Boundary(branch) - 1
    OBVIOUS
<1> DEFINE n == Len(branch)
           p == CompactionBefore(c)
           covered == IF c = 0 THEN {} ELSE branch[c].covers
           recent == MessagesAt(branch, (p + 1)..n)
<1>1. /\ n \in Nat /\ c \in 0..n
      /\ Context(branch) = MessagesAt(branch, (IF c = 0 THEN 1 ELSE branch[c].kept)..n)
      /\ c # 0 => KeepsCalls(branch, c) /\ Divides(branch, c)
    <2>1. n \in Nat
        BY DEF CompactionInv
    <2>2. /\ c \in 0..Len(branch)
          /\ Context(branch) = MessagesAt(branch, (IF c = 0 THEN 1 ELSE branch[c].kept)..Len(branch))
          /\ c # 0 => KeepsCalls(branch, c) /\ Divides(branch, c)
        BY <1>0, ContextBegins
    <2> QED
        BY <2>1, <2>2
<1>2. /\ recent \subseteq Context(branch) \cup covered
      /\ Context(branch) \cap covered = {}
    <2>1. p = IF CompactionsBefore(branch, c - 1) # {} THEN Max(CompactionsBefore(branch, c - 1)) ELSE 0
        BY DEF CompactionBefore, SelectLastInSubSeq, IsCompaction, CompactionsBefore
    <2>2. CASE c = 0
        <3>1. CompactionsBefore(branch, c - 1) = {}
            BY <2>2 DEF CompactionsBefore
        <3>2. p + 1 = 1
            BY <2>1, <3>1
        <3> QED
            BY <1>1, <2>2, <3>2
    <2>3. CASE c # 0
        <3> DEFINE kept == branch[c].kept
        <3>1. c - 1 \in Nat
            BY <1>1, <2>3
        <3>2. LastCompaction(branch, c - 1, p)
            BY <2>1, <3>1, MaxIsLast
        <3>3. p \in 0..(c - 1)
            BY <3>2 DEF LastCompaction
        <3>4. /\ kept \in (p + 1)..c
              /\ covered \subseteq 1..(kept - 1)
              /\ MessagesAt(branch, (p + 1)..(kept - 1)) \subseteq covered
            BY <1>1, <2>3, <3>2, <3>3 DEF Divides
        <3>5. Context(branch) = MessagesAt(branch, kept..n)
            BY <1>1, <2>3
        <3> HIDE DEF n, p, covered, kept
        <3>6. (p + 1)..n \subseteq (p + 1)..(kept - 1) \cup kept..n
            BY <1>1, <3>3, <3>4
        <3>7. MessagesAt(branch, (p + 1)..n) \subseteq
                 MessagesAt(branch, (p + 1)..(kept - 1)) \cup MessagesAt(branch, kept..n)
            BY <3>6 DEF MessagesAt
        <3>8. (kept..n) \cap (1..(kept - 1)) = {}
            BY <1>1, <3>3, <3>4
        <3>9. Context(branch) \subseteq kept..n
            BY <3>5 DEF MessagesAt
        <3> QED
            BY <3>4, <3>5, <3>7, <3>8, <3>9
    <2> QED
        BY <2>2, <2>3
<1> QED
    BY <1>0, <1>2 DEF SummaryAndContextPartition

(* However often a branch is compacted, and wherever, a request carries no *)
(* tool result without its call.                                           *)
THEOREM ResultsKeepCalls == BranchSpec => []ResultsKeepTheirCalls
BY CompactionInvHolds, InvKeepsCalls, PTL

(* However often a branch is compacted, every message since the compaction *)
(* before the last one is in its summary or is sent, and not both.         *)
THEOREM CompactionDivides == BranchSpec => []SummaryAndContextPartition
BY CompactionInvHolds, InvPartitions, PTL

-----------------------------------------------------------------------------
(* Sums.                                                                   *)

\* Counting up from 0 reaches every number up to n.
LEMMA CountingUp ==
    ASSUME NEW n \in Nat, NEW S, 0 \in S, \A i \in 1..n : i - 1 \in S => i \in S
    PROVE  \A i \in 0..n : i \in S
<1> DEFINE T == {i \in 0..n : i \notin S}
<1>1. CASE T = {}
    BY <1>1
<1>2. CASE T # {}
    <2>1. T \subseteq Nat
        OBVIOUS
    <2>2. PICK x \in T : \A y \in T : x <= y
        BY <1>2, <2>1, LeastNatural
    <2>3. x \in 1..n
        OBVIOUS
    <2>4. x - 1 \in 0..n /\ ~(x <= x - 1)
        BY <2>3
    <2>5. x - 1 \in S
        BY <2>2, <2>4
    <2> QED
        BY <2>3, <2>5
<1> QED
    BY <1>1, <1>2

\* g adds up the values of f.
AddsUp(g, f, n) == g[0] = 0 /\ \A i \in 1..n : g[i] = g[i - 1] + f[i]

LEMMA SumsAreUnique ==
    ASSUME NEW n \in Nat, NEW f, NEW g, NEW h, AddsUp(g, f, n), AddsUp(h, f, n)
    PROVE  \A i \in 0..n : g[i] = h[i]
<1> DEFINE S == {i \in 0..n : g[i] = h[i]}
<1>1. 0 \in S
    BY DEF AddsUp
<1>2. ASSUME NEW i \in 1..n, i - 1 \in S PROVE i \in S
    <2>1. g[i] = g[i - 1] + f[i] /\ h[i] = h[i - 1] + f[i] /\ g[i - 1] = h[i - 1]
        BY <1>2 DEF AddsUp
    <2> QED
        BY <2>1
<1> HIDE DEF S
<1>3. \A i \in 0..n : i \in S
    BY <1>1, <1>2, CountingUp
<1> QED
    BY <1>3 DEF S

LEMMA SumsExist ==
    ASSUME NEW n \in Nat, NEW f, \A i \in 1..n : f[i] \in Nat
    PROVE  \E g \in [0..n -> Nat] : AddsUp(g, f, n)
<1> DEFINE S == {k \in 0..n : \E g \in [0..k -> Nat] : AddsUp(g, f, k)}
<1>1. 0 \in S
    <2> DEFINE z == [i \in 0..0 |-> 0]
    <2>1. z \in [0..0 -> Nat] /\ AddsUp(z, f, 0)
        BY DEF AddsUp
    <2> QED
        BY <2>1
<1>2. ASSUME NEW k \in 1..n, k - 1 \in S PROVE k \in S
    <2>1. PICK g \in [0..(k - 1) -> Nat] : AddsUp(g, f, k - 1)
        BY <1>2
    <2> DEFINE h == [i \in 0..k |-> IF i = k THEN g[k - 1] + f[k] ELSE g[i]]
    <2>2. h \in [0..k -> Nat]
        OBVIOUS
    <2>3. /\ h[0] = 0 /\ h[k] = g[k - 1] + f[k] /\ h[k - 1] = g[k - 1]
          /\ \A i \in 1..(k - 1) : h[i] = g[i] /\ h[i - 1] = g[i - 1]
        BY <2>1 DEF AddsUp
    <2> HIDE DEF h
    <2>4. \A i \in 1..(k - 1) : h[i] = h[i - 1] + f[i]
        BY <2>1, <2>3 DEF AddsUp
    <2>5. \A i \in 1..k : i = k \/ i \in 1..(k - 1)
        OBVIOUS
    <2>6. AddsUp(h, f, k)
        BY <2>3, <2>4, <2>5 DEF AddsUp
    <2> QED
        BY <2>2, <2>6
<1> HIDE DEF S
<1>3. n \in S
    BY <1>1, <1>2, CountingUp
<1> QED
    BY <1>3 DEF S

LEMMA SumIs ==
    ASSUME NEW n \in Nat, NEW f, NEW g \in [0..n -> Nat], AddsUp(g, f, n)
    PROVE  SumTo(f, n) = g[n]
<1> DEFINE Adding(s) == [i \in 0..n |-> IF i = 0 THEN 0 ELSE s[i - 1] + f[i]]
           sum == CHOOSE s : s = Adding(s)
<1>1. g = Adding(g)
    BY DEF AddsUp
<1> HIDE DEF Adding
<1>2. sum = Adding(sum)
    BY <1>1
<1> HIDE DEF sum
<1>3. AddsUp(sum, f, n)
    BY <1>2 DEF AddsUp, Adding
<1>4. SumTo(f, n) = sum[n]
    BY DEF SumTo, sum, Adding
<1>5. sum[n] = g[n]
    BY <1>3, SumsAreUnique
<1> QED
    BY <1>4, <1>5

\* Larger values have a larger sum.
LEMMA SumGrows ==
    ASSUME NEW n \in Nat, NEW f, NEW g, \A i \in 1..n : f[i] \in Nat /\ g[i] \in Nat /\ f[i] <= g[i]
    PROVE  SumTo(f, n) \in Nat /\ SumTo(g, n) \in Nat /\ SumTo(f, n) <= SumTo(g, n)
<1>1. PICK a \in [0..n -> Nat] : AddsUp(a, f, n)
    BY SumsExist
<1>2. PICK b \in [0..n -> Nat] : AddsUp(b, g, n)
    BY SumsExist
<1> DEFINE S == {i \in 0..n : a[i] <= b[i]}
<1>3. 0 \in S
    BY <1>1, <1>2 DEF AddsUp
<1>4. ASSUME NEW i \in 1..n, i - 1 \in S PROVE i \in S
    <2>1. /\ a[i] = a[i - 1] + f[i] /\ b[i] = b[i - 1] + g[i] /\ a[i - 1] <= b[i - 1]
          /\ i - 1 \in 0..n /\ i \in 0..n
        BY <1>1, <1>2, <1>4 DEF AddsUp
    <2>2. a[i - 1] \in Nat /\ b[i - 1] \in Nat /\ f[i] \in Nat /\ g[i] \in Nat /\ f[i] <= g[i]
        BY <2>1
    <2> QED
        BY <2>1, <2>2
<1> HIDE DEF S
<1>5. \A i \in 0..n : i \in S
    BY ONLY n \in Nat, <1>3, <1>4, CountingUp
<1>6. SumTo(f, n) = a[n] /\ SumTo(g, n) = b[n]
    BY <1>1, <1>2, SumIs
<1> QED
    BY <1>5, <1>6 DEF S

LEMMA SumOfNothing ==
    ASSUME NEW n \in Nat, NEW f, \A i \in 1..n : f[i] = 0
    PROVE  SumTo(f, n) = 0
<1> DEFINE z == [i \in 0..n |-> 0]
<1>1. z \in [0..n -> Nat] /\ AddsUp(z, f, n) /\ z[n] = 0
    BY DEF AddsUp
<1> HIDE DEF z
<1> QED
    BY <1>1, SumIs

\* A sum does not change with a value of 0 at its end.
LEMMA SumWithoutLast ==
    ASSUME NEW n \in Nat, NEW f, NEW g, \A i \in 1..(n + 1) : f[i] \in Nat,
           f[n + 1] = 0, \A i \in 1..n : g[i] = f[i]
    PROVE  SumTo(f, n + 1) = SumTo(g, n)
<1>1. PICK a \in [0..(n + 1) -> Nat] : AddsUp(a, f, n + 1)
    BY SumsExist
<1> DEFINE b == [i \in 0..n |-> a[i]]
<1>2. b \in [0..n -> Nat] /\ b[n] = a[n] /\ AddsUp(b, g, n)
    BY <1>1 DEF AddsUp
<1> HIDE DEF b
<1>3. a[n + 1] = a[n]
    <2>1. a[n + 1] = a[(n + 1) - 1] + f[n + 1] /\ (n + 1) - 1 = n
        BY <1>1 DEF AddsUp
    <2>2. a[n] \in Nat
        OBVIOUS
    <2> QED
        BY <2>1, <2>2
<1>4. SumTo(f, n + 1) = a[n + 1] /\ SumTo(g, n) = b[n]
    BY <1>1, <1>2, SumIs
<1> QED
    BY <1>2, <1>3, <1>4

-----------------------------------------------------------------------------
(* The budget.                                                             *)

SizeAt(s, I) ==
    [i \in DOMAIN s |-> IF i \in I /\ s[i].kind \in Messages THEN s[i].size ELSE 0]

LEMMA SizesAreNumbers ==
    ASSUME NEW s \in Seq(Entry), NEW I
    PROVE  /\ Len(s) \in Nat /\ Tokens(s, I) = SumTo(SizeAt(s, I), Len(s))
           /\ \A i \in 1..Len(s) : s[i].kind \in Messages => s[i].size \in Nat
           /\ \A i \in 1..Len(s) : SizeAt(s, I)[i] =
                  IF i \in I /\ s[i].kind \in Messages THEN s[i].size ELSE 0
           /\ \A i \in 1..Len(s) : SizeAt(s, I)[i] \in Nat
<1>1. Len(s) \in Nat /\ DOMAIN s = 1..Len(s)
    OBVIOUS
<1>2. ASSUME NEW i \in 1..Len(s), s[i].kind \in Messages PROVE s[i].size \in Nat
    <2>1. s[i] \in Entry
        BY <1>1
    <2> QED
        BY <1>2, <2>1 DEF Entry, Messages, Notes
<1>3. \A i \in 1..Len(s) : SizeAt(s, I)[i] =
         IF i \in I /\ s[i].kind \in Messages THEN s[i].size ELSE 0
    BY <1>1 DEF SizeAt
<1>4. Tokens(s, I) = SumTo(SizeAt(s, I), Len(s))
    BY DEF Tokens, SizeAt
<1>5. \A i \in 1..Len(s) : SizeAt(s, I)[i] \in Nat
    BY <1>2, <1>3
<1> QED
    BY <1>1, <1>2, <1>3, <1>4, <1>5

\* More messages have more tokens.
LEMMA TokensGrow ==
    ASSUME NEW s \in Seq(Entry), NEW I, NEW J,
           \A i \in 1..Len(s) : i \in I /\ s[i].kind \in Messages => i \in J
    PROVE  Tokens(s, I) \in Nat /\ Tokens(s, J) \in Nat /\ Tokens(s, I) <= Tokens(s, J)
<1> DEFINE f == SizeAt(s, I)
           g == SizeAt(s, J)
           n == Len(s)
<1>1. /\ n \in Nat /\ Tokens(s, I) = SumTo(f, n) /\ Tokens(s, J) = SumTo(g, n)
      /\ \A i \in 1..n : f[i] = IF i \in I /\ s[i].kind \in Messages THEN s[i].size ELSE 0
      /\ \A i \in 1..n : g[i] = IF i \in J /\ s[i].kind \in Messages THEN s[i].size ELSE 0
      /\ \A i \in 1..n : f[i] \in Nat /\ g[i] \in Nat
    BY SizesAreNumbers
<1> HIDE DEF f, g
<1>2. ASSUME NEW i \in 1..n PROVE f[i] \in Nat /\ g[i] \in Nat /\ f[i] <= g[i]
    <2>1. f[i] = 0 \/ f[i] = g[i]
        BY <1>1
    <2>2. f[i] \in Nat /\ g[i] \in Nat
        BY <1>1
    <2> QED
        BY <2>1, <2>2
<1> HIDE DEF n
<1>3. SumTo(f, n) \in Nat /\ SumTo(g, n) \in Nat /\ SumTo(f, n) <= SumTo(g, n)
    BY <1>1, <1>2, SumGrows
<1> QED
    BY <1>1, <1>3

LEMMA NoTokens ==
    ASSUME NEW s \in Seq(Entry), NEW I, \A i \in 1..Len(s) : i \in I => s[i].kind \notin Messages
    PROVE  Tokens(s, I) = 0
<1>1. \A i \in 1..Len(s) : SizeAt(s, I)[i] = 0
    BY SizesAreNumbers
<1>2. Len(s) \in Nat /\ Tokens(s, I) = SumTo(SizeAt(s, I), Len(s))
    BY SizesAreNumbers
<1> QED
    BY <1>1, <1>2, SumOfNothing

\* A compaction has none.
LEMMA TokensOfCompacted ==
    ASSUME NEW s \in Seq(Entry), NEW e \in Entry, e.kind = "compaction", NEW I
    PROVE  Tokens(Append(s, e), I) = Tokens(s, I)
<1> DEFINE t == Append(s, e)
           n == Len(s)
           f == SizeAt(t, I)
           g == SizeAt(s, I)
<1>1. t \in Seq(Entry) /\ Len(t) = n + 1 /\ n \in Nat /\ t[n + 1] = e /\ \A i \in 1..n : t[i] = s[i]
    BY Appended
<1> HIDE DEF t
<1>2. /\ Tokens(t, I) = SumTo(f, n + 1) /\ Tokens(s, I) = SumTo(g, n)
      /\ \A i \in 1..(n + 1) : f[i] \in Nat
      /\ \A i \in 1..(n + 1) : f[i] = IF i \in I /\ t[i].kind \in Messages THEN t[i].size ELSE 0
      /\ \A i \in 1..n : g[i] = IF i \in I /\ s[i].kind \in Messages THEN s[i].size ELSE 0
    BY <1>1, SizesAreNumbers
<1> HIDE DEF f, g, n
<1>3. f[n + 1] = 0
    <2>1. n + 1 \in 1..(n + 1) /\ e.kind \notin Messages
        BY <1>1 DEF Messages
    <2> QED
        BY <1>1, <1>2, <2>1
<1>4. \A i \in 1..n : g[i] = f[i]
    <2>1. \A i \in 1..n : i \in 1..(n + 1)
        BY <1>1
    <2> QED
        BY <1>1, <1>2, <2>1
<1>5. SumTo(f, n + 1) = SumTo(g, n)
    BY ONLY <1>1, <1>2, <1>3, <1>4, SumWithoutLast
<1> QED
    BY <1>2, <1>5 DEF t

\* Where what is kept begins, from the cut.
LEMMA KeptIsBeforeTheCut ==
    ASSUME NEW s \in Seq(Entry), NEW from \in Nat \ {0}, CutPoints(s, from) # {}
    PROVE  /\ Cut(s, from) \in from..Len(s)
           /\ FirstKept(s, from) \in from..Cut(s, from)
           /\ \A i \in FirstKept(s, from)..(Cut(s, from) - 1) : s[i].kind \notin Messages
           /\ (\A i \in from..(Cut(s, from) - 1) : s[i].kind \notin Messages) => FirstKept(s, from) = from
<1> DEFINE cut == Cut(s, from)
           F == {f \in from..cut : \A i \in f..(cut - 1) : s[i].kind \notin Messages}
<1>1. cut \in CutPoints(s, from)
    BY CutIsACutPoint
<1>2. cut \in from..Len(s)
    BY <1>1 DEF CutPoints, MessagesAt
<1>3. FirstKept(s, from) = Min(F)
    BY DEF FirstKept
<1> HIDE DEF cut
<1>4. cut \in F /\ F \subseteq Nat
    BY <1>2
<1>5. (\A i \in from..(cut - 1) : s[i].kind \notin Messages) => from \in F
    BY <1>2
<1>6. F \subseteq from..cut /\ \A f \in F : \A i \in f..(cut - 1) : s[i].kind \notin Messages
    OBVIOUS
<1> HIDE DEF F
<1>7. Min(F) \in F /\ \A y \in F : Min(F) <= y
    BY <1>4, MinFacts
<1>8. ASSUME from \in F PROVE Min(F) = from
    <2>1. Min(F) \in from..cut /\ Min(F) <= from
        BY <1>6, <1>7, <1>8
    <2>2. cut \in Int
        BY <1>2
    <2> HIDE DEF F
    <2> QED
        BY <2>1, <2>2
<1> QED
    BY <1>2, <1>3, <1>5, <1>6, <1>7, <1>8 DEF cut

\* A call comes before every result since the last compaction.
LEMMA CallsComeFirst ==
    ASSUME NEW s \in Seq(Entry), ResultsFollow(s), NEW p, LastCompaction(s, Len(s), p),
           NEW i \in (p + 1)..Len(s), s[i].kind = "toolResult"
    PROVE  \E j \in (p + 1)..(i - 1) : s[j].kind = "toolCall"
<1>1. p \in 0..Len(s) /\ Len(s) \in Nat /\ i \in 1..Len(s) /\ (p # 0 => s[p].kind = "compaction")
    BY DEF LastCompaction
<1>2. PICK j \in 1..(i - 1) :
         /\ s[j].kind = "toolCall"
         /\ \A k \in (j + 1)..(i - 1) : s[k].kind \in {"toolResult", "setting"}
    BY <1>1 DEF ResultsFollow
<1>3. ~(j < p)
    <2> SUFFICES ASSUME j < p PROVE FALSE
        OBVIOUS
    <2>1. p # 0 /\ p \in (j + 1)..(i - 1)
        BY <1>1
    <2> QED
        BY <1>1, <1>2, <2>1
<1>4. j # p
    <2> SUFFICES ASSUME j = p PROVE FALSE
        OBVIOUS
    <2>1. p # 0
        BY <1>1
    <2> QED
        BY <1>1, <1>2, <2>1
<1>5. j \in (p + 1)..(i - 1)
    BY <1>1, <1>3, <1>4
<1> QED
    BY <1>2, <1>5

Kept(s, f) == {i \in f..Len(s) : s[i].kind \in Messages}
ResultsBefore(s, from, f) ==
    {i \in from..(f - 1) : \A j \in i..(f - 1) : s[j].kind \in {"toolResult", "setting"}}
MeetsBudget(s, from, f) ==
    /\ Kept(s, f) # {} => Tokens(s, Kept(s, f) \ {Min(Kept(s, f))}) < KeepRecentTokens
    /\ Tokens(s, Kept(s, f) \cup ResultsBefore(s, from, f)) >= KeepRecentTokens

\* What the first cut point at or after the position that reaches the budget keeps.
LEMMA CutMeetsBudget ==
    ASSUME NEW s \in Seq(Entry), KeepRecentTokens > 0, NEW from \in Nat \ {0},
           \A i \in from..Len(s) : s[i].kind # "compaction",
           NEW r \in from..Len(s), s[r].kind \in Messages, Tokens(s, r..Len(s)) >= KeepRecentTokens,
           \A i \in (r + 1)..Len(s) : s[i].kind \in Messages => ~(Tokens(s, i..Len(s)) >= KeepRecentTokens),
           NEW cut \in r..Len(s), \A i \in r..(cut - 1) : i \notin CutPoints(s, from),
           NEW f \in from..cut, \A i \in f..(cut - 1) : s[i].kind \notin Messages
    PROVE  MeetsBudget(s, from, f)
<1> DEFINE n == Len(s)
           K == Kept(s, f)
           R == ResultsBefore(s, from, f)
<1>1. n \in Nat /\ r \in 1..n /\ cut \in 1..n /\ f \in 1..n /\ KeepRecentTokens \in Nat /\ r <= cut
    BY CompactionAssumption
<1>2. ASSUME NEW i \in r..(cut - 1) PROVE s[i].kind \in {"toolResult", "setting"}
    <2>1. i \in from..n /\ i \in 1..n
        BY <1>1
    <2>2. s[i] \in Entry /\ s[i].kind # "compaction"
        BY <2>1
    <2>3. s[i].kind \notin (Messages \cup Notes) \ {"toolResult"}
        BY <1>2, <2>1 DEF CutPoints, MessagesAt
    <2>4. s[i].kind \in Messages \cup Notes \cup {"setting", "compaction"}
        BY <2>2 DEF Entry
    <2> QED
        BY <2>2, <2>3, <2>4
<1>3. ASSUME NEW i \in r..n, s[i].kind \in Messages PROVE i \in K \cup R
    <2>1. CASE i >= f
        BY <1>1, <1>3, <2>1 DEF Kept
    <2>2. CASE i < f
        <3>1. i \in from..(f - 1)
            BY <1>1, <2>2
        <3>2. ASSUME NEW j \in i..(f - 1) PROVE j \in r..(cut - 1)
            BY <1>1, <3>1
        <3>3. \A j \in i..(f - 1) : s[j].kind \in {"toolResult", "setting"}
            BY <1>2, <3>2
        <3> QED
            BY <3>1, <3>3 DEF ResultsBefore
    <2> QED
        BY <1>1, <2>1, <2>2
<1> HIDE DEF R
<1>4. Tokens(s, K \cup R) >= KeepRecentTokens
    <2> HIDE DEF K
    <2>1. \A i \in 1..n : i \in r..n /\ s[i].kind \in Messages => i \in K \cup R
        BY <1>3
    <2>2. Tokens(s, r..n) \in Nat /\ Tokens(s, K \cup R) \in Nat /\ Tokens(s, r..n) <= Tokens(s, K \cup R)
        BY <2>1, TokensGrow
    <2> QED
        BY <1>1, <2>2
<1>5. ASSUME K # {} PROVE Tokens(s, K \ {Min(K)}) < KeepRecentTokens
    <2> DEFINE k == Min(K)
               L == K \ {k}
    <2>1. K \subseteq 1..n /\ \A i \in K : s[i].kind \in Messages /\ i >= f
        BY <1>1 DEF Kept
    <2>2. K \subseteq Nat
        BY <2>1
    <2> HIDE DEF K
    <2>3. k \in K /\ \A y \in K : k <= y
        BY <1>5, <2>2, MinFacts
    <2> HIDE DEF k
    <2>4. ~(k < cut)
        <3> SUFFICES ASSUME k < cut PROVE FALSE
            OBVIOUS
        <3>1. k \in f..(cut - 1) /\ s[k].kind \in Messages
            BY <1>1, <2>1, <2>3
        <3> QED
            BY <3>1
    <2>5. CASE L = {}
        <3>1. Tokens(s, L) = 0
            BY <2>5, NoTokens
        <3> QED
            BY <1>1, <3>1 DEF k
    <2>6. CASE L # {}
        <3>1. L \subseteq Nat
            BY <2>2
        <3>2. PICK j \in L : \A y \in L : j <= y
            BY <2>6, <3>1, LeastNatural
        <3>3. j \in K /\ j # k /\ k <= j /\ j \in 1..n /\ k \in 1..n /\ s[j].kind \in Messages
            BY <2>1, <2>3, <3>2
        <3>4. j \in (r + 1)..n
            BY <1>1, <2>4, <3>3
        <3>5. ~(Tokens(s, j..n) >= KeepRecentTokens)
            BY <3>3, <3>4
        <3>6. \A i \in 1..n : i \in L /\ s[i].kind \in Messages => i \in j..n
            BY <1>1, <3>2, <3>3
        <3> HIDE DEF L
        <3>7. Tokens(s, L) \in Nat /\ Tokens(s, j..n) \in Nat /\ Tokens(s, L) <= Tokens(s, j..n)
            BY <3>6, TokensGrow
        <3>8. Tokens(s, L) < KeepRecentTokens
            BY <1>1, <3>5, <3>7
        <3> QED
            BY <3>8 DEF L, k
    <2> QED
        BY <2>5, <2>6
<1> QED
    BY <1>4, <1>5 DEF MeetsBudget, R

\* A compaction of s keeps enough, or everything since the one before it.
LEMMA FirstKeptMeetsBudget ==
    ASSUME NEW s \in Seq(Entry), KeepRecentTokens > 0, ResultsFollow(s),
           NEW p, LastCompaction(s, Len(s), p)
    PROVE  \/ MessagesAt(s, (p + 1)..(FirstKept(s, p + 1) - 1)) = {}
           \/ MeetsBudget(s, p + 1, FirstKept(s, p + 1))
<1> DEFINE from == p + 1
           n == Len(s)
           reached == {i \in from..n : /\ s[i].kind \in Messages
                                       /\ Tokens(s, i..n) >= KeepRecentTokens}
           later == {c \in CutPoints(s, from) : reached # {} /\ c >= Max(reached)}
           cut == Cut(s, from)
           f == FirstKept(s, from)
<1>1. n \in Nat /\ p \in 0..n /\ \A i \in from..n : s[i].kind # "compaction"
    BY DEF LastCompaction
<1>2. from \in Nat \ {0} /\ from \in 1..(n + 1)
    BY <1>1
<1>3. CASE CutPoints(s, from) = {}
    <2>1. f = from
        BY <1>3 DEF FirstKept
    <2> HIDE DEF f, from
    <2>2. from..(f - 1) = {}
        BY <1>2, <2>1
    <2>3. MessagesAt(s, from..(f - 1)) = {}
        BY <2>2 DEF MessagesAt
    <2> QED
        BY <2>3 DEF f, from
<1>4. CASE CutPoints(s, from) # {}
    <2> HIDE DEF from
    <2>1. /\ cut \in from..n /\ f \in from..cut
          /\ \A i \in f..(cut - 1) : s[i].kind \notin Messages
          /\ (\A i \in from..(cut - 1) : s[i].kind \notin Messages) => f = from
        BY <1>2, <1>4, KeptIsBeforeTheCut
    <2>2. cut = IF later = {} THEN Min(CutPoints(s, from)) ELSE Min(later)
        BY DEF Cut
    <2>3. CutPoints(s, from) \subseteq Nat /\ later \subseteq Nat
        <3>1. CutPoints(s, from) \subseteq from..n
            BY DEF CutPoints, MessagesAt
        <3> HIDE DEF reached, n
        <3> QED
            BY <1>2, <3>1
    <2> HIDE DEF cut, f
    <2>4. CASE later = {}
        <3>1. cut = Min(CutPoints(s, from))
            BY <2>2, <2>4
        <3>2. \A c \in CutPoints(s, from) : cut <= c
            BY <1>4, <2>3, <3>1, MinFacts
        <3>3. ASSUME NEW i \in from..(cut - 1) PROVE i \in from..n /\ i \notin CutPoints(s, from)
            BY <1>1, <1>2, <2>1, <3>2
        <3>4. ASSUME NEW i \in from..(cut - 1) PROVE s[i].kind \notin Messages
            <4> SUFFICES ASSUME s[i].kind \in Messages PROVE FALSE
                OBVIOUS
            <4>1. s[i].kind = "toolResult"
                BY <3>3 DEF CutPoints, MessagesAt
            <4>2. PICK j \in from..(i - 1) : s[j].kind = "toolCall"
                BY <3>3, <4>1, CallsComeFirst DEF from
            <4>3. j \in from..(cut - 1) /\ j \in from..n
                BY <1>1, <1>2, <2>1, <3>3
            <4>4. j \in CutPoints(s, from)
                BY <4>2, <4>3 DEF CutPoints, MessagesAt, Messages
            <4> QED
                BY <3>3, <4>3, <4>4
        <3>5. f = from
            BY <2>1, <3>4
        <3>6. from..(f - 1) = {}
            BY <1>2, <3>5
        <3>7. MessagesAt(s, from..(f - 1)) = {}
            BY <3>6 DEF MessagesAt
        <3> QED
            BY <3>7 DEF f, from
    <2>5. CASE later # {}
        <3> DEFINE r == Max(reached)
        <3>0. reached # {}
            <4> HIDE DEF reached
            <4> QED
                BY <2>5
        <3>1. reached # {} /\ reached \subseteq from..n /\ reached \subseteq 1..n
            <4>1. reached \subseteq from..n /\ from..n \subseteq 1..n
                BY <1>2
            <4> QED
                BY <3>0, <4>1
        <3>2. \A i \in from..n : i \in reached <=> s[i].kind \in Messages /\ Tokens(s, i..n) >= KeepRecentTokens
            OBVIOUS
        <3>3. later = {c \in CutPoints(s, from) : c >= r}
            BY <3>1
        <3> HIDE DEF reached, later
        <3>4. r \in reached /\ \A y \in reached : y <= r
            BY <1>1, <3>1, MaxFacts
        <3> HIDE DEF r
        <3>5. cut \in later /\ \A c \in later : cut <= c
            BY <2>2, <2>3, <2>5, MinFacts
        <3>6. r \in from..n /\ s[r].kind \in Messages /\ Tokens(s, r..n) >= KeepRecentTokens
            BY <3>1, <3>2, <3>4
        <3>7. cut \in r..n
            BY <1>1, <1>2, <2>1, <3>3, <3>5, <3>6
        <3>8. ASSUME NEW i \in (r + 1)..n, s[i].kind \in Messages
              PROVE  ~(Tokens(s, i..n) >= KeepRecentTokens)
            <4>1. i \in from..n /\ ~(i <= r)
                BY <1>1, <1>2, <3>6
            <4> QED
                BY <3>2, <3>4, <3>8, <4>1
        <3>9. ASSUME NEW i \in r..(cut - 1) PROVE i \notin CutPoints(s, from)
            <4>1. i >= r /\ ~(cut <= i)
                BY <1>1, <3>6, <3>7
            <4> QED
                BY <3>3, <3>5, <4>1
        <3>10. MeetsBudget(s, from, f)
            BY <1>1, <1>2, <2>1, <3>6, <3>7, <3>8, <3>9, CutMeetsBudget DEF from
        <3> QED
            BY <3>10 DEF f, from
    <2> QED
        BY <2>4, <2>5
<1> QED
    BY <1>3, <1>4

\* A compaction at the end of the branch kept what it should of what is before it.
LatestCut ==
    Compacted => \E s \in Seq(Entry), e \in Entry :
        /\ ResultsFollow(s)
        /\ e.kind = "compaction" /\ e.kept = FirstKept(s, Boundary(s))
        /\ branch = Append(s, e)

LEMMA LatestCutHolds == BranchSpec => []LatestCut
<1>1. BranchInit => LatestCut
    BY DEF BranchInit, LatestCut, Compacted
<1>2. CompactionInv /\ CompactionInv' /\ [BranchNext]_branchVars /\ LatestCut => LatestCut'
    <2> SUFFICES ASSUME CompactionInv, CompactionInv', [BranchNext]_branchVars, LatestCut, Compacted'
                 PROVE  \E s \in Seq(Entry), e \in Entry :
                            /\ ResultsFollow(s)
                            /\ e.kind = "compaction" /\ e.kept = FirstKept(s, Boundary(s))
                            /\ branch' = Append(s, e)
        BY DEF LatestCut, ResultsFollow, FirstKept, Boundary
    <2>1. branch \in Seq(Entry) /\ branch' \in Seq(Entry) /\ ResultsFollow(branch)
        BY DEF CompactionInv
    <2>2. \A e : branch' = Append(branch, e) => e \in Entry /\ e.kind = "compaction"
        <3> SUFFICES ASSUME NEW e, branch' = Append(branch, e) PROVE e \in Entry /\ e.kind = "compaction"
            OBVIOUS
        <3>1. Len(branch') = Len(branch) + 1 /\ branch'[Len(branch) + 1] = e /\ Len(branch) \in Nat
            BY <2>1
        <3>2. e.kind = "compaction"
            BY <3>1 DEF Compacted, Last, IsCompaction
        <3> QED
            BY <2>1, <3>1, <3>2
    <2>3. CASE Compact
        <3> DEFINE e == [kind |-> "compaction", covers |-> Covers(branch),
                         kept |-> FirstKept(branch, Boundary(branch))]
        <3>1. branch' = Append(branch, e) /\ e.kept = FirstKept(branch, Boundary(branch))
            BY <2>3 DEF Compact
        <3> HIDE DEF e
        <3> QED
            BY <2>1, <2>2, <3>1
    <2>4. ASSUME NEW kind \in Messages, NEW size \in Sizes[kind], AppendMessage(kind, size) PROVE FALSE
        <3>1. branch' = Append(branch, [kind |-> kind, size |-> size]) /\ kind # "compaction"
            BY <2>4 DEF AppendMessage, Messages
        <3> QED
            BY <2>2, <3>1
    <2>5. ASSUME NEW kind \in Notes \cup {"setting"}, AppendOther(kind) PROVE FALSE
        <3>1. branch' = Append(branch, [kind |-> kind]) /\ kind # "compaction"
            BY <2>5 DEF AppendOther, Notes
        <3> QED
            BY <2>2, <3>1
    <2>6. CASE UNCHANGED branch
        <3>1. Compacted
            BY <2>6 DEF Compacted
        <3> QED
            BY <2>6, <3>1 DEF LatestCut
    <2> QED
        BY <2>3, <2>4, <2>5, <2>6 DEF BranchNext, branchVars
<1> QED
    BY <1>1, <1>2, CompactionInvHolds, PTL DEF BranchSpec

LEMMA LatestMeetsBudget ==
    ASSUME LatestCut, KeepRecentTokens > 0 PROVE KeptMeetsBudget
<1> SUFFICES ASSUME Compacted PROVE KeptMeetsBudget
    BY DEF KeptMeetsBudget
<1>0. PICK s \in Seq(Entry), e \in Entry :
         /\ ResultsFollow(s)
         /\ e.kind = "compaction" /\ e.kept = FirstKept(s, Boundary(s))
         /\ branch = Append(s, e)
    BY DEF LatestCut
<1> DEFINE c == Len(branch)
           n == Len(s)
           f == branch[c].kept
           p == CompactionBefore(c)
           kept == {i \in f..(c - 1) : branch[i].kind \in Messages}
           before == (p + 1)..(f - 1)
           results == {i \in before : \A j \in i..(f - 1) : branch[j].kind \in {"toolResult", "setting"}}
<1>1. n \in Nat /\ c = n + 1 /\ branch[c] = e /\ \A i \in 1..n : branch[i] = s[i]
    BY <1>0
<1>2. LastCompaction(s, n, Boundary(s) - 1) /\ Boundary(s) \in Nat
    BY <1>1, BoundaryIsLast, BoundaryIsAnInteger
<1>3. p = Boundary(s) - 1
    <2>1. p = IF CompactionsBefore(branch, c - 1) # {} THEN Max(CompactionsBefore(branch, c - 1)) ELSE 0
        BY DEF CompactionBefore, SelectLastInSubSeq, IsCompaction, CompactionsBefore
    <2>2. c - 1 = n
        BY <1>1
    <2> HIDE DEF p, c, n
    <2>3. LastCompaction(branch, n, p)
        BY <1>1, <2>1, <2>2, MaxIsLast
    <2>4. LastCompaction(s, n, p)
        BY <1>1, <2>3, LastCompactionStays
    <2> QED
        BY <1>1, <1>2, <2>4, LastCompactionIsUnique
<1>4. p + 1 = Boundary(s) /\ f = FirstKept(s, p + 1) /\ p \in 0..n
    BY <1>0, <1>1, <1>2, <1>3 DEF LastCompaction
<1>5. f \in (p + 1)..(n + 1)
    <2>1. p + 1 \in Nat \ {0} /\ p + 1 <= n + 1
        BY <1>1, <1>4
    <2> HIDE DEF p, f, n
    <2> QED
        BY <1>4, <2>1, KeptReachesTheCut DEF n
<1>6. \/ MessagesAt(s, before) = {}
      \/ MeetsBudget(s, p + 1, f)
    BY <1>0, <1>2, <1>3, <1>4, FirstKeptMeetsBudget
<1> HIDE DEF p, f, n, c
<1>7. \A i \in before : i \in 1..n
    BY <1>1, <1>4, <1>5
<1>8. MessagesAt(branch, before) = MessagesAt(s, before)
    <2> HIDE DEF before
    <2> QED
        BY <1>1, <1>7 DEF MessagesAt
<1>9. kept = Kept(s, f)
    <2>1. c - 1 = n /\ \A i \in f..n : i \in 1..n
        BY <1>1, <1>4, <1>5
    <2> QED
        BY <1>1, <2>1 DEF Kept, n
<1>10. results = ResultsBefore(s, p + 1, f)
    <2>1. ASSUME NEW i \in before, NEW j \in i..(f - 1) PROVE branch[j] = s[j]
        <3>1. j \in 1..n
            BY <1>1, <1>4, <1>5
        <3> QED
            BY <1>1, <3>1
    <2> QED
        BY <2>1 DEF ResultsBefore
<1>11. \A I : Tokens(branch, I) = Tokens(s, I)
    BY <1>0, TokensOfCompacted
<1> HIDE DEF kept, results, before
<1>12. \/ MessagesAt(branch, before) = {}
       \/ /\ kept # {} => Tokens(branch, kept \ {Min(kept)}) < KeepRecentTokens
          /\ Tokens(branch, kept \cup results) >= KeepRecentTokens
    BY <1>6, <1>8, <1>9, <1>10, <1>11 DEF MeetsBudget
<1> QED
    BY <1>12 DEF KeptMeetsBudget, kept, results, before, p, f, c

(* With a budget above 0 a compaction keeps no more messages than the      *)
(* budget needs and, with the tool results the cut had to pass over, as    *)
(* many as it needs, or everything since the one before it.                *)
THEOREM CompactionMeetsItsBudget ==
    ASSUME KeepRecentTokens > 0 PROVE BranchSpec => []KeptMeetsBudget
<1>1. LatestCut => KeptMeetsBudget
    BY LatestMeetsBudget
<1> QED
    BY <1>1, LatestCutHolds, PTL

-----------------------------------------------------------------------------
(* AgentSession.                                                           *)

(* Messages and entries.                                                   *)

LEMMA UserType ==
    ASSUME epoch \in 1..MaxSessions, NEW t \in Nat
    PROVE  UserMsg(t) \in Users
BY DEF UserMsg, Users, Message

LEMMA AnswerType ==
    ASSUME epoch \in 1..MaxSessions, NEW t \in Nat, NEW stop \in Stops
    PROVE  Answer(t, stop) \in Answers
BY DEF Answer, Answers, Message

LEMMA CompactionType ==
    ASSUME epoch \in 1..MaxSessions, NEW t \in Nat, NEW k \in Nat \ {0},
           NEW r \in {"overflow", "threshold", "manual"}
    PROVE  CompactionEntry(t, r, k) \in Compactions
BY DEF CompactionEntry, Compactions

LEMMA SummaryType ==
    ASSUME NEW e \in Compactions
    PROVE  Summary(e) \in Summaries
BY DEF Summary, Compactions, Summaries, Message

LEMMA Roles ==
    /\ \A e \in Users : e.role = "user" /\ e.stop = "user" /\ e.epoch \in 1..MaxSessions
    /\ \A e \in Answers : e.role = "assistant" /\ e.stop \in Stops /\ e.epoch \in 1..MaxSessions
    /\ \A e \in Summaries : e.role = "summary"
    /\ \A e \in Compactions : e.role = "compaction" /\ e.kept \in Nat \ {0}
BY DEF Users, Answers, Summaries, Compactions, Message

LEMMA NoMsgIsNoAnswer == NoMsg \notin Answers /\ NoMsg.role = "none" /\ NoMsg.stop = "none"
BY Roles DEF NoMsg

-----------------------------------------------------------------------------
(* Sequences.                                                              *)

LEMMA LatestFacts ==
    ASSUME NEW n \in Nat, NEW S, S \subseteq 1..n
    PROVE  /\ Latest(S) \in 0..n
           /\ Latest(S) = 0 => S = {}
           /\ Latest(S) # 0 => Latest(S) \in S
           /\ \A i \in S : i <= Latest(S)
<1>1. CASE S = {}
    BY <1>1 DEF Latest
<1>2. CASE S # {}
    <2>1. n \in Nat /\ S \subseteq 1..n
        OBVIOUS
    <2>2. Max(S) \in S /\ \A y \in S : y <= Max(S)
        BY ONLY <1>2, <2>1, MaxFacts
    <2>3. Latest(S) = Max(S)
        BY <1>2 DEF Latest
    <2>4. PICK x \in S : x = Max(S)
        BY <2>2
    <2>5. x \in 1..n /\ x \in 0..n /\ x # 0
        BY ONLY <2>1, <2>4
    <2>6. Latest(S) = x /\ \A i \in S : i <= x
        BY ONLY <2>2, <2>3, <2>4
    <2> QED
        BY ONLY <1>2, <2>4, <2>5, <2>6
<1> QED
    BY <1>1, <1>2

LEMMA LatestIs ==
    ASSUME NEW n \in Nat, NEW S, S \subseteq 1..n, NEW m, m \in S, \A i \in S : i <= m
    PROVE  Latest(S) = m
<1>1. n \in Nat /\ S \subseteq 1..n /\ m \in S
    OBVIOUS
<1>2. Latest(S) \in S /\ \A i \in S : i <= Latest(S)
    BY ONLY <1>1, LatestFacts
<1>3. PICK x \in S : x = Latest(S)
    BY <1>2
<1>4. x \in Nat /\ m \in Nat /\ x <= m /\ m <= x
    BY <1>1, <1>2, <1>3
<1> QED
    BY ONLY <1>3, <1>4

LEMMA LatestCompactionFacts ==
    ASSUME NEW X, NEW s \in Seq(X)
    PROVE  /\ LatestCompaction(s) \in 0..Len(s)
           /\ LatestCompaction(s) # 0 => IsCompactionEntry(s[LatestCompaction(s)])
           /\ \A i \in 1..Len(s) : i > LatestCompaction(s) => ~IsCompactionEntry(s[i])
<1> DEFINE S == {i \in DOMAIN s : IsCompactionEntry(s[i])}
<1>1. S \subseteq 1..Len(s) /\ Len(s) \in Nat
    OBVIOUS
<1>2. /\ Latest(S) \in 0..Len(s) /\ (Latest(S) # 0 => Latest(S) \in S)
      /\ \A i \in S : i <= Latest(S)
    BY ONLY <1>1, LatestFacts
<1>3. LatestCompaction(s) = Latest(S)
    BY DEF LatestCompaction
<1>4. PICK c \in 0..Len(s) : c = Latest(S)
    BY ONLY <1>2
<1>5. c # 0 => IsCompactionEntry(s[c])
    BY <1>2, <1>4
<1>6. ASSUME NEW i \in 1..Len(s), i > c PROVE ~IsCompactionEntry(s[i])
    <2>1. i \in S => i <= c
        BY ONLY <1>2, <1>4
    <2>2. i \notin S
        BY <1>6, <2>1
    <2> QED
        BY <2>2
<1> QED
    BY ONLY <1>3, <1>4, <1>5, <1>6

LEMMA AppendFacts ==
    ASSUME NEW X, NEW s \in Seq(X), NEW e \in X
    PROVE  /\ Append(s, e) \in Seq(X) /\ Len(Append(s, e)) = Len(s) + 1
           /\ \A i \in 1..Len(s) : Append(s, e)[i] = s[i]
           /\ Append(s, e)[Len(s) + 1] = e
           /\ DOMAIN Append(s, e) = 1..(Len(s) + 1) /\ DOMAIN s = 1..Len(s)
OBVIOUS

LEMMA LatestCompactionAppend ==
    ASSUME NEW X, NEW s \in Seq(X), NEW e \in X
    PROVE  LatestCompaction(Append(s, e)) =
               IF IsCompactionEntry(e) THEN Len(s) + 1 ELSE LatestCompaction(s)
<1> DEFINE t == Append(s, e)
           S == {i \in DOMAIN s : IsCompactionEntry(s[i])}
           T == {i \in DOMAIN t : IsCompactionEntry(t[i])}
<1>1. /\ Len(t) = Len(s) + 1 /\ DOMAIN t = 1..(Len(s) + 1) /\ DOMAIN s = 1..Len(s)
      /\ \A i \in 1..Len(s) : t[i] = s[i]
      /\ t[Len(s) + 1] = e /\ Len(s) \in Nat
    BY AppendFacts
<1> HIDE DEF t
<1>2. CASE IsCompactionEntry(e)
    <2>1. T \subseteq 1..(Len(s) + 1) /\ Len(s) + 1 \in T /\ \A i \in T : i <= Len(s) + 1
        BY <1>1, <1>2
    <2>2. Latest(T) = Len(s) + 1
        <3> DEFINE m == Len(s) + 1
        <3>1. m \in Nat /\ T \subseteq 1..m /\ m \in T /\ \A i \in T : i <= m
            BY <1>1, <2>1
        <3> HIDE DEF m, T
        <3>2. Latest(T) = m
            BY ONLY <3>1, LatestIs
        <3> QED
            BY <3>2 DEF m
    <2> QED
        BY <1>2, <2>2 DEF LatestCompaction, t
<1>3. CASE ~IsCompactionEntry(e)
    <2>1. T = S
        BY <1>1, <1>3
    <2> QED
        BY <1>3, <2>1 DEF LatestCompaction, t
<1> QED
    BY <1>2, <1>3

-----------------------------------------------------------------------------
(* The conversation told by a sequence of messages.                        *)

LEMMA ConversationType ==
    ASSUME NEW X, NEW s \in Seq(X)
    PROVE  Conversation(s) \in Seq(X)
<1> DEFINE S == {i \in DOMAIN s : Said(s[i])}
<1>1. Len(s) \in Nat /\ Below(S, Len(s)) /\ Holds(s, S, X)
    BY DEF Below, Holds
<1> HIDE DEF S
<1>2. Picked(S, s) \in Seq(X)
    BY ONLY <1>1, PickedType
<1> QED
    BY <1>2 DEF Conversation, S

LEMMA ConversationCat ==
    ASSUME NEW X, NEW s \in Seq(X), NEW t \in Seq(X)
    PROVE  Conversation(Cat(s, t)) = Cat(Conversation(s), Conversation(t))
<1> DEFINE x == Cat(s, t)
           n == Len(s)
           m == Len(t)
           S == {i \in DOMAIN s : Said(s[i])}
           T == {i \in DOMAIN t : Said(t[i])}
           U == {i \in DOMAIN x : Said(x[i])}
<1>1. /\ n \in Nat /\ m \in Nat /\ DOMAIN x = 1..(n + m)
      /\ \A i \in 1..n : x[i] = s[i]
      /\ \A i \in 1..m : x[n + i] = t[i]
    <2>1. s \in Seq(X) /\ t \in Seq(X)
        OBVIOUS
    <2>2. /\ DOMAIN Cat(s, t) = 1..(Len(s) + Len(t))
          /\ \A i \in 1..Len(s) : Cat(s, t)[i] = s[i]
          /\ \A i \in 1..Len(t) : Cat(s, t)[Len(s) + i] = t[i]
        BY <2>1 DEF Cat
    <2>3. Len(s) \in Nat /\ Len(t) \in Nat
        OBVIOUS
    <2> QED
        BY ONLY <2>2, <2>3
<1>2. DOMAIN s = 1..n /\ DOMAIN t = 1..m
    OBVIOUS
<1>3. (\A i \in 1..n : s[i] \in X) /\ (\A i \in 1..m : t[i] \in X)
    OBVIOUS
<1> HIDE DEF x, n, m
<1>4. Follows(x, s, S, n, t, T, m, X)
    <2>1. Below(S, n) /\ Below(T, m)
        BY <1>2 DEF Below
    <2>2. Holds(s, S, X) /\ Holds(t, T, X)
        BY <1>2, <1>3 DEF Holds
    <2>3. Copies(x, 0, s, S)
        BY <1>1, <1>2 DEF Copies
    <2>4. Copies(x, n, t, T)
        BY <1>1, <1>2 DEF Copies
    <2> QED
        BY <1>1, <2>1, <2>2, <2>3, <2>4 DEF Follows
<1>5. U = Merged(S, n, T)
    <2>1. \A i \in S : i \in U
        BY <1>1, <1>2
    <2>2. \A j \in T : n + j \in U
        BY <1>1, <1>2
    <2>3. ASSUME NEW i \in U PROVE i \in S \/ \E j \in T : i = n + j
        <3>1. CASE i <= n
            BY <1>1, <1>2, <3>1
        <3>2. CASE i > n
            <4>1. i - n \in 1..m /\ i = n + (i - n)
                BY <1>1, <3>2
            <4>2. t[i - n] = x[i]
                BY <1>1, <4>1
            <4>3. i - n \in T
                BY <1>2, <4>1, <4>2
            <4> QED
                BY <4>1, <4>3
        <3> QED
            BY <1>1, <3>1, <3>2
    <2> HIDE DEF U, S, T
    <2> QED
        BY <2>1, <2>2, <2>3 DEF Merged
<1> HIDE DEF U, S, T
<1>6. Picked(Merged(S, n, T), x) = Cat(Picked(S, s), Picked(T, t))
    BY ONLY <1>4, PickedConcat
<1> QED
    BY <1>5, <1>6 DEF Conversation, U, S, T, x

\* Nothing is said.
LEMMA Unsaid ==
    ASSUME NEW X, NEW s \in Seq(X), \A i \in 1..Len(s) : ~Said(s[i])
    PROVE  Conversation(s) = <<>>
<1>1. {i \in DOMAIN s : Said(s[i])} = {}
    OBVIOUS
<1> QED
    BY <1>1, PickedNone DEF Conversation

\* One message more.
LEMMA ConversationOne ==
    ASSUME NEW X, NEW s \in Seq(X), NEW m \in X
    PROVE  /\ Append(s, m) = Cat(s, <<m>>)
           /\ Conversation(Append(s, m)) = Cat(Conversation(s), Conversation(<<m>>))
           /\ ~Said(m) => Conversation(Append(s, m)) = Conversation(s)
<1>1. <<m>> \in Seq(X) /\ Append(s, m) = Cat(s, <<m>>)
    BY DEF Cat
<1>2. Conversation(Append(s, m)) = Cat(Conversation(s), Conversation(<<m>>))
    BY <1>1, ConversationCat
<1>3. ASSUME ~Said(m) PROVE Conversation(Append(s, m)) = Conversation(s)
    <2>1. \A i \in 1..Len(<<m>>) : ~Said(<<m>>[i])
        BY <1>3
    <2>2. Conversation(<<m>>) = <<>>
        BY <1>1, <2>1, Unsaid
    <2>3. Conversation(s) \in Seq(X)
        BY ConversationType
    <2> QED
        BY <1>2, <2>2, <2>3, CatNone
<1> QED
    BY <1>1, <1>2, <1>3

\* The last message is dropped.
LEMMA FrontFacts ==
    ASSUME NEW X, NEW s \in Seq(X), s # <<>>
    PROVE  /\ Front(s) \in Seq(X) /\ Last(s) \in X
           /\ s = Append(Front(s), Last(s)) /\ Len(Front(s)) = Len(s) - 1
<1>1. Front(s) \in Seq(X) /\ Last(s) \in X /\ Len(Front(s)) = Len(s) - 1
    BY DEF Front, Last
<1>2. \A i \in 1..(Len(s) - 1) : Front(s)[i] = s[i]
    BY DEF Front
<1>3. Last(s) = s[Len(s)]
    BY DEF Last
<1>4. Append(Front(s), Last(s)) \in Seq(X) /\ Len(Append(Front(s), Last(s))) = Len(s)
    BY <1>1
<1>5. ASSUME NEW i \in 1..Len(s) PROVE s[i] = Append(Front(s), Last(s))[i]
    BY <1>1, <1>2, <1>3
<1> QED
    BY <1>1, <1>4, <1>5, SeqEqual

LEMMA ConversationDrop ==
    ASSUME NEW X, NEW s \in Seq(X), s # <<>>, ~Said(Last(s))
    PROVE  Conversation(Front(s)) = Conversation(s)
<1> DEFINE f == Front(s)
           l == Last(s)
<1>1. f \in Seq(X) /\ l \in X /\ s = Append(f, l)
    BY FrontFacts
<1> HIDE DEF f, l
<1>2. ~Said(l) => Conversation(Append(f, l)) = Conversation(f)
    BY <1>1, ConversationOne
<1> QED
    BY <1>1, <1>2 DEF f, l

LEMMA ConversationDropAssistant ==
    ASSUME NEW X, NEW s \in Seq(X), EndsWithAssistant(s) => ~Said(Last(s))
    PROVE  /\ DropAssistant(s) \in Seq(X)
           /\ Conversation(DropAssistant(s)) = Conversation(s)
BY ConversationDrop, FrontFacts DEF DropAssistant, EndsWithAssistant

-----------------------------------------------------------------------------
(* What buildSessionContext makes of a branch.                             *)

LEMMA EntryKinds ==
    /\ \A e \in SessionEntries : IsCompactionEntry(e) => e \in Compactions
    /\ \A e \in SessionEntries : ~IsCompactionEntry(e) => e \in Users \cup Answers
    /\ \A e \in Users \cup Answers : ~IsCompactionEntry(e) /\ e \in SessionEntries
                                     /\ e \in ContextMessages
    /\ \A e \in Compactions : IsCompactionEntry(e) /\ e \in SessionEntries
BY Roles DEF SessionEntries, ContextMessages, IsCompactionEntry

\* A part of a sequence.
LEMMA PartFacts ==
    ASSUME NEW X, NEW s \in Seq(X), NEW a \in Nat \ {0}, NEW b \in Nat, b <= Len(s)
    PROVE  /\ SubSeq(s, a, b) \in Seq(X)
           /\ Len(SubSeq(s, a, b)) = IF a <= b THEN b - a + 1 ELSE 0
           /\ \A i \in 1..Len(SubSeq(s, a, b)) : SubSeq(s, a, b)[i] = s[a + i - 1]
<1>1. CASE a <= b
    BY <1>1
<1>2. CASE ~(a <= b)
    BY <1>2
<1> QED
    BY <1>1, <1>2

LEMMA PartOfMore ==
    ASSUME NEW X, NEW s \in Seq(X), NEW m \in X, NEW c \in Nat, c <= Len(s)
    PROVE  SubSeq(Append(s, m), c + 1, Len(Append(s, m))) = SubSeq(s, c + 1, Len(s)) \o <<m>>
<1> DEFINE t == Append(s, m)
           n == Len(s)
           a == SubSeq(t, c + 1, n + 1)
           b == SubSeq(s, c + 1, n)
           d == b \o <<m>>
<1>1. /\ n \in Nat /\ c <= n /\ t \in Seq(X) /\ Len(t) = n + 1
      /\ \A i \in 1..n : t[i] = s[i]
      /\ t[n + 1] = m
    OBVIOUS
<1>2. a \in Seq(X) /\ Len(a) = n - c + 1 /\ \A i \in 1..(n - c + 1) : a[i] = t[c + i]
    <2> HIDE DEF t, n
    <2> QED
        BY <1>1
<1>3. b \in Seq(X) /\ Len(b) = n - c /\ \A i \in 1..(n - c) : b[i] = s[c + i]
    <2>1. CASE c = n
        BY <1>1, <2>1
    <2>2. CASE c < n
        BY <1>1, <2>2
    <2> QED
        BY <1>1, <2>1, <2>2
<1> HIDE DEF b, n
<1>4. /\ d \in Seq(X) /\ Len(d) = n - c + 1 /\ d[n - c + 1] = m
      /\ \A i \in 1..(n - c) : d[i] = b[i]
    <2>1. PICK l \in Nat : l = n - c
        BY <1>1
    <2>2. b \in Seq(X) /\ Len(b) = l /\ <<m>> \in Seq(X)
        BY <1>3, <2>1
    <2>3. /\ d \in Seq(X) /\ Len(d) = l + 1 /\ d[l + 1] = m
          /\ \A i \in 1..l : d[i] = b[i]
        BY <2>2
    <2> QED
        BY <2>1, <2>3
<1> HIDE DEF a, d, t
<1>5. ASSUME NEW i \in 1..(n - c + 1) PROVE a[i] = d[i]
    <2>1. CASE i = n - c + 1
        <3>1. c + i = n + 1
            BY <1>1, <2>1
        <3> QED
            BY <1>1, <1>2, <1>4, <2>1, <3>1
    <2>2. CASE i # n - c + 1
        <3>1. i \in 1..(n - c) /\ c + i \in 1..n
            BY <1>1, <2>2
        <3> QED
            BY <1>1, <1>2, <1>3, <1>4, <3>1
    <2> QED
        BY <2>1, <2>2
<1>6. a = d
    <2>1. Len(a) = Len(d) /\ \A i \in 1..Len(a) : a[i] = d[i]
        BY <1>2, <1>4, <1>5
    <2> QED
        BY ONLY <1>2, <1>4, <2>1, SeqEqual
<1> QED
    BY <1>1, <1>6 DEF a, b, d, t, n

LEMMA MessagesType ==
    ASSUME NEW s \in Seq(SessionEntries)
    PROVE  MessagesOf(s) \in Seq(ContextMessages)
<1> DEFINE S == {i \in DOMAIN s : ~IsCompactionEntry(s[i])}
<1>1. Len(s) \in Nat /\ Below(S, Len(s))
    BY DEF Below
<1>2. Holds(s, S, ContextMessages)
    <2>1. \A i \in S : s[i] \in SessionEntries /\ ~IsCompactionEntry(s[i])
        OBVIOUS
    <2> QED
        BY <2>1, EntryKinds DEF Holds
<1> HIDE DEF S
<1>3. Picked(S, s) \in Seq(ContextMessages)
    BY ONLY <1>1, <1>2, PickedType
<1> QED
    BY <1>3 DEF MessagesOf, S

\* What follows the summary, and the summary with what was kept.
Since(s) == SubSeq(s, LatestCompaction(s) + 1, Len(s))
Before(s) ==
    LET c == LatestCompaction(s)
    IN  IF c = 0 THEN <<>>
        ELSE Cat(<<Summary(s[c])>>, MessagesOf(SubSeq(s, s[c].kept, c - 1)))

LEMMA ContextParts ==
    ASSUME NEW s \in Seq(SessionEntries)
    PROVE  /\ Before(s) \in Seq(ContextMessages) /\ Since(s) \in Seq(ContextMessages)
           /\ SessionContext(s) = Cat(Before(s), Since(s))
<1> DEFINE c == LatestCompaction(s)
<1>1. /\ c \in Nat /\ c <= Len(s) /\ (c # 0 => IsCompactionEntry(s[c]))
      /\ \A i \in 1..Len(s) : i > c => ~IsCompactionEntry(s[i])
    BY LatestCompactionFacts
<1>2. Since(s) \in Seq(ContextMessages)
    <2> DEFINE r == SubSeq(s, c + 1, Len(s))
    <2>1. /\ r \in Seq(SessionEntries)
          /\ \A i \in 1..Len(r) : r[i] = s[c + i] /\ c + i \in 1..Len(s) /\ c + i > c
        <3> HIDE DEF c
        <3> QED
            BY <1>1
    <2>2. \A i \in 1..Len(r) : r[i] \in SessionEntries /\ ~IsCompactionEntry(r[i])
        <3> HIDE DEF c, r
        <3> QED
            BY <1>1, <2>1
    <2>3. \A i \in 1..Len(r) : r[i] \in ContextMessages
        BY <2>2, EntryKinds
    <2> HIDE DEF r
    <2>4. r \in Seq(ContextMessages)
        BY <2>1, <2>3
    <2> QED
        BY <2>4 DEF Since, r
<1>3. CASE c = 0
    <2>1. s = SubSeq(s, 1, Len(s))
        OBVIOUS
    <2>2. Since(s) = s
        BY <1>3, <2>1 DEF Since
    <2>3. Before(s) = <<>> /\ SessionContext(s) = s
        BY <1>3 DEF Before, SessionContext
    <2>4. <<>> \in Seq(ContextMessages)
        OBVIOUS
    <2> QED
        BY <1>2, <2>2, <2>3, <2>4, CatNone
<1>4. CASE c # 0
    <2>1. s[c] \in Compactions
        BY <1>1, <1>4, EntryKinds
    <2>2. Summary(s[c]) \in ContextMessages
        BY <2>1, SummaryType DEF ContextMessages
    <2> DEFINE k == SubSeq(s, s[c].kept, c - 1)
    <2>3. k \in Seq(SessionEntries)
        <3> HIDE DEF c
        <3>1. s[c].kept \in Nat \ {0} /\ c - 1 \in Nat /\ c - 1 <= Len(s)
            BY <1>1, <1>4, <2>1, Roles
        <3> QED
            BY ONLY <3>1, s \in Seq(SessionEntries), PartFacts
    <2> HIDE DEF k
    <2>4. MessagesOf(k) \in Seq(ContextMessages)
        BY <2>3, MessagesType
    <2>5. <<Summary(s[c])>> \in Seq(ContextMessages)
        BY <2>2
    <2>6. Cat(<<Summary(s[c])>>, MessagesOf(k)) \in Seq(ContextMessages)
        BY <2>4, <2>5, CatType
    <2>7. Before(s) = Cat(<<Summary(s[c])>>, MessagesOf(k))
        BY <1>4 DEF Before, k
    <2>8. SessionContext(s) = Cat(Before(s), Since(s))
        BY <1>4, <2>7 DEF SessionContext, Since, Cat, k
    <2> QED
        BY <1>2, <2>6, <2>7, <2>8
<1> QED
    BY <1>3, <1>4

LEMMA ContextType ==
    ASSUME NEW s \in Seq(SessionEntries)
    PROVE  SessionContext(s) \in Seq(ContextMessages)
BY ContextParts, CatType

\* An entry that is a message is added at the end.
LEMMA ContextAppend ==
    ASSUME NEW s \in Seq(SessionEntries), NEW m \in Users \cup Answers
    PROVE  SessionContext(Append(s, m)) = Cat(SessionContext(s), <<m>>)
<1> DEFINE t == Append(s, m)
           c == LatestCompaction(s)
<1>1. /\ c \in Nat /\ c <= Len(s)
      /\ c # 0 => IsCompactionEntry(s[c])
    BY LatestCompactionFacts
<1>2. m \in SessionEntries /\ m \in ContextMessages /\ ~IsCompactionEntry(m)
    BY EntryKinds
<1>3. LatestCompaction(t) = c
    BY <1>2, LatestCompactionAppend
<1>4. /\ t \in Seq(SessionEntries) /\ Len(t) = Len(s) + 1 /\ t[Len(s) + 1] = m
      /\ \A i \in 1..Len(s) : t[i] = s[i]
    BY <1>2, AppendFacts
<1>5. Before(t) = Before(s)
    <2>1. CASE c = 0
        BY <1>3, <2>1 DEF Before
    <2>2. CASE c # 0
        <3>1. t[c] = s[c] /\ s[c] \in Compactions
            BY <1>1, <1>4, <2>2, EntryKinds
        <3>2. SubSeq(t, s[c].kept, c - 1) = SubSeq(s, s[c].kept, c - 1)
            <4> HIDE DEF c
            <4>1. PICK k \in Nat \ {0} : k = s[c].kept
                BY <3>1, Roles
            <4>2. c - 1 \in Nat /\ c - 1 <= Len(s)
                BY <1>1, <2>2
            <4>3. SubSeq(t, k, c - 1) = SubSeq(s, k, c - 1)
                BY <4>2 DEF t
            <4> QED
                BY <4>1, <4>3
        <3> QED
            BY <1>3, <2>2, <3>1, <3>2 DEF Before
    <2> QED
        BY <2>1, <2>2
<1>6. Since(t) = Cat(Since(s), <<m>>)
    <2> HIDE DEF c
    <2>1. SubSeq(t, c + 1, Len(t)) = SubSeq(s, c + 1, Len(s)) \o <<m>>
        BY <1>1, <1>2, PartOfMore DEF t
    <2> QED
        BY <1>3, <2>1 DEF Since, Cat, c
<1>7. /\ SessionContext(t) = Cat(Before(t), Since(t))
      /\ SessionContext(s) = Cat(Before(s), Since(s))
      /\ Before(s) \in Seq(ContextMessages) /\ Since(s) \in Seq(ContextMessages)
    BY <1>4, ContextParts
<1>8. <<m>> \in Seq(ContextMessages)
    BY <1>2
<1> HIDE DEF t
<1>9. SessionContext(t) = Cat(Before(s), Cat(Since(s), <<m>>))
    BY <1>5, <1>6, <1>7
<1>10. Cat(Cat(Before(s), Since(s)), <<m>>) = Cat(Before(s), Cat(Since(s), <<m>>))
    <2> DEFINE x == Before(s)
               y == Since(s)
               z == <<m>>
    <2>1. x \in Seq(ContextMessages) /\ y \in Seq(ContextMessages) /\ z \in Seq(ContextMessages)
        BY <1>7, <1>8
    <2> HIDE DEF x, y, z
    <2>2. Cat(Cat(x, y), z) = Cat(x, Cat(y, z))
        BY ONLY <2>1, CatAssoc
    <2> QED
        BY <2>2 DEF x, y, z
<1> QED
    BY <1>7, <1>9, <1>10 DEF t

-----------------------------------------------------------------------------
(* What has failed and been recovered from since the last progress.        *)

Failed(e) == e.role = "assistant" /\ e.stop = "retryable"
Recovers(e) == IsCompactionEntry(e) /\ e.reason = "overflow"

LEMMA SinceAppend ==
    ASSUME NEW X, NEW s \in Seq(X), NEW e \in X
    PROVE  SinceProgress(Append(s, e)) =
               IF Progress(e) THEN {} ELSE SinceProgress(s) \cup {Len(s) + 1}
<1> DEFINE t == Append(s, e)
           n == Len(s)
<1>1. /\ n \in Nat /\ DOMAIN t = 1..(n + 1) /\ DOMAIN s = 1..n /\ Len(t) = n + 1
      /\ \A i \in 1..n : t[i] = s[i]
      /\ t[n + 1] = e
    OBVIOUS
<1> HIDE DEF t, n
<1>2. CASE Progress(e)
    <2>1. \A i \in 1..(n + 1) : n + 1 \in i..(n + 1)
        BY <1>1
    <2>2. SinceProgress(t) = {}
        BY <1>1, <1>2, <2>1 DEF SinceProgress
    <2> QED
        BY <1>2, <2>2 DEF t
<1>3. CASE ~Progress(e)
    <2>1. ASSUME NEW i \in 1..n
          PROVE  (\A j \in i..(n + 1) : ~Progress(t[j])) <=> (\A j \in i..n : ~Progress(s[j]))
        <3>1. \A j \in i..n : j \in 1..n /\ j \in i..(n + 1) /\ t[j] = s[j]
            BY <1>1
        <3>2. \A j \in i..(n + 1) : j \in i..n \/ j = n + 1
            BY <1>1
        <3> QED
            BY <1>1, <1>3, <3>1, <3>2
    <2>2. \A j \in (n + 1)..(n + 1) : ~Progress(t[j])
        BY <1>1, <1>3
    <2>3. ASSUME NEW i PROVE i \in SinceProgress(t) <=> i \in SinceProgress(s) \cup {n + 1}
        <3>1. CASE i \in 1..n
            <4>1. i # n + 1 /\ i \in 1..(n + 1)
                BY <1>1, <3>1
            <4> QED
                BY <1>1, <2>1, <3>1, <4>1 DEF SinceProgress, n
        <3>2. CASE i = n + 1
            BY <1>1, <2>2, <3>2 DEF SinceProgress
        <3>3. CASE i \notin 1..(n + 1)
            <4>1. i \notin 1..n /\ i # n + 1
                BY <1>1, <3>3
            <4> QED
                BY <1>1, <3>3, <4>1 DEF SinceProgress
        <3> QED
            BY <1>1, <3>1, <3>2, <3>3
    <2>4. SinceProgress(t) = SinceProgress(s) \cup {n + 1}
        BY <2>3
    <2> QED
        BY <1>3, <2>4 DEF t, n
<1> QED
    BY <1>2, <1>3

LEMMA SinceRange ==
    ASSUME NEW X, NEW s \in Seq(X)
    PROVE  SinceProgress(s) \subseteq 1..Len(s)
BY DEF SinceProgress

\* One entry more.
LEMMA FailuresAppend ==
    ASSUME NEW X, NEW s \in Seq(X), NEW e \in X
    PROVE  /\ Progress(e) => Failures(Append(s, e)) = {}
           /\ ~Progress(e) /\ Failed(e) => Failures(Append(s, e)) = Failures(s) \cup {Len(s) + 1}
           /\ ~Progress(e) /\ ~Failed(e) => Failures(Append(s, e)) = Failures(s)
<1> DEFINE t == Append(s, e)
           n == Len(s)
<1>1. /\ n \in Nat /\ \A i \in 1..n : t[i] = s[i]
      /\ t[n + 1] = e
    OBVIOUS
<1>2. SinceProgress(t) = IF Progress(e) THEN {} ELSE SinceProgress(s) \cup {n + 1}
    BY SinceAppend
<1>3. SinceProgress(s) \subseteq 1..n
    BY SinceRange
<1> HIDE DEF t, n
<1>4. \A i \in SinceProgress(s) : t[i] = s[i]
    BY <1>1, <1>3
<1>5. CASE Progress(e)
    BY <1>2, <1>5 DEF Failures, t
<1>6. CASE ~Progress(e) /\ Failed(e)
    <2>1. \A i : i \in Failures(t) <=> i \in Failures(s) \cup {n + 1}
        BY <1>1, <1>2, <1>4, <1>6 DEF Failures, Failed
    <2>2. Failures(t) = Failures(s) \cup {n + 1}
        BY <2>1
    <2> QED
        BY <1>6, <2>2 DEF t, n
<1>7. CASE ~Progress(e) /\ ~Failed(e)
    <2>1. \A i : i \in Failures(t) <=> i \in Failures(s)
        BY <1>1, <1>2, <1>4, <1>7 DEF Failures, Failed
    <2>2. Failures(t) = Failures(s)
        BY <2>1
    <2> QED
        BY <1>7, <2>2 DEF t
<1> QED
    BY <1>5, <1>6, <1>7

LEMMA RecoveriesAppend ==
    ASSUME NEW X, NEW s \in Seq(X), NEW e \in X
    PROVE  /\ Progress(e) => Recoveries(Append(s, e)) = {}
           /\ ~Progress(e) /\ Recovers(e) =>
                  Recoveries(Append(s, e)) = Recoveries(s) \cup {Len(s) + 1}
           /\ ~Progress(e) /\ ~Recovers(e) => Recoveries(Append(s, e)) = Recoveries(s)
<1> DEFINE t == Append(s, e)
           n == Len(s)
<1>1. /\ n \in Nat /\ \A i \in 1..n : t[i] = s[i]
      /\ t[n + 1] = e
    OBVIOUS
<1>2. SinceProgress(t) = IF Progress(e) THEN {} ELSE SinceProgress(s) \cup {n + 1}
    BY SinceAppend
<1>3. SinceProgress(s) \subseteq 1..n
    BY SinceRange
<1> HIDE DEF t, n
<1>4. \A i \in SinceProgress(s) : t[i] = s[i]
    BY <1>1, <1>3
<1>5. CASE Progress(e)
    BY <1>2, <1>5 DEF Recoveries, t
<1>6. CASE ~Progress(e) /\ Recovers(e)
    <2>1. \A i : i \in Recoveries(t) <=> i \in Recoveries(s) \cup {n + 1}
        BY <1>1, <1>2, <1>4, <1>6 DEF Recoveries, Recovers
    <2>2. Recoveries(t) = Recoveries(s) \cup {n + 1}
        BY <2>1
    <2> QED
        BY <1>6, <2>2 DEF t, n
<1>7. CASE ~Progress(e) /\ ~Recovers(e)
    <2>1. \A i : i \in Recoveries(t) <=> i \in Recoveries(s)
        BY <1>1, <1>2, <1>4, <1>7 DEF Recoveries, Recovers
    <2>2. Recoveries(t) = Recoveries(s)
        BY <2>1
    <2> QED
        BY <1>7, <2>2 DEF t
<1> QED
    BY <1>5, <1>6, <1>7

\* The number of failures.
FailureCount(s) == Cardinality(Failures(s))

LEMMA CountAppend ==
    ASSUME NEW X, NEW s \in Seq(X), NEW e \in X
    PROVE  /\ FailureCount(s) \in Nat
           /\ Progress(e) => FailureCount(Append(s, e)) = 0
           /\ ~Progress(e) /\ Failed(e) => FailureCount(Append(s, e)) = FailureCount(s) + 1
           /\ ~Progress(e) /\ ~Failed(e) => FailureCount(Append(s, e)) = FailureCount(s)
<1> DEFINE F == Failures(s)
<1>1. IsFiniteSet(F) /\ Len(s) + 1 \notin F
    <2>1. F \subseteq 1..Len(s) /\ Len(s) \in Nat
        BY SinceRange DEF Failures
    <2>2. IsFiniteSet(1..Len(s))
        BY <2>1, FS_Interval
    <2> HIDE DEF F
    <2>3. IsFiniteSet(F)
        BY <2>1, <2>2, FS_Subset
    <2> QED
        BY <2>1, <2>3
<1> HIDE DEF F
<1>2. Cardinality(F) \in Nat /\ Cardinality(F \cup {Len(s) + 1}) = Cardinality(F) + 1
    BY <1>1, FS_CardinalityType, FS_AddElement
<1>3. Cardinality({}) = 0
    BY FS_EmptySet
<1> QED
    BY <1>2, <1>3, FailuresAppend DEF FailureCount, F

LEMMA CountNone == FailureCount(<<>>) = 0 /\ Recoveries(<<>>) = {}
<1>1. SinceProgress(<<>>) = {}
    BY DEF SinceProgress
<1> QED
    BY <1>1, FS_EmptySet DEF FailureCount, Failures, Recoveries

-----------------------------------------------------------------------------
(* Types.                                                                  *)

Events == Users \cup Answers \cup {AgentEnd}

\* Types of what TypeOK does not name.
Typed ==
    /\ TypeOK
    /\ clock \in Nat \ {0} /\ epoch \in 1..MaxSessions
    /\ switching => epoch < MaxSessions
    /\ events \in Seq(Events)
    /\ last \in Answers \cup {NoMsg}
    /\ reply \in Answers \cup {NoMsg} /\ (phase = "answered") = (reply # NoMsg)
    /\ {stranded, crossed} \subseteq BOOLEAN
    /\ \A t \in Threads : comp[t].stage \in {"summary", "saved"} => comp[t].kept # 0

LEMMA ChainedType ==
    ASSUME events \in Seq(Events), NEW es \in Seq(Events), Chained(es)
    PROVE  events' \in Seq(Events)
BY DEF Chained

LEMMA MessageChained ==
    ASSUME events \in Seq(Events), NEW m \in Users \cup Answers, Chained(<<m>>)
    PROVE  events' \in Seq(Events)
<1>1. <<m>> \in Seq(Events)
    BY DEF Events
<1> QED
    BY <1>1, ChainedType

\* What the actions of the agent, of the chain and so on leave alone.
LEMMA AnswerArrivesTyped ==
    ASSUME Typed, NEW stop \in Stops, AnswerArrives(stop)
    PROVE  Typed'
<1> DEFINE m == Answer(clock - 1, stop)
<1>1. m \in Answers /\ m # NoMsg
    <2>1. clock - 1 \in Nat /\ epoch \in 1..MaxSessions
        BY DEF Typed
    <2> QED
        BY ONLY <2>1, stop \in Stops, AnswerType, NoMsgIsNoAnswer
<1>2. reply' = m /\ context' = Append(context, m) /\ Chained(<<m>>)
    BY DEF AnswerArrives
<1> HIDE DEF m
<1>3. context' \in Seq(ContextMessages)
    BY <1>1, <1>2 DEF Typed, TypeOK, ContextMessages
<1>4. events' \in Seq(Events)
    BY <1>1, <1>2, MessageChained DEF Typed
<1>5. UNCHANGED <<runner, signal, queue, handler, retryVars, compVars, clientVars, session,
                  clock, countVars, historyVars>>
      /\ phase' = "answered"
    BY DEF AnswerArrives
<1> QED
    BY <1>1, <1>2, <1>3, <1>4, <1>5
    DEF Typed, TypeOK, retryVars, compVars, clientVars, countVars, historyVars

LEMMA NextTurnTyped ==
    ASSUME Typed, NextTurn
    PROVE  Typed'
<1> DEFINE m == UserMsg(clock)
<1>1. m \in Users
    BY UserType DEF Typed
<1>2. context' = Append(context, m) /\ Chained(<<m>>)
    BY DEF NextTurn
<1> HIDE DEF m
<1>3. context' \in Seq(ContextMessages)
    BY <1>1, <1>2 DEF Typed, TypeOK, ContextMessages
<1>4. events' \in Seq(Events)
    BY <1>1, <1>2, MessageChained DEF Typed
<1>5. queue' \in 0..MaxQueued
    BY AgentSessionAssumption DEF NextTurn, Typed, TypeOK
<1> QED
    BY <1>3, <1>4, <1>5
    DEF NextTurn, Typed, TypeOK, retryVars, compVars, clientVars, countVars, historyVars

LEMMA RunEndsTyped ==
    ASSUME Typed, RunEnds
    PROVE  Typed'
<1>1. events' \in Seq(Events)
    <2>1. <<AgentEnd>> \in Seq(Events) /\ Chained(<<AgentEnd>>)
        BY DEF RunEnds, Events
    <2> QED
        BY <2>1, ChainedType DEF Typed
<1>2. promise' \in BOOLEAN /\ stranded' \in BOOLEAN
    BY DEF RunEnds, Typed, TypeOK
<1>3. \A p \in Callers : pc'[p] = (IF p = runner THEN "ran" ELSE pc[p])
                          /\ (pc'[p] = "compacting") = (pc[p] = "compacting")
    <2>1. \A p \in Callers : p # None
        BY AgentSessionAssumption
    <2> QED
        BY <2>1 DEF RunEnds, Typed, TypeOK
<1>4. pc' \in [Callers -> {"idle", "key", "compacting", "before", "running", "ran",
                           "waiting", "done"}]
    BY DEF RunEnds, Typed, TypeOK
<1> QED
    BY <1>1, <1>2, <1>3, <1>4 DEF RunEnds, Typed, TypeOK, compVars, countVars, NoMsg

LEMMA BeginRunTyped ==
    ASSUME Typed, NEW who, NEW ms \in Seq(Users), BeginRun(who, ms)
    PROVE  /\ phase' = "open" /\ reply' = NoMsg /\ runner' = who /\ signal' = FALSE
           /\ context' \in Seq(ContextMessages) /\ events' \in Seq(Events)
           /\ clock' \in Nat \ {0}
<1>1. ms \in Seq(ContextMessages) /\ ms \in Seq(Events)
    BY DEF ContextMessages, Events
<1> QED
    BY <1>1, ChainedType DEF BeginRun, Typed, TypeOK

LEMMA TimerFiresTyped ==
    ASSUME Typed, TimerFires
    PROVE  Typed'
<1>1. timers' \in Nat
    BY DEF TimerFires, Typed, TypeOK
<1>2. UNCHANGED <<handler, retryVars, controller, comp, clientVars, session, countVars, crossed>>
    BY DEF TimerFires
<1>3. ASSUME NEW ms \in Seq(Users), BeginRun(None, ms), UNCHANGED stranded, queue' \in 0..MaxQueued
      PROVE  Typed'
    BY <1>1, <1>2, <1>3, BeginRunTyped DEF Typed, TypeOK, retryVars, clientVars, countVars
<1>4. CASE BeginRun(None, <<>>) /\ UNCHANGED <<queue, stranded>>
    <2>1. <<>> \in Seq(Users) /\ queue' \in 0..MaxQueued
        BY <1>4 DEF Typed, TypeOK
    <2> QED
        BY <1>3, <1>4, <2>1
<1>5. CASE BeginRun(None, <<UserMsg(clock)>>) /\ queue > 0 /\ queue' = queue - 1 /\ UNCHANGED stranded
    <2>1. <<UserMsg(clock)>> \in Seq(Users)
        BY UserType DEF Typed
    <2>2. queue' \in 0..MaxQueued
        BY <1>5, AgentSessionAssumption DEF Typed, TypeOK
    <2> QED
        BY <1>3, <1>5, <2>1, <2>2
<1>6. CASE stranded' = (stranded \/ promise) /\ UNCHANGED <<agentVars, events, clock>>
    BY <1>1, <1>2, <1>6
    DEF Typed, TypeOK, agentVars, retryVars, clientVars, countVars
<1> QED
    BY <1>4, <1>5, <1>6 DEF TimerFires
PCs == {"idle", "key", "compacting", "before", "running", "ran", "waiting", "done"}

LEMMA ResolveRetryTyped ==
    ASSUME Typed, ResolveRetry(pc)
    PROVE  /\ promise' = FALSE /\ pc' \in [Callers -> PCs]
           /\ \A p \in Callers : pc'[p] = (IF pc[p] = "waiting" THEN "done" ELSE pc[p])
           /\ \A p \in Callers : (pc'[p] = "compacting") = (pc[p] = "compacting")
           /\ runner # None => pc'[runner] = "running"
<1>1. /\ promise' = FALSE
      /\ pc' = [p \in Callers |-> IF pc[p] = "waiting" THEN "done" ELSE pc[p]]
    BY DEF ResolveRetry
<1>2. pc \in [Callers -> PCs] /\ runner \in Callers \cup {None} /\ (runner # None => pc[runner] = "running")
    BY DEF Typed, TypeOK, PCs
<1> QED
    BY <1>1, <1>2 DEF PCs

LEMMA TakeTyped ==
    ASSUME Typed, Take
    PROVE  /\ events' \in Seq(Events) /\ Head(events) \in Events /\ handler = "idle"
           /\ events # <<>> /\ events' = Tail(events)
BY DEF Typed, Take

LEMMA ProcessMessageTyped ==
    ASSUME Typed, ProcessMessage
    PROVE  Typed'
<1>1. events' \in Seq(Events) /\ Head(events) \in Events
    BY TakeTyped DEF ProcessMessage
<1> DEFINE m == Head(events)
<1>2. /\ m.role \in {"user", "assistant"}
      /\ session' = Append(session, m)
      /\ last' = (IF m.role = "assistant" THEN m ELSE last)
      /\ recovered' = (recovered /\ IsError(m))
      /\ \/ attempt' = 0 /\ ResolveRetry(pc)
         \/ UNCHANGED <<attempt, promise, pc>>
      /\ UNCHANGED <<agentVars, handler, compVars, connected, switching, clock,
                     countVars, historyVars>>
    BY DEF ProcessMessage
<1> HIDE DEF m
<1>3. m \in Users \cup Answers
    BY <1>1, <1>2 DEF Events, AgentEnd, m
<1>4. session' \in Seq(SessionEntries)
    BY <1>2, <1>3 DEF Typed, TypeOK, SessionEntries
<1>5. last' \in Answers \cup {NoMsg}
    BY <1>2, <1>3, Roles DEF Typed
<1>6. recovered' \in BOOLEAN
    BY <1>2
<1>7. /\ attempt' \in 0..MaxRetries /\ promise' \in BOOLEAN /\ pc' \in [Callers -> PCs]
      /\ \A p \in Callers : (pc'[p] = "compacting") = (pc[p] = "compacting")
      /\ runner # None => pc'[runner] = "running"
    <2>1. CASE attempt' = 0 /\ ResolveRetry(pc)
        <3>1. 0 \in 0..MaxRetries
            BY AgentSessionAssumption
        <3>2. runner' = runner
            BY <1>2 DEF agentVars
        <3> QED
            BY <2>1, <3>1, <3>2, ResolveRetryTyped
    <2>2. CASE UNCHANGED <<attempt, promise, pc>>
        BY <2>2 DEF Typed, TypeOK, PCs
    <2> QED
        BY <1>2, <2>1, <2>2
<1> QED
    BY <1>1, <1>2, <1>4, <1>5, <1>6, <1>7
    DEF Typed, TypeOK, agentVars, compVars, countVars, historyVars, PCs

LEMMA ProcessEndTyped ==
    ASSUME Typed, ProcessEnd
    PROVE  Typed'
<1>1. events' \in Seq(Events)
    BY TakeTyped DEF ProcessEnd
<1> QED
    BY <1>1 DEF ProcessEnd, Typed, TypeOK, agentVars, compVars, clientVars, countVars, historyVars

LEMMA DropType ==
    ASSUME Typed
    PROVE  DropAssistant(context) \in Seq(ContextMessages)
BY FrontFacts DEF DropAssistant, EndsWithAssistant, Typed, TypeOK

LEMMA RetryBeginsTyped ==
    ASSUME Typed, RetryBegins
    PROVE  Typed'
<1>1. events' \in Seq(Events) /\ context' \in Seq(ContextMessages) /\ handler = "idle"
    BY TakeTyped, DropType DEF RetryBegins
<1>2. attempt' \in 0..MaxRetries
    BY AgentSessionAssumption DEF RetryBegins, Typed, TypeOK
<1> QED
    BY <1>1, <1>2 DEF RetryBegins, Typed, TypeOK, compVars, clientVars, countVars, historyVars

LEMMA RetryGivesUpTyped ==
    ASSUME Typed, RetryGivesUp
    PROVE  Typed'
<1>1. events' \in Seq(Events) /\ ResolveRetry(pc)
    BY TakeTyped DEF RetryGivesUp
<1>2. attempt' \in 0..MaxRetries
    BY AgentSessionAssumption DEF RetryGivesUp
<1> QED
    BY <1>1, <1>2, ResolveRetryTyped
    DEF RetryGivesUp, Typed, TypeOK, agentVars, compVars, countVars, historyVars, PCs

LEMMA BackoffEndsTyped ==
    ASSUME Typed, BackoffEnds
    PROVE  Typed'
BY DEF BackoffEnds, Typed, TypeOK, agentVars, retryVars, clientVars, countVars, historyVars

LEMMA BackoffAbortedTyped ==
    ASSUME Typed, BackoffAborted
    PROVE  Typed'
<1>1. ResolveRetry(pc) /\ attempt' \in 0..MaxRetries
    BY AgentSessionAssumption DEF BackoffAborted
<1> QED
    BY <1>1, ResolveRetryTyped
    DEF BackoffAborted, Typed, TypeOK, agentVars, compVars, countVars, historyVars, PCs

Reasons == {"overflow", "threshold", "manual"}

LEMMA NoCompType ==
    /\ NoComp.stage = "none"
    /\ \A c \in Comps : c.stage = "none" => c = NoComp
    /\ \A c \in Comps : c.stage # "none" =>
           c.reason \in Reasons /\ c.aborted \in BOOLEAN /\ c.kept \in Nat
    /\ \A c \in Comps : c.stage \in {"none", "abort", "key", "summary", "saved"}
BY DEF NoComp, Comps, Reasons

LEMMA StartedType ==
    ASSUME NEW stage \in {"abort", "key"}, NEW reason \in Reasons
    PROVE  [stage |-> stage, reason |-> reason, aborted |-> FALSE, kept |-> 0] \in Comps
BY DEF Comps, Reasons

\* What thread t compacts; everybody else stays where it is.
CompIs(t, c) == comp' = [comp EXCEPT ![t] = c]

LEMMA CompIsTyped ==
    ASSUME Typed, NEW t \in Threads, NEW c \in Comps, CompIs(t, c)
    PROVE  /\ comp' \in [Threads -> Comps]
           /\ comp'[t] = c
           /\ \A u \in Threads : u # t => comp'[u] = comp[u]
BY DEF CompIs, Typed, TypeOK

LEMMA ThreadKinds ==
    /\ Chain \in Threads /\ Manual \in Threads /\ Chain # Manual
    /\ \A p \in Callers : p \in Threads /\ p # Chain /\ p # Manual /\ p # None
    /\ \A t \in Threads : t \in Callers \/ t = Chain \/ t = Manual
BY AgentSessionAssumption DEF Threads

LEMMA StartCompactionTyped ==
    ASSUME Typed, NEW t \in Threads, NEW r \in Reasons, StartCompaction(t, r)
    PROVE  /\ controller' = t
           /\ comp' \in [Threads -> Comps] /\ comp'[t].stage = "key" /\ comp'[t].reason = r
           /\ \A u \in Threads : u # t => comp'[u] = comp[u]
<1> DEFINE c == [stage |-> "key", reason |-> r, aborted |-> FALSE, kept |-> 0]
<1>1. c \in Comps /\ c.stage = "key" /\ c.reason = r
    BY StartedType
<1>2. CompIs(t, c) /\ controller' = t
    BY DEF StartCompaction, CompIs
<1> HIDE DEF c
<1> QED
    BY <1>1, <1>2, CompIsTyped

LEMMA Verdicts ==
    ASSUME NEW m, NEW b, Verdict(m, b) # "none"
    PROVE  Verdict(m, b) \in Reasons
BY DEF Verdict, Reasons

LEMMA ProcessCompactsTyped ==
    ASSUME Typed, ProcessCompacts
    PROVE  Typed'
<1> DEFINE v == Verdict(last, TRUE)
<1>1. /\ v \in Reasons
      /\ recovered' = (recovered \/ v = "overflow")
      /\ context' = IF v = "overflow" THEN DropAssistant(context) ELSE context
      /\ StartCompaction(Chain, v)
    BY Verdicts DEF ProcessCompacts
<1>2. /\ events' \in Seq(Events) /\ handler' = "compacting" /\ last' = NoMsg
      /\ UNCHANGED <<phase, reply, runner, signal, queue, attempt, promise, timers, clientVars,
                     session, clock, countVars, historyVars>>
    BY TakeTyped DEF ProcessCompacts
<1> HIDE DEF v
<1>3. context' \in Seq(ContextMessages) /\ recovered' \in BOOLEAN
    BY <1>1, DropType DEF Typed, TypeOK
<1>4. /\ controller' = Chain /\ comp' \in [Threads -> Comps] /\ comp'[Chain].stage = "key"
      /\ \A u \in Threads : u # Chain => comp'[u] = comp[u]
    BY <1>1, StartCompactionTyped, ThreadKinds
<1>5. controller' \in Threads /\ (handler' = "compacting") = (comp'[Chain].stage # "none")
    BY <1>2, <1>4, ThreadKinds
<1>6. \A p \in Callers : comp'[p] = comp[p]
    BY <1>4, ThreadKinds
<1>7. \A t \in Threads : comp'[t].stage \in {"summary", "saved"} => comp'[t].kept # 0
    BY <1>4 DEF Typed
<1> QED
    BY <1>2, <1>3, <1>4, <1>5, <1>6, <1>7
    DEF Typed, TypeOK, clientVars, countVars, historyVars

LEMMA KeptType ==
    ASSUME NEW s \in Seq(SessionEntries), NEW k \in Cuts(s)
    PROVE  k \in Nat \ {0}
BY LatestCompactionFacts DEF Cuts

LEMMA CompactionPreparedTyped ==
    ASSUME Typed, NEW t \in Threads, CompactionPrepared(t)
    PROVE  Typed'
<1>1. PICK k \in Cuts(session) :
          comp' = [comp EXCEPT ![t].stage = "summary", ![t].kept = k]
    BY DEF CompactionPrepared
<1>2. k \in Nat \ {0}
    BY KeptType DEF Typed, TypeOK
<1> DEFINE c == [comp[t] EXCEPT !.stage = "summary", !.kept = k]
<1>3. comp[t] \in Comps /\ comp[t].stage = "key"
    BY DEF CompactionPrepared, Typed, TypeOK
<1>4. c \in Comps /\ c.stage = "summary" /\ c.kept = k
    <2> DEFINE R == [stage : {"abort", "key", "summary", "saved"}, reason : Reasons,
                     aborted : BOOLEAN, kept : Nat]
    <2>1. comp[t] \in R
        BY <1>3 DEF Comps, NoComp, Reasons
    <2>2. \A r \in R : /\ [r EXCEPT !.stage = "summary", !.kept = k] \in R
                       /\ [r EXCEPT !.stage = "summary", !.kept = k].stage = "summary"
                       /\ [r EXCEPT !.stage = "summary", !.kept = k].kept = k
        BY <1>2
    <2>3. R \subseteq Comps
        BY DEF Comps, Reasons
    <2> HIDE DEF R
    <2> QED
        BY <2>1, <2>2, <2>3
<1>5. CompIs(t, c)
    BY <1>1 DEF CompIs, Typed, TypeOK
<1> HIDE DEF c
<1>6. /\ comp' \in [Threads -> Comps]
      /\ comp'[t].stage = "summary" /\ comp'[t].kept # 0
      /\ \A u \in Threads : u # t => comp'[u] = comp[u]
    BY <1>2, <1>4, <1>5, CompIsTyped
<1>7. \A u \in Threads : (comp'[u].stage # "none") = (comp[u].stage # "none")
    BY <1>3, <1>6
<1> QED
    BY <1>6, <1>7, ThreadKinds
    DEF CompactionPrepared, Typed, TypeOK, agentVars, retryVars, clientVars, countVars,
        historyVars

LEMMA AfterCompactionTyped ==
    ASSUME Typed, NEW t \in Threads, AfterCompaction(t), comp[t].stage # "none"
    PROVE  /\ comp' \in [Threads -> Comps] /\ comp'[t] = NoComp
           /\ \A u \in Threads : u # t => comp'[u] = comp[u]
           /\ controller' \in Threads \cup {None} /\ connected' \in BOOLEAN
           /\ handler' = (IF t = Chain THEN "idle" ELSE handler)
           /\ pc' \in [Callers -> PCs]
           /\ \A p \in Callers : pc'[p] = (IF p = t THEN "before" ELSE pc[p])
           /\ runner # None => pc'[runner] = "running"
           /\ (handler' = "compacting") = (comp'[Chain].stage # "none")
           /\ \A p \in Callers : (pc'[p] = "compacting") = (comp'[p].stage # "none")
<1>1. NoComp \in Comps /\ CompIs(t, NoComp)
    BY DEF Comps, AfterCompaction, CompIs
<1>2. /\ comp' \in [Threads -> Comps] /\ comp'[t] = NoComp
      /\ \A u \in Threads : u # t => comp'[u] = comp[u]
    BY <1>1, CompIsTyped
<1>3. controller' \in Threads \cup {None} /\ connected' \in BOOLEAN
    BY DEF AfterCompaction, Typed, TypeOK
<1>4. /\ handler' = (IF t = Chain THEN "idle" ELSE handler)
      /\ pc' = [p \in Callers |-> IF p = t THEN "before" ELSE pc[p]]
    BY DEF AfterCompaction
<1>5. /\ pc \in [Callers -> PCs] /\ runner \in Callers \cup {None}
      /\ runner # None => pc[runner] = "running"
      /\ (handler = "compacting") = (comp[Chain].stage # "none")
      /\ \A p \in Callers : (pc[p] = "compacting") = (comp[p].stage # "none")
    BY DEF Typed, TypeOK, PCs
<1>6. pc' \in [Callers -> PCs] /\ \A p \in Callers : pc'[p] = (IF p = t THEN "before" ELSE pc[p])
    BY <1>4, <1>5 DEF PCs
<1>7. runner # None => pc'[runner] = "running"
    <2>1. ASSUME runner # None PROVE runner # t
        BY <1>5, <2>1
    <2> QED
        BY <1>5, <1>6, <2>1
<1>8. (handler' = "compacting") = (comp'[Chain].stage # "none")
    BY <1>2, <1>4, <1>5, ThreadKinds, NoCompType
<1>9. \A p \in Callers : (pc'[p] = "compacting") = (comp'[p].stage # "none")
    BY <1>2, <1>5, <1>6, ThreadKinds, NoCompType
<1> QED
    BY <1>2, <1>3, <1>4, <1>6, <1>7, <1>8, <1>9

LEMMA CompactionFailsTyped ==
    ASSUME Typed, NEW t \in Threads, CompactionFails(t)
    PROVE  Typed'
<1>1. AfterCompaction(t) /\ comp[t].stage # "none"
    BY DEF CompactionFails
<1>2. \A u \in Threads : comp'[u].stage \in {"summary", "saved"} => comp'[u].kept # 0
    BY <1>1, AfterCompactionTyped, NoCompType DEF Typed
<1>3. handler' \in {"idle", "backoff", "cancelled", "compacting"}
    BY <1>1, AfterCompactionTyped DEF Typed, TypeOK
<1> QED
    BY <1>1, <1>2, <1>3, AfterCompactionTyped
    DEF CompactionFails, Typed, TypeOK, agentVars, retryVars, countVars, historyVars, PCs

\* The stage alone changes.
LEMMA StageTyped ==
    ASSUME Typed, NEW t \in Threads, comp[t].stage # "none", NEW stage \in {"key", "saved"},
           comp' = [comp EXCEPT ![t].stage = stage],
           stage = "saved" => comp[t].kept # 0
    PROVE  /\ comp' \in [Threads -> Comps]
           /\ comp'[t].stage = stage
           /\ \A u \in Threads : u # t => comp'[u] = comp[u]
           /\ \A u \in Threads : (comp'[u].stage # "none") = (comp[u].stage # "none")
           /\ \A u \in Threads : comp'[u].stage \in {"summary", "saved"} => comp'[u].kept # 0
<1> DEFINE c == [comp[t] EXCEPT !.stage = stage]
<1>1. c \in Comps /\ c.stage = stage /\ c.kept = comp[t].kept
    <2> DEFINE R == [stage : {"abort", "key", "summary", "saved"}, reason : Reasons,
                     aborted : BOOLEAN, kept : Nat]
    <2>1. comp[t] \in R
        BY DEF Comps, NoComp, Reasons, Typed, TypeOK
    <2>2. \A r \in R : /\ [r EXCEPT !.stage = stage] \in R
                       /\ [r EXCEPT !.stage = stage].stage = stage
                       /\ [r EXCEPT !.stage = stage].kept = r.kept
        OBVIOUS
    <2>3. R \subseteq Comps
        BY DEF Comps, Reasons
    <2> HIDE DEF R
    <2> QED
        BY <2>1, <2>2, <2>3
<1>2. CompIs(t, c)
    BY DEF CompIs, Typed, TypeOK
<1> HIDE DEF c
<1>3. /\ comp' \in [Threads -> Comps] /\ comp'[t] = c
      /\ \A u \in Threads : u # t => comp'[u] = comp[u]
    BY <1>1, <1>2, CompIsTyped
<1> QED
    BY <1>1, <1>3 DEF Typed

LEMMA CompactionSavedTyped ==
    ASSUME Typed, NEW t \in Threads, CompactionSaved(t)
    PROVE  Typed'
<1> DEFINE e == CompactionEntry(clock, comp[t].reason, comp[t].kept)
<1>1. comp[t] \in Comps /\ comp[t].stage = "summary" /\ comp[t].kept # 0
    BY DEF CompactionSaved, Typed, TypeOK
<1>2. comp[t].kept \in Nat \ {0} /\ comp[t].reason \in Reasons
    BY <1>1, NoCompType
<1>3. e \in Compactions
    BY <1>2, CompactionType DEF Reasons, Typed
<1>4. session' = Append(session, e) /\ context' = SessionContext(session')
    BY DEF CompactionSaved
<1> HIDE DEF e
<1>5. session' \in Seq(SessionEntries)
    BY <1>3, <1>4 DEF Typed, TypeOK, SessionEntries
<1>6. context' \in Seq(ContextMessages)
    BY <1>4, <1>5, ContextType
<1>7. /\ comp' \in [Threads -> Comps]
      /\ \A u \in Threads : (comp'[u].stage # "none") = (comp[u].stage # "none")
      /\ \A u \in Threads : comp'[u].stage \in {"summary", "saved"} => comp'[u].kept # 0
    BY <1>1, StageTyped DEF CompactionSaved
<1> QED
    BY <1>5, <1>6, <1>7, ThreadKinds
    DEF CompactionSaved, Typed, TypeOK, retryVars, clientVars, countVars, historyVars

LEMMA CompactionDoneTyped ==
    ASSUME Typed, NEW t \in Threads, CompactionDone(t)
    PROVE  Typed'
<1>1. AfterCompaction(t) /\ comp[t].stage # "none"
    BY DEF CompactionDone
<1>2. \A u \in Threads : comp'[u].stage \in {"summary", "saved"} => comp'[u].kept # 0
    BY <1>1, AfterCompactionTyped, NoCompType DEF Typed
<1>3. handler' \in {"idle", "backoff", "cancelled", "compacting"}
    BY <1>1, AfterCompactionTyped DEF Typed, TypeOK
<1>4. context' \in Seq(ContextMessages)
    <2>1. context' = context \/ (context # <<>> /\ context' = Front(context))
        BY DEF CompactionDone
    <2>2. context \in Seq(ContextMessages)
        BY DEF Typed, TypeOK
    <2>3. context # <<>> => Front(context) \in Seq(ContextMessages)
        BY ONLY <2>2, FrontFacts
    <2> QED
        BY <2>1, <2>2, <2>3
<1>5. timers' \in Nat /\ crossed' \in BOOLEAN
    BY DEF CompactionDone, Typed, TypeOK
<1> QED
    BY <1>1, <1>2, <1>3, <1>4, <1>5, AfterCompactionTyped
    DEF CompactionDone, Typed, TypeOK, retryVars, countVars, PCs

LEMMA PcTyped ==
    ASSUME Typed, NEW p \in Callers, NEW where \in PCs, pc' = [pc EXCEPT ![p] = where],
           pc[p] # "running"
    PROVE  /\ pc' \in [Callers -> PCs] /\ pc'[p] = where
           /\ \A q \in Callers : q # p => pc'[q] = pc[q]
           /\ runner # None => pc'[runner] = "running"
BY DEF Typed, TypeOK, PCs

LEMMA PromptQueuesTyped ==
    ASSUME Typed, NEW p \in Callers, PromptQueues(p)
    PROVE  Typed'
<1>1. pc[p] = "idle" /\ pc' = [pc EXCEPT ![p] = "done"]
    BY AgentSessionAssumption DEF PromptQueues, IsNext
<1>2. queue' \in 0..MaxQueued
    BY AgentSessionAssumption DEF PromptQueues, Typed, TypeOK
<1>3. /\ pc' \in [Callers -> PCs] /\ pc'[p] = "done"
      /\ \A q \in Callers : q # p => pc'[q] = pc[q]
      /\ runner # None => pc'[runner] = "running"
    BY <1>1, PcTyped DEF PCs
<1> QED
    BY <1>1, <1>2, <1>3
    DEF PromptQueues, Typed, TypeOK, retryVars, compVars, countVars, historyVars, PCs

LEMMA PromptCalledTyped ==
    ASSUME Typed, NEW p \in Callers, PromptCalled(p)
    PROVE  Typed'
<1>1. pc[p] = "idle" /\ pc' = [pc EXCEPT ![p] = "key"]
    BY AgentSessionAssumption DEF PromptCalled, IsNext
<1>2. /\ pc' \in [Callers -> PCs] /\ pc'[p] = "key"
      /\ \A q \in Callers : q # p => pc'[q] = pc[q]
      /\ runner # None => pc'[runner] = "running"
    BY <1>1, PcTyped DEF PCs
<1> QED
    BY <1>1, <1>2
    DEF PromptCalled, Typed, TypeOK, agentVars, retryVars, compVars, countVars, historyVars, PCs

LEMMA PromptThrowsTyped ==
    ASSUME Typed, NEW p \in Callers, PromptThrows(p)
    PROVE  Typed'
<1>1. pc[p] \in {"key", "before"} /\ pc' = [pc EXCEPT ![p] = "done"]
    BY DEF PromptThrows
<1>2. /\ pc' \in [Callers -> PCs] /\ pc'[p] = "done"
      /\ \A q \in Callers : q # p => pc'[q] = pc[q]
      /\ runner # None => pc'[runner] = "running"
    BY <1>1, PcTyped DEF PCs
<1> QED
    BY <1>1, <1>2
    DEF PromptThrows, Typed, TypeOK, agentVars, retryVars, compVars, countVars, historyVars, PCs

LEMMA PromptAwaitsRetryTyped ==
    ASSUME Typed, NEW p \in Callers, PromptAwaitsRetry(p)
    PROVE  Typed'
<1> DEFINE where == IF promise THEN "waiting" ELSE "done"
<1>1. pc[p] = "ran" /\ pc' = [pc EXCEPT ![p] = where] /\ where \in {"waiting", "done"}
    BY DEF PromptAwaitsRetry
<1> HIDE DEF where
<1>2. /\ pc' \in [Callers -> PCs] /\ pc'[p] = where
      /\ \A q \in Callers : q # p => pc'[q] = pc[q]
      /\ runner # None => pc'[runner] = "running"
    BY <1>1, PcTyped DEF PCs
<1>3. \A q \in Callers : (pc'[q] = "compacting") = (pc[q] = "compacting")
    BY <1>1, <1>2
<1>4. UNCHANGED <<agentVars, events, handler, retryVars, compVars, connected, switching, session,
                  clock, countVars, historyVars>>
    BY DEF PromptAwaitsRetry
<1>5. /\ \A q \in Callers : (pc'[q] = "compacting") = (comp[q].stage # "none")
      /\ pc' \in [Callers -> PCs] /\ (runner # None => pc'[runner] = "running")
    BY <1>2, <1>3 DEF Typed, TypeOK
<1> QED
    BY <1>4, <1>5
    DEF Typed, TypeOK, agentVars, retryVars, compVars, countVars, historyVars,
        PCs

LEMMA PromptRunsTyped ==
    ASSUME Typed, NEW p \in Callers, PromptRuns(p)
    PROVE  Typed'
<1>1. pc[p] = "before" /\ pc' = [pc EXCEPT ![p] = "running"]
    BY DEF PromptRuns
<1>2. pc' \in [Callers -> PCs] /\ pc'[p] = "running" /\ \A q \in Callers : q # p => pc'[q] = pc[q]
    BY <1>1, PcTyped DEF PCs
<1>3. <<UserMsg(clock)>> \in Seq(Users) /\ BeginRun(p, <<UserMsg(clock)>>)
    BY UserType DEF Typed, PromptRuns
<1>4. /\ phase' = "open" /\ reply' = NoMsg /\ runner' = p /\ signal' = FALSE
      /\ context' \in Seq(ContextMessages) /\ events' \in Seq(Events)
      /\ clock' \in Nat \ {0}
    BY <1>3, BeginRunTyped
<1>5. \A q \in Callers : (pc'[q] = "compacting") = (comp[q].stage # "none")
    BY <1>1, <1>2 DEF Typed, TypeOK
<1>6. UNCHANGED <<queue, handler, retryVars, compVars, connected, switching, session, countVars,
                  historyVars>>
    BY DEF PromptRuns
<1> QED
    BY <1>2, <1>4, <1>5, <1>6
    DEF Typed, TypeOK, retryVars, compVars, countVars, historyVars, PCs

LEMMA PromptChecksTyped ==
    ASSUME Typed, NEW p \in Callers, PromptChecks(p)
    PROVE  Typed'
<1>1. PICK v \in Reasons \cup {"none"} :
          /\ recovered' = (recovered \/ v = "overflow")
          /\ context' = IF v = "overflow" THEN DropAssistant(context) ELSE context
          /\ IF v = "none"
             THEN pc' = [pc EXCEPT ![p] = "before"] /\ UNCHANGED <<controller, comp>>
             ELSE pc' = [pc EXCEPT ![p] = "compacting"] /\ StartCompaction(p, v)
    <2> DEFINE a == LatestAnswer(context)
               v == IF a = 0 THEN "none" ELSE Verdict(context[a], FALSE)
    <2>1. v \in Reasons \cup {"none"}
        BY Verdicts
    <2>2. /\ recovered' = (recovered \/ v = "overflow")
          /\ context' = IF v = "overflow" THEN DropAssistant(context) ELSE context
          /\ IF v = "none"
             THEN pc' = [pc EXCEPT ![p] = "before"] /\ UNCHANGED <<controller, comp>>
             ELSE pc' = [pc EXCEPT ![p] = "compacting"] /\ StartCompaction(p, v)
        BY DEF PromptChecks
    <2> HIDE DEF v
    <2> QED
        BY <2>1, <2>2
<1>2. pc[p] = "key" /\ UNCHANGED <<phase, reply, runner, signal, queue, events, handler, last,
                 attempt, promise, timers, connected, switching, session, clock, countVars,
                 historyVars>>
    BY DEF PromptChecks
<1>3. context' \in Seq(ContextMessages) /\ recovered' \in BOOLEAN
    BY <1>1, DropType DEF Typed, TypeOK
<1>4. CASE v = "none"
    <2>1. /\ pc' \in [Callers -> PCs] /\ pc'[p] = "before"
          /\ \A q \in Callers : q # p => pc'[q] = pc[q]
          /\ runner # None => pc'[runner] = "running"
        BY <1>1, <1>2, <1>4, PcTyped DEF PCs
    <2> QED
        BY <1>1, <1>2, <1>3, <1>4, <2>1 DEF Typed, TypeOK, countVars, historyVars, PCs
<1>5. CASE v # "none"
    <2>1. /\ pc' \in [Callers -> PCs] /\ pc'[p] = "compacting"
          /\ \A q \in Callers : q # p => pc'[q] = pc[q]
          /\ runner # None => pc'[runner] = "running"
        BY <1>1, <1>2, <1>5, PcTyped DEF PCs
    <2>2. v \in Reasons /\ StartCompaction(p, v) /\ p \in Threads
        BY <1>1, <1>5, ThreadKinds
    <2>3. /\ controller' = p
          /\ comp' \in [Threads -> Comps] /\ comp'[p].stage = "key"
          /\ \A u \in Threads : u # p => comp'[u] = comp[u]
        BY <2>2, StartCompactionTyped
    <2>4. controller' \in Threads /\ comp'[Chain] = comp[Chain]
        BY <2>3, ThreadKinds
    <2>5. \A q \in Callers : (pc'[q] = "compacting") = (comp'[q].stage # "none")
        BY <1>2, <2>1, <2>3, ThreadKinds DEF Typed, TypeOK
    <2>6. \A t \in Threads : comp'[t].stage \in {"summary", "saved"} => comp'[t].kept # 0
        BY <2>3 DEF Typed
    <2> QED
        BY <1>2, <1>3, <2>1, <2>3, <2>4, <2>5, <2>6
        DEF Typed, TypeOK, countVars, historyVars, PCs
<1> QED
    BY <1>4, <1>5

LEMMA AbortRunTyped ==
    ASSUME Typed, AbortRun
    PROVE  /\ handler' = (IF handler = "backoff" THEN "cancelled" ELSE handler)
           /\ signal' \in BOOLEAN /\ promise' \in BOOLEAN /\ pc' \in [Callers -> PCs]
           /\ \A p \in Callers : (pc'[p] = "compacting") = (pc[p] = "compacting")
           /\ runner # None => pc'[runner] = "running"
<1>1. ResolveRetry(pc) /\ handler' = (IF handler = "backoff" THEN "cancelled" ELSE handler)
      /\ signal' = (phase # "idle")
    BY DEF AbortRun
<1> QED
    BY <1>1, ResolveRetryTyped

LEMMA AbortTyped ==
    ASSUME Typed, Abort
    PROVE  Typed'
<1>1. AbortRun
    BY DEF Abort
<1> QED
    BY <1>1, AbortRunTyped DEF Abort, Typed, TypeOK, compVars, historyVars, PCs

LEMMA AbortCompactionTyped ==
    ASSUME Typed, AbortCompaction
    PROVE  Typed'
<1>1. \A c \in Comps : c.stage # "none" =>
          /\ [c EXCEPT !.aborted = TRUE] \in Comps
          /\ [c EXCEPT !.aborted = TRUE].stage = c.stage
          /\ [c EXCEPT !.aborted = TRUE].kept = c.kept
    <2> DEFINE R == [stage : {"abort", "key", "summary", "saved"}, reason : Reasons,
                     aborted : BOOLEAN, kept : Nat]
    <2>1. \A c \in Comps : c.stage # "none" => c \in R
        BY DEF Comps, NoComp, Reasons
    <2>2. \A r \in R : /\ [r EXCEPT !.aborted = TRUE] \in R
                       /\ [r EXCEPT !.aborted = TRUE].stage = r.stage
                       /\ [r EXCEPT !.aborted = TRUE].kept = r.kept
        OBVIOUS
    <2>3. R \subseteq Comps
        BY DEF Comps, Reasons
    <2> HIDE DEF R
    <2> QED
        BY <2>1, <2>2, <2>3
<1>2. comp' = [t \in Threads |->
                  IF comp[t].stage # "none" /\ t \in {controller, Manual}
                  THEN [comp[t] EXCEPT !.aborted = TRUE] ELSE comp[t]]
    BY DEF AbortCompaction
<1>3. comp \in [Threads -> Comps]
    BY DEF Typed, TypeOK
<1>4. /\ comp' \in [Threads -> Comps]
      /\ \A t \in Threads : comp'[t].stage = comp[t].stage /\ comp'[t].kept = comp[t].kept
    BY <1>1, <1>2, <1>3
<1>5. UNCHANGED <<agentVars, events, handler, retryVars, controller, timers, clientVars, session,
                  clock, manuals, epoch, historyVars>>
    BY DEF AbortCompaction
<1>6. /\ comp'[Chain].stage = comp[Chain].stage
      /\ \A p \in Callers : comp'[p].stage = comp[p].stage
      /\ \A t \in Threads : comp'[t].stage \in {"summary", "saved"} => comp'[t].kept # 0
    BY <1>4, ThreadKinds DEF Typed
<1> QED
    BY <1>4, <1>5, <1>6 DEF Typed, TypeOK, agentVars, retryVars, clientVars, historyVars

LEMMA CompactCalledTyped ==
    ASSUME Typed, CompactCalled
    PROVE  Typed'
<1> DEFINE c == [stage |-> "abort", reason |-> "manual", aborted |-> FALSE, kept |-> 0]
<1>1. AbortRun /\ CompIs(Manual, c)
    BY DEF CompactCalled, CompIs
<1>2. c \in Comps /\ c.stage = "abort"
    BY StartedType DEF Reasons
<1> HIDE DEF c
<1>3. /\ comp' \in [Threads -> Comps] /\ comp'[Manual] = c
      /\ \A u \in Threads : u # Manual => comp'[u] = comp[u]
    BY <1>1, <1>2, ThreadKinds, CompIsTyped
<1>4. comp'[Chain] = comp[Chain] /\ \A p \in Callers : comp'[p] = comp[p]
    BY <1>3, ThreadKinds
<1>5. \A t \in Threads : comp'[t].stage \in {"summary", "saved"} => comp'[t].kept # 0
    BY <1>2, <1>3 DEF Typed
<1>6. connected' = FALSE
      /\ UNCHANGED <<phase, reply, runner, context, queue, events, last, attempt, recovered,
                      controller, timers, switching, session, clock, aborts, epoch, historyVars>>
    BY DEF CompactCalled
<1>7. /\ handler' = (IF handler = "backoff" THEN "cancelled" ELSE handler)
      /\ signal' \in BOOLEAN /\ promise' \in BOOLEAN /\ pc' \in [Callers -> PCs]
      /\ \A p \in Callers : (pc'[p] = "compacting") = (pc[p] = "compacting")
      /\ runner # None => pc'[runner] = "running"
    BY <1>1, AbortRunTyped
<1>8. /\ handler' \in {"idle", "backoff", "cancelled", "compacting"}
      /\ (handler' = "compacting") = (comp'[Chain].stage # "none")
      /\ \A p \in Callers : (pc'[p] = "compacting") = (comp'[p].stage # "none")
    BY <1>4, <1>7 DEF Typed, TypeOK
<1> QED
    BY <1>3, <1>5, <1>6, <1>7, <1>8 DEF Typed, TypeOK, historyVars, PCs

LEMMA CompactBeginsTyped ==
    ASSUME Typed, CompactBegins
    PROVE  Typed'
<1>1. /\ Manual \in Threads /\ comp[Manual].stage # "none"
      /\ comp' = [comp EXCEPT ![Manual].stage = "key"]
    BY ThreadKinds DEF CompactBegins
<1>2. /\ comp' \in [Threads -> Comps]
      /\ \A u \in Threads : (comp'[u].stage # "none") = (comp[u].stage # "none")
      /\ \A u \in Threads : comp'[u].stage \in {"summary", "saved"} => comp'[u].kept # 0
    BY <1>1, StageTyped
<1>3. /\ (comp'[Chain].stage # "none") = (comp[Chain].stage # "none")
      /\ \A p \in Callers : (comp'[p].stage # "none") = (comp[p].stage # "none")
    BY <1>2, ThreadKinds
<1>4. UNCHANGED <<agentVars, events, handler, retryVars, controller, timers, clientVars, session,
                  clock, countVars, historyVars>>
    BY DEF CompactBegins
<1>5. /\ (handler' = "compacting") = (comp'[Chain].stage # "none")
      /\ \A p \in Callers : (pc'[p] = "compacting") = (comp'[p].stage # "none")
    BY <1>3, <1>4 DEF Typed, TypeOK, clientVars
<1> QED
    BY <1>2, <1>4, <1>5
    DEF Typed, TypeOK, agentVars, retryVars, clientVars, countVars, historyVars

LEMMA NewSessionCalledTyped ==
    ASSUME Typed, NewSessionCalled
    PROVE  Typed'
<1>1. AbortRun /\ epoch < MaxSessions
    BY DEF NewSessionCalled
<1>2. /\ handler' = (IF handler = "backoff" THEN "cancelled" ELSE handler)
      /\ signal' \in BOOLEAN /\ promise' \in BOOLEAN /\ pc' \in [Callers -> PCs]
      /\ \A p \in Callers : (pc'[p] = "compacting") = (pc[p] = "compacting")
      /\ runner # None => pc'[runner] = "running"
    BY <1>1, AbortRunTyped
<1>3. /\ handler' \in {"idle", "backoff", "cancelled", "compacting"}
      /\ (handler' = "compacting") = (comp[Chain].stage # "none")
      /\ \A p \in Callers : (pc'[p] = "compacting") = (comp[p].stage # "none")
    BY <1>2 DEF Typed, TypeOK
<1>4. switching' = TRUE /\ connected' = FALSE
      /\ UNCHANGED <<phase, reply, runner, context, queue, events, last, attempt, recovered,
                      compVars, session, clock, countVars, historyVars>>
    BY DEF NewSessionCalled
<1> QED
    BY <1>1, <1>2, <1>3, <1>4 DEF Typed, TypeOK, compVars, countVars, historyVars, PCs

LEMMA NewSessionStartsTyped ==
    ASSUME Typed, NewSessionStarts
    PROVE  Typed'
<1>1. epoch' \in 1..MaxSessions /\ queue' \in 0..MaxQueued
    BY AgentSessionAssumption DEF NewSessionStarts, Typed
<1>2. context' \in Seq(ContextMessages) /\ session' \in Seq(SessionEntries)
    BY DEF NewSessionStarts
<1>3. /\ switching' = FALSE /\ connected' = TRUE
      /\ UNCHANGED <<phase, reply, runner, signal, events, handler, retryVars, compVars, pc,
                     clock, historyVars>>
    BY DEF NewSessionStarts
<1> QED
    BY <1>1, <1>2, <1>3
    DEF Typed, TypeOK, retryVars, compVars, historyVars

LEMMA InitTyped == Init => Typed
<1> SUFFICES ASSUME Init PROVE Typed
    OBVIOUS
<1>1. /\ 0 \in 0..MaxQueued /\ 0 \in 0..MaxRetries /\ 1 \in 1..MaxSessions
      /\ MaxSessions \in Nat \ {0}
    BY AgentSessionAssumption
<1>2. NoComp \in Comps /\ NoComp.stage = "none"
    BY DEF Comps, NoComp
<1>3. <<>> \in Seq(ContextMessages) /\ <<>> \in Seq(SessionEntries) /\ <<>> \in Seq(Events)
    OBVIOUS
<1>4. /\ comp \in [Threads -> Comps] /\ \A t \in Threads : comp[t].stage = "none"
      /\ pc \in [Callers -> PCs] /\ \A p \in Callers : pc[p] = "idle"
    BY <1>2 DEF Init, PCs
<1>5. /\ (handler = "compacting") = (comp[Chain].stage # "none")
      /\ \A p \in Callers : (pc[p] = "compacting") = (comp[p].stage # "none")
      /\ \A t \in Threads : comp[t].stage \in {"summary", "saved"} => comp[t].kept # 0
    BY <1>4, ThreadKinds DEF Init
<1>6. TypeOK
    BY <1>1, <1>3, <1>4, <1>5 DEF Init, TypeOK, PCs
<1>7. /\ clock = 1 /\ epoch = 1 /\ ~switching
      /\ {stranded, crossed} \subseteq BOOLEAN
    BY DEF Init
<1>8. /\ events \in Seq(Events) /\ last \in Answers \cup {NoMsg}
      /\ reply \in Answers \cup {NoMsg} /\ phase # "answered" /\ reply = NoMsg
    BY <1>3 DEF Init
<1> QED
    BY <1>1, <1>5, <1>6, <1>7, <1>8 DEF Typed

\* One action after another.
LEMMA NextTyped == Typed /\ [Next]_vars => Typed'
<1> SUFFICES ASSUME Typed, [Next]_vars PROVE Typed'
    OBVIOUS
<1>1. CASE UNCHANGED vars
    BY <1>1 DEF vars, Typed, TypeOK, agentVars, retryVars, compVars, clientVars, countVars,
                historyVars
<1>2. CASE AgentStep
    BY <1>2, AnswerArrivesTyped, NextTurnTyped, RunEndsTyped DEF AgentStep
<1>3. CASE ChainStep
    BY <1>3, ProcessMessageTyped, ProcessEndTyped, RetryBeginsTyped, RetryGivesUpTyped,
       BackoffEndsTyped, BackoffAbortedTyped, ProcessCompactsTyped DEF ChainStep
<1>4. CASE \E t \in Threads : CompactionStep(t)
    BY <1>4, CompactionPreparedTyped, CompactionFailsTyped, CompactionSavedTyped,
       CompactionDoneTyped DEF CompactionStep
<1>5. CASE \E p \in Callers : PromptQueues(p) \/ PromptCalled(p) \/ PromptStep(p)
    BY <1>5, PromptQueuesTyped, PromptCalledTyped, PromptChecksTyped, PromptThrowsTyped,
       PromptRunsTyped, PromptAwaitsRetryTyped DEF PromptStep
<1> QED
    BY <1>1, <1>2, <1>3, <1>4, <1>5, TimerFiresTyped, AbortTyped, AbortCompactionTyped,
       CompactCalledTyped, CompactBeginsTyped, NewSessionCalledTyped, NewSessionStartsTyped
    DEF Next

(* Every field has a value of its kind, whoever calls and however patient. *)
THEOREM SessionTypes == Spec => []TypeOK
<1>1. Spec => []Typed
    BY InitTyped, NextTyped, PTL DEF Spec
<1>2. Typed => TypeOK
    BY DEF Typed
<1> QED
    BY <1>1, <1>2, PTL

-----------------------------------------------------------------------------
(* Who runs beside whom, when the front end is patient.                    *)

Away(p) == pc[p] \in {"idle", "done"}
Calm == phase = "idle" /\ events = <<>> /\ handler = "idle" /\ timers = 0
Compacts(t) == comp[t].stage # "none"

\* One prompt() at a time, and none beside compact().
OnePrompt ==
    \A p \in Callers : ~Away(p) => /\ \A q \in Callers : q # p => Away(q)
                                   /\ ~Compacts(Manual)

\* It finds the session calm; only a timer of its own compaction can change that.
PromptCalm == \A p \in Callers : pc[p] \in {"key", "compacting"} => Calm
BeforeCalm == \A p \in Callers : pc[p] = "before" => crossed \/ Calm

ManualAlone ==
    Compacts(Manual) => /\ Calm /\ ~switching /\ ~connected
                        /\ \A p \in Callers : Away(p)

\* newSession() has cut the agent off before it waits.
SwitchApart ==
    switching => /\ ~connected /\ events = <<>> /\ handler = "idle"
                 /\ ~Compacts(Manual) /\ (crossed \/ timers = 0)

Subscribed == connected \/ switching \/ Compacts(Manual)

Order == OnePrompt /\ PromptCalm /\ BeforeCalm /\ ManualAlone /\ SwitchApart /\ Subscribed

\* Where the prompts are and who compacts does not change.
SamePlaces ==
    /\ \A p \in Callers : pc'[p] = pc[p]
    /\ Compacts(Manual)' = Compacts(Manual)

\* The agent at work chains events while it is heard.
Works ==
    /\ ~Calm
    /\ connected' = connected /\ switching' = switching /\ handler' = handler
    /\ crossed' = crossed /\ (connected \/ events' = events)
    /\ timers' = timers \/ timers # 0
    /\ \A p \in Callers : pc'[p] = pc[p] \/ (pc[p] = "running" /\ pc'[p] = "ran")
    /\ comp' = comp

LEMMA WorksOrder ==
    ASSUME Order, Works
    PROVE  Order'
<1>1. ~Calm /\ ~Compacts(Manual) /\ ~Compacts(Manual)'
    BY DEF Order, ManualAlone, Works, Compacts
<1>2. \A p \in Callers : /\ Away(p)' = Away(p)
                         /\ pc'[p] \in {"key", "compacting"} => pc[p] \in {"key", "compacting"}
                         /\ pc'[p] = "before" => pc[p] = "before"
    BY DEF Works, Away
<1>3. OnePrompt'
    BY <1>1, <1>2 DEF Order, OnePrompt
<1>4. PromptCalm' /\ BeforeCalm'
    BY <1>1, <1>2 DEF Order, PromptCalm, BeforeCalm, Works
<1>5. SwitchApart'
    BY <1>1 DEF Order, SwitchApart, Works
<1>6. ManualAlone' /\ Subscribed'
    BY <1>1 DEF Order, ManualAlone, Subscribed, Works
<1> QED
    BY <1>3, <1>4, <1>5, <1>6 DEF Order

\* The chain at work.
Handles ==
    /\ events # <<>> \/ handler # "idle"
    /\ connected' = connected /\ switching' = switching /\ crossed' = crossed
    /\ \A p \in Callers : pc'[p] = pc[p] \/ (pc[p] = "waiting" /\ pc'[p] = "done")
    /\ Compacts(Manual)' = Compacts(Manual)

LEMMA HandlesOrder ==
    ASSUME Order, Handles
    PROVE  Order'
<1>1. ~Calm /\ ~switching /\ ~Compacts(Manual) /\ ~Compacts(Manual)'
    BY DEF Order, ManualAlone, SwitchApart, Handles, Calm
<1>2. \A p \in Callers : /\ Away(p) => Away(p)'
                         /\ ~Away(p)' => ~Away(p)
                         /\ pc'[p] \in {"key", "compacting"} => pc[p] \in {"key", "compacting"}
                         /\ pc'[p] = "before" => pc[p] = "before"
    BY DEF Handles, Away
<1>3. OnePrompt'
    BY <1>1, <1>2 DEF Order, OnePrompt
<1>4. PromptCalm' /\ BeforeCalm'
    BY <1>1, <1>2 DEF Order, PromptCalm, BeforeCalm, Handles
<1>5. SwitchApart' /\ ManualAlone' /\ Subscribed'
    BY <1>1 DEF Order, SwitchApart, ManualAlone, Subscribed, Handles
<1> QED
    BY <1>3, <1>4, <1>5 DEF Order

\* A step beside the agent and the chain: no event, no timer, no new place.
Beside ==
    /\ UNCHANGED <<phase, events, timers, connected, switching, crossed>>
    /\ (handler' = "idle") = (handler = "idle")
    /\ \A p \in Callers : pc'[p] = pc[p] \/ (pc[p] # "compacting" /\ pc'[p] = "done")
    /\ Compacts(Manual)' = Compacts(Manual)

LEMMA BesideOrder ==
    ASSUME Order, Beside
    PROVE  Order'
<1>1. Calm' = Calm /\ Compacts(Manual)' = Compacts(Manual)
    BY DEF Beside, Calm
<1>2. \A p \in Callers : /\ Away(p) => Away(p)'
                         /\ ~Away(p)' => ~Away(p)
                         /\ pc'[p] \in {"key", "compacting"} => pc[p] \in {"key", "compacting"}
                         /\ pc'[p] = "before" => pc[p] = "before"
    BY DEF Beside, Away
<1>3. OnePrompt'
    BY <1>1, <1>2 DEF Order, OnePrompt
<1>4. PromptCalm' /\ BeforeCalm'
    BY <1>1, <1>2 DEF Order, PromptCalm, BeforeCalm, Beside
<1>5. ManualAlone'
    BY <1>1, <1>2 DEF Order, ManualAlone, Beside
<1>6. SwitchApart' /\ Subscribed'
    BY <1>1 DEF Order, SwitchApart, Subscribed, Beside
<1> QED
    BY <1>3, <1>4, <1>5, <1>6 DEF Order

LEMMA AgentWorks ==
    ASSUME Typed, AgentStep
    PROVE  Works
<1>1. ASSUME NEW stop \in Stops, AnswerArrives(stop) PROVE Works
    BY <1>1 DEF AnswerArrives, Works, Calm, Chained, compVars, clientVars, historyVars
<1>2. ASSUME NextTurn PROVE Works
    BY <1>2 DEF NextTurn, Works, Calm, Chained, compVars, clientVars, historyVars
<1>3. ASSUME RunEnds PROVE Works
    <2>1. \A p \in Callers : pc'[p] = pc[p] \/ (pc[p] = "running" /\ pc'[p] = "ran")
        <3>1. \A p \in Callers : p # None
            BY ThreadKinds
        <3>2. \A p \in Callers : pc'[p] = IF p = runner THEN "ran" ELSE pc[p]
            BY <1>3 DEF RunEnds
        <3>3. runner # None => pc[runner] = "running"
            BY DEF Typed, TypeOK
        <3> QED
            BY <3>1, <3>2, <3>3
    <2> QED
        BY <1>3, <2>1 DEF RunEnds, Works, Calm, Chained, compVars
<1> QED
    BY <1>1, <1>2, <1>3 DEF AgentStep

LEMMA TimerWorks ==
    ASSUME Typed, TimerFires
    PROVE  Works
<1>1. timers # 0
    BY DEF TimerFires
<1>2. connected \/ events' = events
    BY DEF TimerFires, BeginRun, Chained
<1> QED
    BY <1>1, <1>2 DEF TimerFires, Works, Calm, clientVars

LEMMA RetryResolved ==
    ASSUME ResolveRetry(pc)
    PROVE  \A p \in Callers : pc'[p] = pc[p] \/ (pc[p] = "waiting" /\ pc'[p] = "done")
BY DEF ResolveRetry

LEMMA ChainHandles ==
    ASSUME Typed, ChainStep
    PROVE  Handles
<1>1. ASSUME ProcessMessage PROVE Handles
    <2>1. \A p \in Callers : pc'[p] = pc[p] \/ (pc[p] = "waiting" /\ pc'[p] = "done")
        BY <1>1, RetryResolved DEF ProcessMessage
    <2> QED
        BY <1>1, <2>1 DEF ProcessMessage, Take, Handles, Compacts, compVars, historyVars
<1>2. ASSUME ProcessEnd PROVE Handles
    BY <1>2 DEF ProcessEnd, Take, Handles, Compacts, compVars, clientVars, historyVars
<1>3. ASSUME RetryBegins PROVE Handles
    BY <1>3 DEF RetryBegins, Take, Handles, Compacts, compVars, clientVars, historyVars
<1>4. ASSUME RetryGivesUp PROVE Handles
    <2>1. \A p \in Callers : pc'[p] = pc[p] \/ (pc[p] = "waiting" /\ pc'[p] = "done")
        BY <1>4, RetryResolved DEF RetryGivesUp
    <2> QED
        BY <1>4, <2>1 DEF RetryGivesUp, Take, Handles, Compacts, compVars, historyVars
<1>5. ASSUME BackoffEnds PROVE Handles
    BY <1>5 DEF BackoffEnds, Handles, Compacts, clientVars, historyVars
<1>6. ASSUME BackoffAborted PROVE Handles
    <2>1. \A p \in Callers : pc'[p] = pc[p] \/ (pc[p] = "waiting" /\ pc'[p] = "done")
        BY <1>6, RetryResolved DEF BackoffAborted
    <2> QED
        BY <1>6, <2>1 DEF BackoffAborted, Handles, Compacts, compVars, historyVars
<1>7. ASSUME ProcessCompacts PROVE Handles
    <2>1. comp'[Manual] = comp[Manual]
        <3>1. PICK r \in Reasons : StartCompaction(Chain, r)
            BY <1>7, Verdicts DEF ProcessCompacts
        <3> QED
            BY <3>1, StartCompactionTyped, ThreadKinds
    <2> QED
        BY <1>7, <2>1 DEF ProcessCompacts, Take, Handles, Compacts, clientVars, historyVars
<1> QED
    BY <1>1, <1>2, <1>3, <1>4, <1>5, <1>6, <1>7 DEF ChainStep

\* What a patient front end waits for.
LEMMA AllowedFacts ==
    ASSUME Patient, Typed, Allowed
    PROVE  /\ Calm /\ connected /\ ~switching
           /\ \A t \in Threads : ~Compacts(t)
           /\ \A p \in Callers : Away(p)
BY NoCompType DEF Allowed, Settled, Calm, Compacts, Away

LEMMA CompactionStepOrder ==
    ASSUME Typed, Order, NEW t \in Threads, CompactionStep(t)
    PROVE  Order'
<1>1. ASSUME CompactionPrepared(t) PROVE Beside
    <2>1. Compacts(Manual)' = Compacts(Manual)
        <3>1. PICK k : comp' = [comp EXCEPT ![t].stage = "summary", ![t].kept = k]
            BY <1>1 DEF CompactionPrepared
        <3>2. comp[t].stage = "key" /\ comp \in [Threads -> Comps]
            BY <1>1 DEF CompactionPrepared, Typed, TypeOK
        <3>3. Manual # t => comp'[Manual] = comp[Manual]
            BY <3>1, <3>2, ThreadKinds
        <3>4. comp'[t].stage # "none"
            <4>1. comp[t] \in [stage : {"abort", "key", "summary", "saved"}, reason : Reasons,
                               aborted : BOOLEAN, kept : Nat]
                BY <3>2 DEF Comps, NoComp, Reasons
            <4>2. comp'[t] = [comp[t] EXCEPT !.stage = "summary", !.kept = k]
                BY <3>1, <3>2
            <4> QED
                BY <4>1, <4>2
        <3> QED
            BY <3>2, <3>3, <3>4 DEF Compacts
    <2> QED
        BY <1>1, <2>1 DEF CompactionPrepared, Beside, agentVars, clientVars, historyVars
<1>2. ASSUME CompactionSaved(t) PROVE Beside
    <2>1. \A u \in Threads : (comp'[u].stage # "none") = (comp[u].stage # "none")
        BY <1>2, StageTyped DEF CompactionSaved, Typed
    <2>2. Compacts(Manual)' = Compacts(Manual)
        BY <2>1, ThreadKinds DEF Compacts
    <2> QED
        BY <1>2, <2>2 DEF CompactionSaved, Beside, clientVars, historyVars
<1>3. ASSUME AfterCompaction(t), comp[t].stage # "none", UNCHANGED <<phase, events, switching>>,
             timers' = timers \/ (t # Manual /\ (crossed' \/ t = Chain)),
             crossed => crossed', crossed' # crossed => t \in Callers
      PROVE  Order'
    <2>0. /\ comp'[t].stage = "none" /\ \A u \in Threads : u # t => comp'[u] = comp[u]
          /\ handler' = (IF t = Chain THEN "idle" ELSE handler)
          /\ \A p \in Callers : pc'[p] = (IF p = t THEN "before" ELSE pc[p])
          /\ connected' = (connected \/ t = Manual)
        BY <1>3, AfterCompactionTyped, NoCompType DEF AfterCompaction
    <2>1. CASE t = Chain
        <3>1. handler = "compacting" /\ comp'[Manual] = comp[Manual] /\ crossed' = crossed
            BY <1>3, <2>0, <2>1, ThreadKinds DEF Typed, TypeOK
        <3>2. \A p \in Callers : pc'[p] = pc[p]
            BY <2>0, <2>1, ThreadKinds
        <3>3. connected' = connected
            BY <2>0, <2>1, ThreadKinds DEF Typed, TypeOK
        <3>4. Handles
            BY <1>3, <3>1, <3>2, <3>3 DEF Handles, Compacts
        <3> QED
            BY <3>4, HandlesOrder
    <2>2. CASE t = Manual
        <3>1. Calm /\ Calm' /\ ~switching' /\ connected' /\ ~Compacts(Manual)'
            <4>1. Calm /\ ~switching
                BY <1>3, <2>2 DEF Order, ManualAlone, Compacts
            <4> QED
                BY <1>3, <2>0, <2>2, <4>1, ThreadKinds DEF Calm, Compacts
        <3>2. \A p \in Callers : Away(p) /\ pc'[p] = pc[p]
            BY <1>3, <2>0, <2>2, ThreadKinds DEF Order, ManualAlone, Compacts
        <3>3. \A p \in Callers : Away(p)'
            BY <3>2 DEF Away
        <3> QED
            BY <3>1, <3>2, <3>3 DEF Order, OnePrompt, PromptCalm, BeforeCalm, ManualAlone,
               SwitchApart, Subscribed, Away
    <2>3. CASE t \in Callers
        <3>1. pc[t] = "compacting" /\ pc'[t] = "before" /\ Calm
            BY <1>3, <2>0, <2>3 DEF Typed, TypeOK, Order, PromptCalm
        <3>2. /\ \A q \in Callers : q # t => Away(q) /\ pc'[q] = pc[q] /\ Away(q)'
              /\ ~Compacts(Manual) /\ comp'[Manual] = comp[Manual]
              /\ connected' = connected /\ handler' = handler
            <4>1. t # Manual /\ t # Chain
                BY <2>3, ThreadKinds
            <4>2. ~Away(t)
                BY <3>1 DEF Away
            <4>3. connected' = connected
                BY <2>0, <4>1 DEF Typed, TypeOK
            <4> QED
                BY <2>0, <2>3, <4>1, <4>2, <4>3, ThreadKinds DEF Order, OnePrompt, Away
        <3>3. crossed' \/ Calm'
            BY <1>3, <2>3, <3>1, <3>2, ThreadKinds DEF Calm
        <3>4. ~Compacts(Manual)'
            BY <3>2 DEF Compacts
        <3>5. OnePrompt'
            BY <3>2, <3>4 DEF OnePrompt, Away
        <3>6. PromptCalm' /\ BeforeCalm'
            BY <3>1, <3>2, <3>3 DEF PromptCalm, BeforeCalm, Away
        <3>7. SwitchApart'
            BY <1>3, <2>3, <3>1, <3>2, <3>3, <3>4 DEF Order, SwitchApart, Calm
        <3>8. ManualAlone' /\ Subscribed'
            BY <1>3, <3>2, <3>4 DEF Order, ManualAlone, Subscribed
        <3> QED
            BY <3>5, <3>6, <3>7, <3>8 DEF Order
    <2> QED
        BY <2>1, <2>2, <2>3, ThreadKinds
<1>4. ASSUME CompactionFails(t) PROVE Order'
    <2>1. AfterCompaction(t) /\ comp[t].stage # "none" /\ UNCHANGED <<phase, events, switching>>
          /\ timers' = timers /\ crossed' = crossed
        BY <1>4 DEF CompactionFails, agentVars, historyVars
    <2> QED
        BY <1>3, <2>1
<1>5. ASSUME CompactionDone(t) PROVE Order'
    <2>1. AfterCompaction(t) /\ comp[t].stage # "none" /\ UNCHANGED <<phase, events, switching>>
        BY <1>5 DEF CompactionDone
    <2>2. /\ timers' = timers \/ t # Manual
          /\ crossed' = (crossed \/ (t \in Callers /\ timers' # timers))
          /\ crossed \in BOOLEAN
        BY <1>5 DEF CompactionDone, Typed
    <2>3. timers' = timers \/ (t # Manual /\ (crossed' \/ t = Chain))
        BY <2>2, ThreadKinds
    <2> QED
        BY <1>3, <2>1, <2>2, <2>3
<1> QED
    BY <1>1, <1>2, <1>4, <1>5, BesideOrder DEF CompactionStep

LEMMA PromptStarts ==
    ASSUME Patient, Typed, Order, NEW p \in Callers, PromptCalled(p)
    PROVE  Order'
<1>1. /\ Calm /\ connected /\ ~switching /\ ~Compacts(Manual) /\ \A q \in Callers : Away(q)
    BY AllowedFacts, ThreadKinds DEF PromptCalled
<1>2. /\ UNCHANGED <<phase, events, handler, timers, comp, connected, switching, crossed>>
      /\ pc' = [pc EXCEPT ![p] = "key"]
    BY DEF PromptCalled, agentVars, compVars, historyVars
<1>3. pc \in [Callers -> PCs]
    BY DEF Typed, TypeOK, PCs
<1>4. Calm' /\ ~Compacts(Manual)' /\ ~switching' /\ connected'
    BY <1>1, <1>2 DEF Calm, Compacts
<1>5. \A q \in Callers : q # p => Away(q)'
    BY <1>1, <1>2, <1>3 DEF Away
<1> QED
    BY <1>4, <1>5 DEF Order, OnePrompt, PromptCalm, BeforeCalm, ManualAlone, SwitchApart,
       Subscribed

LEMMA PromptChecksOrder ==
    ASSUME Typed, Order, NEW p \in Callers, PromptChecks(p)
    PROVE  Order'
<1>1. pc[p] = "key" /\ pc \in [Callers -> PCs]
    BY DEF PromptChecks, Typed, TypeOK, PCs
<1>2. Calm /\ ~Compacts(Manual) /\ \A q \in Callers : q # p => Away(q)
    BY <1>1 DEF Order, PromptCalm, OnePrompt, Away
<1>3. /\ UNCHANGED <<phase, events, handler, timers, connected, switching, crossed>>
      /\ \/ pc' = [pc EXCEPT ![p] = "before"] /\ comp' = comp
         \/ pc' = [pc EXCEPT ![p] = "compacting"] /\ \E r \in Reasons : StartCompaction(p, r)
    BY Verdicts DEF PromptChecks, historyVars
<1>4. comp'[Manual] = comp[Manual]
    BY <1>3, StartCompactionTyped, ThreadKinds
<1>5. \A q \in Callers : q # p => pc'[q] = pc[q] /\ Away(q)'
    BY <1>1, <1>2, <1>3 DEF Away
<1>6. Calm' /\ ~Compacts(Manual)'
    BY <1>2, <1>3, <1>4 DEF Calm, Compacts
<1>7. OnePrompt' /\ PromptCalm' /\ BeforeCalm' /\ ManualAlone'
    BY <1>5, <1>6 DEF OnePrompt, PromptCalm, BeforeCalm, ManualAlone
<1>8. SwitchApart' /\ Subscribed'
    BY <1>2, <1>3, <1>6 DEF Order, SwitchApart, Subscribed
<1> QED
    BY <1>7, <1>8 DEF Order

LEMMA PromptRunsOrder ==
    ASSUME Typed, Order, NEW p \in Callers, PromptRuns(p)
    PROVE  Order'
<1>1. pc[p] = "before" /\ pc \in [Callers -> PCs] /\ pc' = [pc EXCEPT ![p] = "running"]
    BY DEF PromptRuns, Typed, TypeOK, PCs
<1>2. ~Compacts(Manual) /\ \A q \in Callers : q # p => Away(q)
    BY <1>1 DEF Order, OnePrompt, Away
<1>3. /\ UNCHANGED <<handler, timers, comp, connected, switching, crossed>>
      /\ connected \/ events' = events
    BY DEF PromptRuns, BeginRun, Chained, compVars, historyVars
<1>4. pc'[p] = "running" /\ \A q \in Callers : q # p => pc'[q] = pc[q] /\ Away(q)'
    BY <1>1, <1>2 DEF Away
<1>5. ~Compacts(Manual)'
    BY <1>2, <1>3 DEF Compacts
<1>6. OnePrompt' /\ PromptCalm' /\ BeforeCalm' /\ ManualAlone'
    BY <1>4, <1>5 DEF OnePrompt, PromptCalm, BeforeCalm, ManualAlone, Away
<1>7. SwitchApart' /\ Subscribed'
    BY <1>2, <1>3, <1>5 DEF Order, SwitchApart, Subscribed
<1> QED
    BY <1>6, <1>7 DEF Order

LEMMA PromptBeside ==
    ASSUME Typed, NEW p \in Callers, PromptQueues(p) \/ PromptThrows(p)
    PROVE  Beside
<1>1. pc[p] # "compacting" /\ pc' = [pc EXCEPT ![p] = "done"] /\ pc \in [Callers -> PCs]
    BY AgentSessionAssumption DEF PromptQueues, IsNext, PromptThrows, Typed, TypeOK, PCs
<1>2. \A q \in Callers : pc'[q] = pc[q] \/ (pc[q] # "compacting" /\ pc'[q] = "done")
    BY <1>1
<1> QED
    BY <1>2 DEF PromptQueues, PromptThrows, Beside, Compacts, compVars, agentVars, historyVars

LEMMA AwaitsOrder ==
    ASSUME Typed, Order, NEW p \in Callers, PromptAwaitsRetry(p)
    PROVE  Order'
<1>1. /\ pc[p] = "ran" /\ pc \in [Callers -> PCs]
      /\ pc' = [pc EXCEPT ![p] = IF promise THEN "waiting" ELSE "done"]
      /\ UNCHANGED <<phase, events, handler, timers, comp, connected, switching, crossed>>
    BY DEF PromptAwaitsRetry, agentVars, compVars, historyVars, Typed, TypeOK, PCs
<1>2. /\ \A q \in Callers : q # p => pc'[q] = pc[q] /\ Away(q)' = Away(q)
      /\ pc'[p] \in {"waiting", "done"} /\ ~Away(p)
    BY <1>1 DEF Away
<1>3. Calm' = Calm /\ Compacts(Manual)' = Compacts(Manual)
    BY <1>1 DEF Calm, Compacts
<1>4. OnePrompt'
    BY <1>1, <1>2, <1>3 DEF Order, OnePrompt, Away
<1>5. PromptCalm' /\ BeforeCalm'
    BY <1>1, <1>2, <1>3 DEF Order, PromptCalm, BeforeCalm
<1>6. ManualAlone'
    BY <1>1, <1>2, <1>3 DEF Order, ManualAlone
<1>7. SwitchApart' /\ Subscribed'
    BY <1>1, <1>3 DEF Order, SwitchApart, Subscribed
<1> QED
    BY <1>4, <1>5, <1>6, <1>7 DEF Order

LEMMA AbortBeside ==
    ASSUME Typed, Abort \/ AbortCompaction \/ CompactBegins
    PROVE  Beside
<1>1. ASSUME Abort PROVE Beside
    <2>1. /\ \A q \in Callers : pc'[q] = pc[q] \/ (pc[q] # "compacting" /\ pc'[q] = "done")
          /\ (handler' = "idle") = (handler = "idle")
        BY <1>1, RetryResolved DEF Abort, AbortRun
    <2> QED
        BY <1>1, <2>1 DEF Abort, Beside, Compacts, compVars, historyVars
<1>2. ASSUME AbortCompaction PROVE Beside
    <2>1. comp'[Manual].stage = comp[Manual].stage
        <3>1. comp'[Manual] = comp[Manual] \/ comp'[Manual] = [comp[Manual] EXCEPT !.aborted = TRUE]
            BY <1>2, ThreadKinds DEF AbortCompaction
        <3>2. comp[Manual] \in Comps
            BY ThreadKinds DEF Typed, TypeOK
        <3> QED
            BY <3>1, <3>2 DEF Comps, NoComp
    <2> QED
        BY <1>2, <2>1 DEF AbortCompaction, Beside, Compacts, clientVars, agentVars, historyVars
<1>3. ASSUME CompactBegins PROVE Beside
    <2>1. /\ Manual \in Threads /\ comp[Manual].stage # "none"
          /\ comp' = [comp EXCEPT ![Manual].stage = "key"]
        BY <1>3, ThreadKinds DEF CompactBegins
    <2>2. comp'[Manual].stage = "key"
        BY <2>1, StageTyped
    <2> QED
        BY <1>3, <2>1, <2>2 DEF CompactBegins, Beside, Compacts, clientVars, agentVars, historyVars
<1> QED
    BY <1>1, <1>2, <1>3

LEMMA CompactCalledOrder ==
    ASSUME Patient, Typed, Order, CompactCalled
    PROVE  Order'
<1>1. Calm /\ ~switching /\ \A q \in Callers : Away(q)
    BY AllowedFacts DEF CompactCalled
<1>2. /\ UNCHANGED <<phase, events, timers, switching, crossed>> /\ connected' = FALSE
      /\ handler' = (IF handler = "backoff" THEN "cancelled" ELSE handler)
      /\ \A q \in Callers : pc'[q] = pc[q] \/ (pc[q] = "waiting" /\ pc'[q] = "done")
    BY RetryResolved DEF CompactCalled, AbortRun, historyVars
<1>3. comp'[Manual].stage = "abort"
    BY ThreadKinds DEF CompactCalled, Typed, TypeOK
<1>4. Calm' /\ ~switching' /\ Compacts(Manual)' /\ \A q \in Callers : Away(q)'
    BY <1>1, <1>2, <1>3 DEF Calm, Compacts, Away
<1> QED
    BY <1>2, <1>4 DEF Order, OnePrompt, PromptCalm, BeforeCalm, ManualAlone, SwitchApart,
       Subscribed

LEMMA NewSessionCalledOrder ==
    ASSUME Patient, Typed, Order, NewSessionCalled
    PROVE  Order'
<1>1. events = <<>> /\ handler = "idle" /\ timers = 0 /\ ~Compacts(Manual)
    BY ThreadKinds, NoCompType DEF NewSessionCalled, Settled, Compacts
<1>2. /\ UNCHANGED <<phase, events, timers, comp, crossed>>
      /\ connected' = FALSE /\ switching' = TRUE
      /\ handler' = (IF handler = "backoff" THEN "cancelled" ELSE handler)
      /\ \A q \in Callers : pc'[q] = pc[q] \/ (pc[q] = "waiting" /\ pc'[q] = "done")
    BY RetryResolved DEF NewSessionCalled, AbortRun, compVars, historyVars
<1>3. /\ \A p \in Callers : /\ Away(p) => Away(p)'
                            /\ ~Away(p)' => ~Away(p)
                            /\ pc'[p] \in {"key", "compacting"} => pc[p] \in {"key", "compacting"}
                            /\ pc'[p] = "before" => pc[p] = "before"
      /\ Calm' = Calm /\ ~Compacts(Manual)' /\ crossed' = crossed
    BY <1>1, <1>2 DEF Away, Calm, Compacts
<1>4. OnePrompt' /\ PromptCalm' /\ BeforeCalm'
    BY <1>3 DEF Order, OnePrompt, PromptCalm, BeforeCalm
<1>5. ManualAlone' /\ SwitchApart' /\ Subscribed'
    BY <1>1, <1>2, <1>3 DEF ManualAlone, SwitchApart, Subscribed
<1> QED
    BY <1>4, <1>5 DEF Order

LEMMA NewSessionStartsOrder ==
    ASSUME Order, NewSessionStarts
    PROVE  Order'
<1>1. /\ UNCHANGED <<phase, events, handler, timers, comp, pc, crossed>>
      /\ connected' = TRUE /\ switching' = FALSE /\ ~Compacts(Manual)
    BY DEF NewSessionStarts, compVars, historyVars, Order, SwitchApart
<1>2. /\ \A p \in Callers : Away(p)' = Away(p)
      /\ Calm' = Calm /\ ~Compacts(Manual)'
    BY <1>1 DEF Away, Calm, Compacts
<1>3. OnePrompt' /\ PromptCalm' /\ BeforeCalm'
    BY <1>1, <1>2 DEF Order, OnePrompt, PromptCalm, BeforeCalm
<1> QED
    BY <1>1, <1>2, <1>3 DEF Order, ManualAlone, SwitchApart, Subscribed

LEMMA InitOrder == Init => Order
<1> SUFFICES ASSUME Init PROVE Order
    OBVIOUS
<1>1. /\ \A p \in Callers : pc[p] = "idle"
      /\ ~Compacts(Manual) /\ connected /\ ~switching
    BY ThreadKinds, NoCompType DEF Init, Compacts
<1> QED
    BY <1>1 DEF Order, OnePrompt, PromptCalm, BeforeCalm, ManualAlone, SwitchApart, Subscribed, Away

LEMMA NextOrder == Patient /\ Typed /\ Order /\ [Next]_vars => Order'
<1> SUFFICES ASSUME Patient, Typed, Order, [Next]_vars PROVE Order'
    OBVIOUS
<1>1. CASE UNCHANGED vars
    <2>1. Beside
        BY <1>1 DEF vars, Beside, Compacts, agentVars, compVars, clientVars, historyVars
    <2> QED
        BY <2>1, BesideOrder
<1>2. CASE AgentStep
    BY <1>2, AgentWorks, WorksOrder
<1>3. CASE ChainStep
    BY <1>3, ChainHandles, HandlesOrder
<1>4. CASE \E t \in Threads : CompactionStep(t)
    BY <1>4, CompactionStepOrder
<1>5. CASE \E p \in Callers : PromptQueues(p) \/ PromptCalled(p) \/ PromptStep(p)
    BY <1>5, PromptBeside, BesideOrder, PromptStarts, PromptChecksOrder, PromptRunsOrder,
       AwaitsOrder DEF PromptStep
<1>6. CASE TimerFires
    BY <1>6, TimerWorks, WorksOrder
<1>7. CASE Abort \/ AbortCompaction \/ CompactBegins
    BY <1>7, AbortBeside, BesideOrder
<1> QED
    BY <1>1, <1>2, <1>3, <1>4, <1>5, <1>6, <1>7, CompactCalledOrder, NewSessionCalledOrder,
       NewSessionStartsOrder DEF Next

-----------------------------------------------------------------------------
(* What enters the session.                                                *)

InEpoch(e) == e = AgentEnd \/ e.epoch = epoch
OneEpoch ==
    /\ \A i \in DOMAIN session : session[i].epoch = epoch
    /\ \A i \in DOMAIN events : InEpoch(events[i])

\* An event is chained, or the chain drops one.
Hears ==
    /\ session' = session /\ epoch' = epoch
    /\ \/ events' = events
       \/ \E e \in Events : InEpoch(e) /\ events' = Append(events, e)
       \/ events # <<>> /\ events' = Tail(events)
\* The first event becomes an entry.
Enters ==
    /\ epoch' = epoch /\ events # <<>> /\ events' = Tail(events)
    /\ Head(events) # AgentEnd /\ Head(events) \in SessionEntries
    /\ session' = Append(session, Head(events))
\* A compaction adds its entry.
Saves ==
    /\ epoch' = epoch /\ events' = events
    /\ \E e \in Compactions : e.epoch = epoch /\ session' = Append(session, e)
\* A new session.
Restarts == session' = <<>> /\ events' = <<>>

LEMMA OneEpochKept ==
    ASSUME Typed, OneEpoch, Hears \/ Enters \/ Saves \/ Restarts
    PROVE  OneEpoch'
<1>0. events \in Seq(Events) /\ session \in Seq(SessionEntries)
    BY DEF Typed, TypeOK
<1>1. CASE Hears
    <2>1. (\A i \in DOMAIN session : session[i].epoch = epoch)'
        BY <1>1 DEF Hears, OneEpoch
    <2>2. CASE events' = events
        BY <1>1, <2>1, <2>2 DEF Hears, OneEpoch, InEpoch
    <2>3. ASSUME NEW e \in Events, InEpoch(e), events' = Append(events, e)
          PROVE  OneEpoch'
        <3>1. \A i \in DOMAIN events' : events'[i] = e \/ (i \in DOMAIN events /\ events'[i] = events[i])
            BY <1>0, <2>3, AppendFacts
        <3> QED
            BY <1>1, <2>1, <2>3, <3>1 DEF Hears, OneEpoch, InEpoch
    <2>4. CASE events # <<>> /\ events' = Tail(events)
        <3>1. \A i \in DOMAIN events' : i + 1 \in DOMAIN events /\ events'[i] = events[i + 1]
            BY <1>0, <2>4
        <3> QED
            BY <1>1, <2>1, <2>4, <3>1 DEF Hears, OneEpoch, InEpoch
    <2> QED
        BY <1>1, <2>2, <2>3, <2>4 DEF Hears
<1>2. CASE Enters
    <2>1. \A i \in DOMAIN events' : i + 1 \in DOMAIN events /\ events'[i] = events[i + 1]
        BY <1>0, <1>2 DEF Enters
    <2>2. Head(events) = events[1] /\ 1 \in DOMAIN events
        BY <1>0, <1>2 DEF Enters
    <2>3. Head(events).epoch = epoch
        BY <1>2, <2>2 DEF Enters, OneEpoch, InEpoch
    <2>4. \A i \in DOMAIN session' :
              session'[i] = Head(events) \/ (i \in DOMAIN session /\ session'[i] = session[i])
        BY <1>0, <1>2, AppendFacts DEF Enters
    <2> QED
        BY <1>2, <2>1, <2>3, <2>4 DEF Enters, OneEpoch, InEpoch
<1>3. CASE Saves
    <2>1. PICK e \in Compactions : e.epoch = epoch /\ session' = Append(session, e)
        BY <1>3 DEF Saves
    <2>2. e \in SessionEntries
        BY DEF SessionEntries
    <2>3. \A i \in DOMAIN session' :
              session'[i] = e \/ (i \in DOMAIN session /\ session'[i] = session[i])
        BY <1>0, <2>1, <2>2, AppendFacts
    <2> QED
        BY <1>3, <2>1, <2>3 DEF Saves, OneEpoch, InEpoch
<1>4. CASE Restarts
    BY <1>4 DEF Restarts, OneEpoch
<1> QED
    BY <1>1, <1>2, <1>3, <1>4

LEMMA ChainedHears ==
    ASSUME session' = session, epoch' = epoch, events \in Seq(Events),
           NEW m \in Events, InEpoch(m), Chained(<<m>>)
    PROVE  Hears
<1>1. events \o <<m>> = Append(events, m)
    OBVIOUS
<1> QED
    BY <1>1 DEF Chained, Hears

LEMMA MessagesInEpoch ==
    ASSUME Typed, NEW t \in Nat
    PROVE  /\ UserMsg(t) \in Events /\ InEpoch(UserMsg(t))
           /\ \A stop \in Stops : Answer(t, stop) \in Events /\ InEpoch(Answer(t, stop))
           /\ AgentEnd \in Events /\ InEpoch(AgentEnd)
<1>1. epoch \in 1..MaxSessions
    BY DEF Typed
<1> QED
    BY <1>1, UserType, AnswerType DEF Events, InEpoch, UserMsg, Answer

LEMMA AgentHears ==
    ASSUME Typed, AgentStep
    PROVE  Hears
<1>0. events \in Seq(Events) /\ clock - 1 \in Nat /\ clock \in Nat
    BY DEF Typed
<1>1. ASSUME NEW stop \in Stops, AnswerArrives(stop) PROVE Hears
    <2>1. Chained(<<Answer(clock - 1, stop)>>) /\ session' = session /\ epoch' = epoch
        BY <1>1 DEF AnswerArrives, countVars
    <2>2. Answer(clock - 1, stop) \in Events /\ InEpoch(Answer(clock - 1, stop))
        BY <1>0, MessagesInEpoch
    <2> HIDE DEF Answer
    <2> QED
        BY <1>0, <2>1, <2>2, ChainedHears
<1>2. ASSUME NextTurn PROVE Hears
    <2>1. Chained(<<UserMsg(clock)>>) /\ session' = session /\ epoch' = epoch
        BY <1>2 DEF NextTurn, countVars
    <2>2. UserMsg(clock) \in Events /\ InEpoch(UserMsg(clock))
        BY <1>0, MessagesInEpoch
    <2> QED
        BY <1>0, <2>1, <2>2, ChainedHears
<1>3. ASSUME RunEnds PROVE Hears
    <2>1. Chained(<<AgentEnd>>) /\ session' = session /\ epoch' = epoch
        BY <1>3 DEF RunEnds, countVars
    <2>2. AgentEnd \in Events /\ InEpoch(AgentEnd)
        BY <1>0, MessagesInEpoch
    <2> QED
        BY <1>0, <2>1, <2>2, ChainedHears
<1> QED
    BY <1>1, <1>2, <1>3 DEF AgentStep

LEMMA TimerHears ==
    ASSUME Typed, TimerFires
    PROVE  Hears
<1>0. events \in Seq(Events) /\ clock \in Nat
    BY DEF Typed
<1>1. session' = session /\ epoch' = epoch
    BY DEF TimerFires, countVars
<1>2. \/ Chained(<<>>) \/ Chained(<<UserMsg(clock)>>) \/ events' = events
    BY DEF TimerFires, BeginRun
<1>3. CASE Chained(<<>>)
    <2>1. events \o <<>> = events
        BY <1>0
    <2> QED
        BY <1>1, <1>3, <2>1 DEF Chained, Hears
<1>4. CASE Chained(<<UserMsg(clock)>>)
    BY <1>0, <1>1, <1>4, MessagesInEpoch, ChainedHears
<1> QED
    BY <1>1, <1>2, <1>3, <1>4 DEF Hears

LEMMA PromptRunsHears ==
    ASSUME Typed, NEW p \in Callers, PromptRuns(p)
    PROVE  Hears
<1>0. events \in Seq(Events) /\ clock \in Nat
    BY DEF Typed
<1>1. session' = session /\ epoch' = epoch /\ Chained(<<UserMsg(clock)>>)
    BY DEF PromptRuns, BeginRun, countVars
<1> QED
    BY <1>0, <1>1, MessagesInEpoch, ChainedHears

LEMMA ChainEnters ==
    ASSUME Typed, ChainStep
    PROVE  Hears \/ Enters
<1>1. ASSUME ProcessMessage PROVE Enters
    <2>1. Take /\ Head(events).role \in {"user", "assistant"} /\ epoch' = epoch
          /\ session' = Append(session, Head(events))
        BY <1>1 DEF ProcessMessage, countVars
    <2>2. Head(events) \in Events /\ events # <<>> /\ events' = Tail(events)
        BY <2>1, TakeTyped
    <2>3. Head(events) # AgentEnd
        BY <2>1 DEF AgentEnd
    <2> QED
        BY <2>1, <2>2, <2>3 DEF Enters, Events, SessionEntries
<1>2. ASSUME ProcessEnd \/ RetryBegins \/ RetryGivesUp \/ ProcessCompacts PROVE Hears
    BY <1>2 DEF ProcessEnd, RetryBegins, RetryGivesUp, ProcessCompacts, Take, Hears, countVars
<1>3. ASSUME BackoffEnds \/ BackoffAborted PROVE Hears
    BY <1>3 DEF BackoffEnds, BackoffAborted, Hears, countVars
<1> QED
    BY <1>1, <1>2, <1>3 DEF ChainStep

LEMMA CompactionSaves ==
    ASSUME Typed, NEW t \in Threads, CompactionStep(t)
    PROVE  Hears \/ Saves
<1>1. ASSUME CompactionSaved(t) PROVE Saves
    <2> DEFINE e == CompactionEntry(clock, comp[t].reason, comp[t].kept)
    <2>1. session' = Append(session, e) /\ epoch' = epoch /\ events' = events
        BY <1>1 DEF CompactionSaved, countVars
    <2>2. e \in Compactions /\ e.epoch = epoch
        <3>1. comp[t] \in Comps /\ comp[t].stage = "summary"
            BY <1>1 DEF CompactionSaved, Typed, TypeOK
        <3>2. comp[t].reason \in {"overflow", "threshold", "manual"} /\ comp[t].kept \in Nat \ {0}
            BY <3>1, NoCompType DEF Typed, Reasons
        <3>3. epoch \in 1..MaxSessions /\ clock \in Nat
            BY DEF Typed
        <3> QED
            BY <3>2, <3>3, CompactionType DEF CompactionEntry
    <2> HIDE DEF e
    <2> QED
        BY <2>1, <2>2 DEF Saves
<1>2. ASSUME CompactionPrepared(t) \/ CompactionFails(t) \/ CompactionDone(t) PROVE Hears
    BY <1>2 DEF CompactionPrepared, CompactionFails, CompactionDone, Hears, countVars
<1> QED
    BY <1>1, <1>2 DEF CompactionStep

LEMMA ClientHears ==
    ASSUME \/ \E p \in Callers : PromptQueues(p) \/ PromptCalled(p) \/ PromptChecks(p)
                                 \/ PromptThrows(p) \/ PromptAwaitsRetry(p)
           \/ Abort \/ AbortCompaction \/ CompactCalled \/ CompactBegins \/ NewSessionCalled
    PROVE  Hears
BY DEF PromptQueues, PromptCalled, PromptChecks, PromptThrows, PromptAwaitsRetry, Abort,
       AbortCompaction, CompactCalled, CompactBegins, NewSessionCalled, Hears, countVars

LEMMA NewSessionRestarts ==
    ASSUME Order, NewSessionStarts
    PROVE  Restarts
BY DEF NewSessionStarts, Order, SwitchApart, Restarts

LEMMA EveryStepTells ==
    ASSUME Typed, Order, Next
    PROVE  Hears \/ Enters \/ Saves \/ Restarts
<1>1. CASE \E p \in Callers : PromptQueues(p) \/ PromptCalled(p) \/ PromptStep(p)
    BY <1>1, ClientHears, PromptRunsHears DEF PromptStep
<1>2. CASE \E t \in Threads : CompactionStep(t)
    BY <1>2, CompactionSaves
<1> QED
    BY <1>1, <1>2, AgentHears, TimerHears, ChainEnters, ClientHears, NewSessionRestarts DEF Next

Ordered == Typed /\ Order

(* newSession() mixes nothing when the front end lets the session finish:  *)
(* then no event of the old session is left on the chain, whose handler    *)
(* would write it into the new one, and the agent is cut off.              *)
THEOREM NoMixing == Patient => (Spec => []SessionsDoNotMix)
<1> SUFFICES ASSUME Patient PROVE Spec => []SessionsDoNotMix
    OBVIOUS
<1>1. Init => Ordered /\ OneEpoch
    <2> SUFFICES ASSUME Init PROVE Ordered /\ OneEpoch
        OBVIOUS
    <2>1. OneEpoch
        BY DEF Init, OneEpoch
    <2> QED
        BY <2>1, InitTyped, InitOrder DEF Ordered
<1>2. Ordered /\ OneEpoch /\ [Next]_vars => Ordered' /\ OneEpoch'
    <2> SUFFICES ASSUME Ordered, OneEpoch, [Next]_vars PROVE Ordered' /\ OneEpoch'
        OBVIOUS
    <2>1. Ordered'
        BY NextTyped, NextOrder DEF Ordered
    <2>2. CASE Next
        BY <2>1, <2>2, EveryStepTells, OneEpochKept DEF Ordered
    <2>3. CASE UNCHANGED vars
        BY <2>1, <2>3 DEF vars, countVars, OneEpoch, InEpoch
    <2> QED
        BY <2>1, <2>2, <2>3
<1>3. Ordered /\ OneEpoch => SessionsDoNotMix
    BY DEF OneEpoch, SessionsDoNotMix
<1> QED
    BY <1>1, <1>2, <1>3, PTL DEF Spec

-----------------------------------------------------------------------------
(* Recovering from an overflow.                                            *)

Recovering(t) == comp[t].stage \in {"key", "summary"} /\ comp[t].reason = "overflow"
SomeRecovers == \E t \in Threads : Recovering(t)
ForManual == comp[Manual].reason # "overflow"
AtMostOne(S) == \A i, j \in S : i = j
Recovery ==
    /\ ~recovered => Recoveries(session) = {} /\ ~SomeRecovers
    /\ SomeRecovers => Recoveries(session) = {}
    /\ AtMostOne(Recoveries(session))
    /\ ForManual

\* One thread compacts at a time: the chain, the prompt() under way or compact().
LEMMA OneCompacts ==
    ASSUME Typed, Order, NEW t \in Threads, NEW u \in Threads, Compacts(t), Compacts(u)
    PROVE  t = u
<1>1. /\ Compacts(Chain) => handler = "compacting"
      /\ \A p \in Callers : Compacts(p) => pc[p] = "compacting" /\ ~Away(p)
    BY DEF Typed, TypeOK, Compacts, Away
<1>2. ASSUME Compacts(Manual) PROVE ~Compacts(Chain) /\ \A p \in Callers : ~Compacts(p)
    BY <1>1, <1>2 DEF Order, ManualAlone, Calm
<1>3. ASSUME NEW p \in Callers, Compacts(p)
      PROVE  ~Compacts(Chain) /\ \A q \in Callers : q # p => ~Compacts(q)
    BY <1>1, <1>3 DEF Order, OnePrompt, PromptCalm, Calm
<1> QED
    BY <1>2, <1>3, ThreadKinds

\* While somebody compacts no event waits, or the chain does not take it.
LEMMA NobodyCompacts ==
    ASSUME Typed, Order, Take, NEW t \in Threads
    PROVE  ~Compacts(t)
<1>1. ~Calm /\ handler # "compacting"
    BY DEF Take, Calm
<1>2. /\ Compacts(Chain) => handler = "compacting"
      /\ \A p \in Callers : Compacts(p) => pc[p] = "compacting"
    BY DEF Typed, TypeOK, Compacts
<1> QED
    BY <1>1, <1>2, ThreadKinds DEF Order, ManualAlone, PromptCalm

LEMMA RecoveringCompacts ==
    ASSUME NEW t, Recovering(t)
    PROVE  Compacts(t)
BY DEF Recovering, Compacts

\* No recovery begins or ends.
Unmoved ==
    /\ session' = session \/ session' = <<>>
    /\ recovered' = recovered
    /\ \A t \in Threads : Recovering(t)' => Recovering(t)
    /\ ForManual => ForManual'

LEMMA UnmovedKeeps ==
    ASSUME Recovery, Unmoved
    PROVE  Recovery'
<1>1. SomeRecovers' => SomeRecovers
    BY DEF Unmoved, SomeRecovers
<1>2. Recoveries(session)' = Recoveries(session) \/ Recoveries(session)' = {}
    BY CountNone DEF Unmoved
<1> QED
    BY <1>1, <1>2 DEF Unmoved, Recovery, AtMostOne

LEMMA SameComp ==
    ASSUME comp' = comp, session' = session \/ session' = <<>>, recovered' = recovered
    PROVE  Unmoved
BY DEF Unmoved, Recovering, ForManual

LEMMA MessageRecovers ==
    ASSUME Typed, Order, Recovery, ProcessMessage
    PROVE  Recovery'
<1> DEFINE m == Head(events)
<1>1. /\ Take /\ m.role \in {"user", "assistant"} /\ session' = Append(session, m)
      /\ recovered' = (recovered /\ IsError(m)) /\ comp' = comp
    BY DEF ProcessMessage, compVars
<1>2. m \in SessionEntries /\ ~IsCompactionEntry(m)
    BY <1>1, TakeTyped DEF Events, SessionEntries, AgentEnd, IsCompactionEntry
<1>3. session \in Seq(SessionEntries) /\ recovered \in BOOLEAN
    BY DEF Typed, TypeOK
<1> HIDE DEF m
<1>4. ~SomeRecovers /\ ~SomeRecovers'
    <2>1. \A t \in Threads : ~Recovering(t)
        BY <1>1, NobodyCompacts, RecoveringCompacts
    <2> QED
        BY <1>1, <2>1 DEF SomeRecovers, Recovering
<1>5. Progress(m) = ~IsError(m) /\ ~Recovers(m)
    BY <1>1, <1>2 DEF Progress, IsError, Recovers
<1>6. /\ ~IsError(m) => Recoveries(session)' = {}
      /\ IsError(m) => Recoveries(session)' = Recoveries(session)
    BY <1>1, <1>2, <1>3, <1>5, RecoveriesAppend
<1> QED
    BY <1>1, <1>4, <1>6 DEF Recovery, AtMostOne, ForManual

\* A compaction begins; the flag allows one that recovers from an overflow.
LEMMA StartRecovers ==
    ASSUME Typed, Recovery, NEW t \in Threads, t # Manual, NEW m, NEW b, Verdict(m, b) # "none",
           StartCompaction(t, Verdict(m, b)), session' = session,
           recovered' = (recovered \/ Verdict(m, b) = "overflow")
    PROVE  Recovery'
<1> DEFINE v == Verdict(m, b)
<1>1. v \in Reasons /\ (v = "overflow" => ~recovered) /\ recovered \in BOOLEAN
    BY Verdicts DEF Verdict, Typed, TypeOK
<1> HIDE DEF v
<1>2. /\ comp'[t].stage = "key" /\ comp'[t].reason = v
      /\ \A u \in Threads : u # t => comp'[u] = comp[u]
    BY <1>1, StartCompactionTyped DEF v
<1>3. /\ Recovering(t)' => v = "overflow"
      /\ \A u \in Threads : u # t /\ Recovering(u)' => Recovering(u)
    BY <1>2 DEF Recovering
<1>4. SomeRecovers' => v = "overflow" \/ SomeRecovers
    BY <1>3 DEF SomeRecovers
<1>5. ForManual' = ForManual
    BY <1>2, ThreadKinds DEF ForManual
<1>6. recovered' = (recovered \/ v = "overflow") /\ Recoveries(session)' = Recoveries(session)
    BY DEF v
<1> QED
    BY <1>1, <1>4, <1>5, <1>6 DEF Recovery, AtMostOne

LEMMA AfterRecovers ==
    ASSUME Typed, NEW t \in Threads, AfterCompaction(t), comp[t].stage # "none",
           session' = session, recovered' = recovered
    PROVE  Unmoved
<1>1. /\ comp'[t] = NoComp /\ comp'[t].stage = "none"
      /\ \A u \in Threads : u # t => comp'[u] = comp[u]
    BY AfterCompactionTyped, NoCompType
<1>2. ForManual => ForManual'
    BY <1>1, ThreadKinds DEF ForManual, NoComp
<1> QED
    BY <1>1, <1>2 DEF Unmoved, Recovering

\* The stage of a compaction changes, its reason does not.
LEMMA StageReason ==
    ASSUME Typed, NEW t \in Threads, comp[t].stage # "none", NEW stage,
           comp' = [comp EXCEPT ![t].stage = stage]
    PROVE  /\ comp'[t].stage = stage /\ comp'[t].reason = comp[t].reason
           /\ \A u \in Threads : u # t => comp'[u] = comp[u]
<1> DEFINE R == [stage : {"abort", "key", "summary", "saved"}, reason : Reasons,
                 aborted : BOOLEAN, kept : Nat]
<1>1. comp \in [Threads -> Comps]
    BY DEF Typed, TypeOK
<1>2. comp[t] \in R
    BY <1>1 DEF Comps, NoComp, Reasons
<1>3. comp'[t] = [comp[t] EXCEPT !.stage = stage] /\ \A u \in Threads : u # t => comp'[u] = comp[u]
    BY <1>1
<1>4. \A r \in R : [r EXCEPT !.stage = stage].stage = stage
                   /\ [r EXCEPT !.stage = stage].reason = r.reason
    OBVIOUS
<1> HIDE DEF R
<1> QED
    BY <1>2, <1>3, <1>4

LEMMA CompactionRecovers ==
    ASSUME Typed, Order, Recovery, NEW t \in Threads, CompactionStep(t)
    PROVE  Recovery'
<1>1. ASSUME CompactionPrepared(t) PROVE Recovery'
    <2>1. PICK k : comp' = [comp EXCEPT ![t].stage = "summary", ![t].kept = k]
        BY <1>1 DEF CompactionPrepared
    <2>2. comp[t].stage = "key" /\ comp \in [Threads -> Comps]
          /\ session' = session /\ recovered' = recovered
        BY <1>1 DEF CompactionPrepared, Typed, TypeOK, retryVars
    <2>3. \A u \in Threads : u # t => comp'[u] = comp[u]
        BY <2>1, <2>2
    <2>4. comp'[t].reason = comp[t].reason
        <3>1. comp[t] \in [stage : {"abort", "key", "summary", "saved"}, reason : Reasons,
                           aborted : BOOLEAN, kept : Nat]
            BY <2>2 DEF Comps, NoComp, Reasons
        <3>2. comp'[t] = [comp[t] EXCEPT !.stage = "summary", !.kept = k]
            BY <2>1, <2>2
        <3> QED
            BY <3>1, <3>2
    <2>5. Unmoved
        BY <2>2, <2>3, <2>4, ThreadKinds DEF Unmoved, Recovering, ForManual
    <2> QED
        BY <2>5, UnmovedKeeps
<1>2. ASSUME CompactionFails(t) \/ CompactionDone(t) PROVE Recovery'
    <2>1. AfterCompaction(t) /\ comp[t].stage # "none" /\ session' = session
          /\ recovered' = recovered
        BY <1>2 DEF CompactionFails, CompactionDone, retryVars
    <2> QED
        BY <2>1, AfterRecovers, UnmovedKeeps
<1>3. ASSUME CompactionSaved(t) PROVE Recovery'
    <2> DEFINE e == CompactionEntry(clock, comp[t].reason, comp[t].kept)
    <2>1. session' = Append(session, e) /\ recovered' = recovered /\ comp[t].stage = "summary"
          /\ comp' = [comp EXCEPT ![t].stage = "saved"]
        BY <1>3 DEF CompactionSaved, retryVars
    <2>2. e \in SessionEntries /\ ~Progress(e) /\ (Recovers(e) = (comp[t].reason = "overflow"))
        <3>1. comp[t] \in Comps
            BY DEF Typed, TypeOK
        <3>2. comp[t].reason \in {"overflow", "threshold", "manual"} /\ comp[t].kept \in Nat \ {0}
            BY <2>1, <3>1, NoCompType DEF Typed, Reasons
        <3>3. epoch \in 1..MaxSessions /\ clock \in Nat
            BY DEF Typed
        <3>4. e \in Compactions /\ e.role = "compaction" /\ e.reason = comp[t].reason
            BY <3>2, <3>3, CompactionType DEF CompactionEntry
        <3> QED
            BY <3>4 DEF SessionEntries, Progress, Recovers, IsCompactionEntry
    <2>3. session \in Seq(SessionEntries)
        BY DEF Typed, TypeOK
    <2> HIDE DEF e
    <2>4. /\ comp'[t].stage = "saved" /\ \A u \in Threads : u # t => comp'[u] = comp[u]
        BY <2>1, StageReason
    <2>5. \A u \in Threads : Recovering(u)' => u # t /\ Recovering(u)
        BY <2>4 DEF Recovering
    <2>6. \A u \in Threads : Recovering(u) => u = t
        BY <2>1, RecoveringCompacts, OneCompacts DEF Compacts
    <2>7. ~SomeRecovers'
        BY <2>5, <2>6 DEF SomeRecovers
    <2>10. ForManual'
        BY <2>1, <2>4, StageReason, ThreadKinds DEF ForManual, Recovery
    <2>8. CASE Recovers(e)
        <3>1. Recovering(t)
            BY <2>1, <2>2, <2>8 DEF Recovering
        <3>2. recovered /\ Recoveries(session) = {}
            BY <3>1 DEF Recovery, SomeRecovers
        <3>3. Recoveries(session)' = {Len(session) + 1}
            BY <2>1, <2>2, <2>3, <2>8, <3>2, RecoveriesAppend
        <3> QED
            BY <2>1, <2>7, <2>10, <3>2, <3>3 DEF Recovery, AtMostOne
    <2>9. CASE ~Recovers(e)
        <3>1. Recoveries(session)' = Recoveries(session)
            BY <2>1, <2>2, <2>3, <2>9, RecoveriesAppend
        <3> QED
            BY <2>1, <2>7, <2>10, <3>1 DEF Recovery, AtMostOne
    <2> QED
        BY <2>8, <2>9
<1> QED
    BY <1>1, <1>2, <1>3 DEF CompactionStep

LEMMA ChainRecovers ==
    ASSUME Typed, Order, Recovery, ChainStep
    PROVE  Recovery'
<1>1. ASSUME ProcessEnd \/ RetryBegins \/ RetryGivesUp \/ BackoffAborted PROVE Recovery'
    <2>1. comp' = comp /\ session' = session /\ recovered' = recovered
        BY <1>1 DEF ProcessEnd, RetryBegins, RetryGivesUp, BackoffAborted, compVars
    <2> QED
        BY <2>1, SameComp, UnmovedKeeps
<1>2. ASSUME BackoffEnds PROVE Recovery'
    <2>1. comp' = comp /\ session' = session /\ recovered' = recovered
        BY <1>2 DEF BackoffEnds, retryVars
    <2> QED
        BY <2>1, SameComp, UnmovedKeeps
<1>3. ASSUME ProcessCompacts PROVE Recovery'
    <2>1. /\ Verdict(last, TRUE) # "none" /\ StartCompaction(Chain, Verdict(last, TRUE))
          /\ recovered' = (recovered \/ Verdict(last, TRUE) = "overflow") /\ session' = session
        BY <1>3 DEF ProcessCompacts
    <2> QED
        BY <2>1, StartRecovers, ThreadKinds
<1> QED
    BY <1>1, <1>2, <1>3, MessageRecovers DEF ChainStep

LEMMA PromptRecovers ==
    ASSUME Typed, Recovery, NEW p \in Callers, PromptChecks(p)
    PROVE  Recovery'
<1> DEFINE a == LatestAnswer(context)
<1>1. CASE a = 0 \/ Verdict(context[a], FALSE) = "none"
    <2>1. comp' = comp /\ session' = session /\ recovered' = recovered
        BY <1>1 DEF PromptChecks, Typed, TypeOK
    <2> QED
        BY <2>1, SameComp, UnmovedKeeps
<1>2. CASE a # 0 /\ Verdict(context[a], FALSE) # "none"
    <2>1. /\ StartCompaction(p, Verdict(context[a], FALSE)) /\ session' = session
          /\ recovered' = (recovered \/ Verdict(context[a], FALSE) = "overflow")
        BY <1>2 DEF PromptChecks
    <2>2. p \in Threads /\ p # Manual
        BY ThreadKinds
    <2> HIDE DEF a
    <2> QED
        BY <1>2, <2>1, <2>2, StartRecovers
<1> QED
    BY <1>1, <1>2

LEMMA OthersRecover ==
    ASSUME Typed, Recovery,
           \/ AgentStep \/ TimerFires
           \/ \E p \in Callers : \/ PromptQueues(p) \/ PromptCalled(p) \/ PromptThrows(p)
                                 \/ PromptRuns(p) \/ PromptAwaitsRetry(p)
           \/ Abort \/ AbortCompaction \/ CompactCalled \/ CompactBegins
           \/ NewSessionCalled \/ NewSessionStarts
    PROVE  Recovery'
<1>1. CASE \/ AgentStep \/ TimerFires
           \/ \E p \in Callers : \/ PromptQueues(p) \/ PromptCalled(p) \/ PromptThrows(p)
                                 \/ PromptRuns(p) \/ PromptAwaitsRetry(p)
           \/ Abort \/ NewSessionCalled \/ NewSessionStarts
    <2>1. comp' = comp /\ recovered' = recovered /\ (session' = session \/ session' = <<>>)
        BY <1>1 DEF AgentStep, AnswerArrives, NextTurn, RunEnds, TimerFires, PromptQueues,
           PromptCalled, PromptThrows, PromptRuns, PromptAwaitsRetry, Abort, NewSessionCalled,
           NewSessionStarts, compVars, retryVars
    <2> QED
        BY <2>1, SameComp, UnmovedKeeps
<1>2. CASE AbortCompaction
    <2>1. \A t \in Threads : comp'[t].stage = comp[t].stage /\ comp'[t].reason = comp[t].reason
        <3>1. \A t \in Threads :
                  \/ comp'[t] = comp[t]
                  \/ comp[t].stage # "none" /\ comp'[t] = [comp[t] EXCEPT !.aborted = TRUE]
            BY <1>2 DEF AbortCompaction
        <3>2. \A t \in Threads : comp[t] \in Comps
            BY DEF Typed, TypeOK
        <3> QED
            BY <3>1, <3>2 DEF Comps, NoComp
    <2>2. session' = session /\ recovered' = recovered
        BY <1>2 DEF AbortCompaction, retryVars
    <2> QED
        BY <2>1, <2>2, UnmovedKeeps, ThreadKinds DEF Unmoved, Recovering, ForManual
<1>3. CASE CompactCalled
    <2>1. session' = session /\ recovered' = recovered /\ comp'[Manual].stage = "abort"
          /\ comp'[Manual].reason = "manual"
          /\ \A u \in Threads : u # Manual => comp'[u] = comp[u]
        BY <1>3, ThreadKinds DEF CompactCalled, Typed, TypeOK
    <2> QED
        BY <2>1, UnmovedKeeps DEF Unmoved, Recovering, ForManual
<1>4. CASE CompactBegins
    <2>1. /\ comp[Manual].stage = "abort" /\ session' = session /\ recovered' = recovered
          /\ comp' = [comp EXCEPT ![Manual].stage = "key"]
        BY <1>4 DEF CompactBegins, retryVars
    <2>2. /\ comp'[Manual].reason = comp[Manual].reason
          /\ \A u \in Threads : u # Manual => comp'[u] = comp[u]
        BY <2>1, ThreadKinds, StageReason
    <2> QED
        BY <2>1, <2>2, UnmovedKeeps DEF Unmoved, Recovering, ForManual, Recovery
<1> QED
    BY <1>1, <1>2, <1>3, <1>4

(* An overflow is recovered from once, for a patient front end.            *)
THEOREM RecoveredOnce == Patient => (Spec => []OneRecovery)
<1> SUFFICES ASSUME Patient PROVE Spec => []OneRecovery
    OBVIOUS
<1>1. Init => Ordered /\ Recovery
    <2> SUFFICES ASSUME Init PROVE Ordered /\ Recovery
        OBVIOUS
    <2>1. session = <<>> /\ \A t \in Threads : comp[t] = NoComp
        BY DEF Init
    <2>2. Recovery
        BY <2>1, CountNone, ThreadKinds
        DEF Recovery, SomeRecovers, Recovering, AtMostOne, ForManual, NoComp
    <2> QED
        BY <2>2, InitTyped, InitOrder DEF Ordered
<1>2. Ordered /\ Recovery /\ [Next]_vars => Ordered' /\ Recovery'
    <2> SUFFICES ASSUME Ordered, Recovery, [Next]_vars PROVE Ordered' /\ Recovery'
        OBVIOUS
    <2>1. Typed /\ Order /\ Ordered'
        BY NextTyped, NextOrder DEF Ordered
    <2>2. CASE UNCHANGED vars
        <3>1. comp' = comp /\ session' = session /\ recovered' = recovered
            BY <2>2 DEF vars, compVars, retryVars
        <3> QED
            BY <2>1, <3>1, SameComp, UnmovedKeeps
    <2>3. CASE \E t \in Threads : CompactionStep(t)
        BY <2>1, <2>3, CompactionRecovers
    <2>4. CASE \E p \in Callers : PromptQueues(p) \/ PromptCalled(p) \/ PromptStep(p)
        BY <2>1, <2>4, PromptRecovers, OthersRecover DEF PromptStep
    <2> QED
        BY <2>1, <2>2, <2>3, <2>4, ChainRecovers, OthersRecover DEF Next
<1>3. Ordered /\ Recovery => OneRecovery
    <2> SUFFICES ASSUME Ordered, Recovery PROVE OneRecovery
        OBVIOUS
    <2>1. CASE Recoveries(session) = {}
        <3>1. Cardinality(Recoveries(session)) = 0
            BY <2>1, FS_EmptySet
        <3> QED
            BY <3>1 DEF OneRecovery
    <2>2. CASE Recoveries(session) # {}
        <3>1. PICK i : i \in Recoveries(session)
            BY <2>2
        <3>2. Recoveries(session) = {i}
            BY <3>1 DEF Recovery, AtMostOne
        <3>3. Cardinality(Recoveries(session)) = 1
            BY <3>2, FS_Singleton
        <3> QED
            BY <3>3 DEF OneRecovery
    <2> QED
        BY <2>1, <2>2
<1> QED
    BY <1>1, <1>2, <1>3, PTL DEF Spec

-----------------------------------------------------------------------------
(* One run at a time, until a prompt() crosses a timer.                    *)

\* The chain awaits only between two runs, and so does the one timer.
Waits == handler # "idle" => phase = "idle" /\ events = <<>>
Armed == timers # 0 => timers = 1 /\ phase = "idle" /\ events = <<>> /\ handler = "idle"

\* The newest message before the event n + 1, that the chain has or will have seen.
Newest(es, m, n) == IF n = 0 THEN m ELSE es[n]

EndsRun == \A i \in DOMAIN events : events[i] = AgentEnd => i = Len(events) /\ phase = "idle"
AnswerLast ==
    phase = "idle" /\ events # <<>> =>
        /\ events[Len(events)] = AgentEnd
        /\ context # <<>> /\ Last(context) = Newest(events, last, Len(events) - 1)
        /\ Newest(events, last, Len(events) - 1).role = "assistant"
ReplyLast ==
    phase = "answered" /\ ~switching =>
        context # <<>> /\ Last(context) = reply /\ Newest(events, last, Len(events)) = reply
ErrorEnds ==
    \A i \in DOMAIN events : IsError(events[i]) =>
        /\ phase # "open"
        /\ \A j \in (i + 1)..Len(events) : events[j] = AgentEnd
RunOver == EndsRun /\ AnswerLast /\ ReplyLast /\ ErrorEnds
OneRun == Waits /\ Armed /\ RunOver

\* Nothing runs, and no event is left.
Still == phase = "idle" /\ events = <<>>

LEMMA StillIsOver ==
    ASSUME Still'
    PROVE  RunOver' /\ Waits'
BY DEF Still, RunOver, EndsRun, AnswerLast, ReplyLast, ErrorEnds, Waits

LEMMA SameRun ==
    ASSUME RunOver, UNCHANGED <<phase, events, context, last, reply>>,
           switching' = switching \/ switching'
    PROVE  RunOver'
BY DEF RunOver, EndsRun, AnswerLast, ReplyLast, ErrorEnds, Newest

\* A compaction is made while nothing runs.
LEMMA CompactsStill ==
    ASSUME Typed, Order, OneRun, NEW t \in Threads, Compacts(t)
    PROVE  Still /\ timers = 0
<1>1. /\ Compacts(Chain) => handler = "compacting"
      /\ \A p \in Callers : Compacts(p) => pc[p] = "compacting"
    BY DEF Typed, TypeOK, Compacts
<1>2. CASE t = Chain
    BY <1>1, <1>2 DEF OneRun, Waits, Armed, Still
<1>3. CASE t = Manual
    BY <1>3 DEF Order, ManualAlone, Calm, Still
<1>4. CASE t \in Callers
    BY <1>1, <1>4 DEF Order, PromptCalm, Calm, Still
<1> QED
    BY <1>2, <1>3, <1>4, ThreadKinds

\* Whoever is not switching and not calm is heard.
LEMMA Heard ==
    ASSUME Order, ~Calm
    PROVE  connected \/ switching
BY DEF Order, ManualAlone, Subscribed

LEMMA EventKinds ==
    /\ \A e \in Answers : e # AgentEnd /\ e \in Events /\ (IsError(e) = (e.stop \in Errors))
    /\ \A e \in Users : e # AgentEnd /\ e \in Events /\ ~IsError(e)
    /\ ~IsError(AgentEnd) /\ AgentEnd \in Events
BY Roles DEF AgentEnd, IsError, Events

LEMMA AnswerOver ==
    ASSUME Typed, Order, OneRun, NEW stop \in Stops, AnswerArrives(stop)
    PROVE  OneRun'
<1> DEFINE m == Answer(clock - 1, stop)
<1>1. /\ phase = "open" /\ phase' = "answered" /\ reply' = m /\ context' = Append(context, m)
      /\ Chained(<<m>>)
      /\ UNCHANGED <<handler, last, timers, switching>>
    BY DEF AnswerArrives, retryVars, compVars, clientVars
<1>2. m \in Answers
    <2>1. clock - 1 \in Nat /\ epoch \in 1..MaxSessions
        BY DEF Typed
    <2> QED
        BY <2>1, AnswerType
<1> HIDE DEF m
<1>3. /\ events \in Seq(Events) /\ context \in Seq(ContextMessages) /\ m \in Events
      /\ m \in ContextMessages
    BY <1>2, EventKinds DEF Typed, TypeOK, ContextMessages
<1>4. Waits' /\ Armed'
    BY <1>1 DEF OneRun, Waits, Armed
<1>5. events' = Append(events, m) \/ (switching /\ events' = events /\ events = <<>>)
    <2>1. connected \/ switching
        BY <1>1, Heard DEF Calm
    <2>2. events \o <<m>> = Append(events, m)
        BY <1>3
    <2> QED
        BY <1>1, <2>1, <2>2 DEF Chained, Order, SwitchApart
<1>6. CASE events' = <<>>
    <2>1. switching
        BY <1>3, <1>5, <1>6, AppendFacts
    <2>2. EndsRun' /\ ErrorEnds'
        BY <1>6 DEF EndsRun, ErrorEnds
    <2> QED
        BY <1>1, <1>4, <1>6, <2>1, <2>2 DEF OneRun, RunOver, AnswerLast, ReplyLast
<1>7. CASE events' = Append(events, m)
    <2>1. /\ Len(events') = Len(events) + 1 /\ Len(events) \in Nat
          /\ DOMAIN events' = 1..(Len(events) + 1) /\ DOMAIN events = 1..Len(events)
          /\ \A i \in 1..Len(events) : events'[i] = events[i]
          /\ events'[Len(events) + 1] = m
        BY <1>3, <1>7, AppendFacts
    <2>2. EndsRun'
        BY <1>1, <1>2, <2>1, EventKinds DEF OneRun, RunOver, EndsRun
    <2>3. ReplyLast'
        <3>1. context' # <<>> /\ Last(context') = m
            <4>1. /\ Len(context') = Len(context) + 1 /\ Len(context) \in Nat
                  /\ context'[Len(context) + 1] = m
                BY <1>1, <1>3, AppendFacts
            <4> QED
                BY <4>1 DEF Last
        <3> QED
            BY <1>1, <2>1, <3>1 DEF ReplyLast, Newest
    <2>4. ErrorEnds'
        BY <1>1, <2>1 DEF OneRun, RunOver, ErrorEnds
    <2>5. AnswerLast'
        BY <1>1 DEF AnswerLast
    <2> QED
        BY <1>4, <2>2, <2>3, <2>4, <2>5 DEF OneRun, RunOver
<1> QED
    BY <1>4, <1>5, <1>6, <1>7 DEF OneRun

LEMMA NextTurnOver ==
    ASSUME Typed, Order, OneRun, NextTurn
    PROVE  OneRun'
<1> DEFINE m == UserMsg(clock)
<1>1. /\ phase = "answered" /\ phase' = "open" /\ reply.stop \notin Errors
      /\ Chained(<<m>>)
      /\ UNCHANGED <<handler, last, timers, switching>>
    BY DEF NextTurn, retryVars, compVars, clientVars
<1>2. m \in Users
    BY UserType DEF Typed
<1> HIDE DEF m
<1>3. events \in Seq(Events) /\ m \in Events
    BY <1>2, EventKinds DEF Typed
<1>4. Waits' /\ Armed'
    BY <1>1 DEF OneRun, Waits, Armed
<1>5. events' = Append(events, m) \/ (switching /\ events' = events /\ events = <<>>)
    <2>1. connected \/ switching
        BY <1>1, Heard DEF Calm
    <2>2. events \o <<m>> = Append(events, m)
        BY <1>3
    <2> QED
        BY <1>1, <2>1, <2>2 DEF Chained, Order, SwitchApart
<1>6. AnswerLast' /\ ReplyLast'
    BY <1>1 DEF AnswerLast, ReplyLast
<1>7. CASE events' = <<>>
    <2>1. EndsRun' /\ ErrorEnds'
        BY <1>7 DEF EndsRun, ErrorEnds
    <2> QED
        BY <1>4, <1>6, <2>1 DEF OneRun, RunOver
<1>8. CASE events' = Append(events, m) /\ ~switching
    <2>1. /\ Len(events') = Len(events) + 1 /\ Len(events) \in Nat
          /\ DOMAIN events' = 1..(Len(events) + 1) /\ DOMAIN events = 1..Len(events)
          /\ \A i \in 1..Len(events) : events'[i] = events[i]
          /\ events'[Len(events) + 1] = m
        BY <1>3, <1>8, AppendFacts
    <2>2. EndsRun'
        BY <1>1, <1>2, <2>1, EventKinds DEF OneRun, RunOver, EndsRun
    <2>3. \A i \in 1..Len(events) : ~IsError(events[i])
        <3> SUFFICES ASSUME NEW i \in 1..Len(events), IsError(events[i]) PROVE FALSE
            OBVIOUS
        <3>1. \A j \in (i + 1)..Len(events) : events[j] = AgentEnd
            BY <2>1 DEF OneRun, RunOver, ErrorEnds
        <3>2. \A j \in 1..Len(events) : events[j] # AgentEnd
            BY <1>1, <2>1 DEF OneRun, RunOver, EndsRun
        <3>3. i = Len(events)
            BY <2>1, <3>1, <3>2
        <3>4. events[Len(events)] = reply
            BY <1>1, <1>8, <2>1, <3>3 DEF OneRun, RunOver, ReplyLast, Newest
        <3> QED
            BY <1>1, <3>3, <3>4 DEF IsError
    <2>4. ErrorEnds'
        BY <1>2, <2>1, <2>3, EventKinds DEF ErrorEnds
    <2> QED
        BY <1>4, <1>6, <2>2, <2>4 DEF OneRun, RunOver
<1>9. CASE events' = Append(events, m) /\ switching
    <2>1. events' = <<m>>
        BY <1>9 DEF Order, SwitchApart
    <2>2. EndsRun' /\ ErrorEnds'
        BY <1>1, <1>2, <2>1, EventKinds DEF EndsRun, ErrorEnds
    <2> QED
        BY <1>4, <1>6, <2>2 DEF OneRun, RunOver
<1> QED
    BY <1>4, <1>5, <1>6, <1>7, <1>8, <1>9 DEF OneRun, RunOver

LEMMA RunEndsOver ==
    ASSUME Typed, Order, OneRun, RunEnds
    PROVE  OneRun'
<1>1. /\ phase = "answered" /\ phase' = "idle" /\ Chained(<<AgentEnd>>)
      /\ UNCHANGED <<handler, last, timers, switching, context>>
    BY DEF RunEnds, compVars
<1>2. events \in Seq(Events) /\ AgentEnd \in Events /\ reply \in Answers
    BY <1>1, EventKinds DEF Typed
<1>3. Waits' /\ Armed'
    BY <1>1 DEF OneRun, Waits, Armed
<1>4. \/ events' = Append(events, AgentEnd) /\ ~switching
      \/ events' = <<>>
    <2>1. connected \/ switching
        BY <1>1, Heard DEF Calm
    <2>2. events \o <<AgentEnd>> = Append(events, AgentEnd)
        BY <1>2
    <2> QED
        BY <1>1, <2>1, <2>2 DEF Chained, Order, SwitchApart
<1>5. CASE events' = <<>>
    BY <1>1, <1>3, <1>5, StillIsOver DEF Still, OneRun
<1>6. CASE events' = Append(events, AgentEnd) /\ ~switching
    <2>1. /\ Len(events') = Len(events) + 1 /\ Len(events) \in Nat
          /\ DOMAIN events' = 1..(Len(events) + 1) /\ DOMAIN events = 1..Len(events)
          /\ \A i \in 1..Len(events) : events'[i] = events[i]
          /\ events'[Len(events) + 1] = AgentEnd
        BY <1>2, <1>6, AppendFacts
    <2>2. EndsRun'
        BY <1>1, <2>1 DEF OneRun, RunOver, EndsRun
    <2>3. AnswerLast'
        <3>2. context # <<>> /\ Last(context) = reply /\ Newest(events, last, Len(events)) = reply
            BY <1>1, <1>6 DEF OneRun, RunOver, ReplyLast
        <3>3. reply.role = "assistant"
            BY <1>2, Roles
        <3>4. Newest(events', last', Len(events') - 1) = reply
            <4>1. Len(events') - 1 = Len(events)
                BY <2>1
            <4> QED
                BY <1>1, <2>1, <3>2, <4>1 DEF Newest
        <3> QED
            BY <1>1, <2>1, <3>2, <3>3, <3>4 DEF AnswerLast
    <2>4. ReplyLast'
        BY <1>1 DEF ReplyLast
    <2>5. ErrorEnds'
        <3> SUFFICES ASSUME NEW i \in 1..(Len(events) + 1), IsError(events'[i])
                     PROVE  \A j \in (i + 1)..(Len(events) + 1) : events'[j] = AgentEnd
            BY <1>1, <2>1 DEF ErrorEnds
        <3>1. i \in 1..Len(events) /\ events'[i] = events[i]
            BY <2>1, EventKinds
        <3>2. \A j \in (i + 1)..Len(events) : events[j] = AgentEnd
            BY <2>1, <3>1 DEF OneRun, RunOver, ErrorEnds
        <3> QED
            BY <2>1, <3>1, <3>2
    <2> QED
        BY <1>3, <2>2, <2>3, <2>4, <2>5 DEF OneRun, RunOver
<1> QED
    BY <1>3, <1>4, <1>5, <1>6 DEF OneRun

\* A run begins where nothing runs.
LEMMA BeginOver ==
    ASSUME Still, handler = "idle", timers' = 0, handler' = handler,
           NEW who, NEW m \in Users, BeginRun(who, <<>>) \/ BeginRun(who, <<m>>)
    PROVE  OneRun'
<1>1. phase' = "open" /\ (events' = <<>> \/ events' = <<m>>)
    BY DEF BeginRun, Chained, Still
<1>2. Waits' /\ Armed'
    BY DEF Waits, Armed
<1>3. EndsRun' /\ ErrorEnds'
    BY <1>1, EventKinds DEF EndsRun, ErrorEnds
<1> QED
    BY <1>1, <1>2, <1>3 DEF OneRun, RunOver, AnswerLast, ReplyLast

LEMMA TimerOver ==
    ASSUME Typed, Order, OneRun, TimerFires
    PROVE  OneRun'
<1>1. Still /\ handler = "idle" /\ timers' = 0 /\ handler' = handler
    BY DEF TimerFires, OneRun, Armed, Still
<1>2. UserMsg(clock) \in Users
    BY UserType DEF Typed
<1>3. \/ BeginRun(None, <<>>) \/ BeginRun(None, <<UserMsg(clock)>>)
      \/ phase' = phase /\ events' = events
    BY DEF TimerFires, agentVars
<1>4. CASE BeginRun(None, <<>>) \/ BeginRun(None, <<UserMsg(clock)>>)
    BY <1>1, <1>2, <1>4, BeginOver
<1>5. CASE phase' = phase /\ events' = events
    BY <1>1, <1>5, StillIsOver DEF Still, OneRun, Armed
<1> QED
    BY <1>3, <1>4, <1>5

LEMMA PromptOver ==
    ASSUME Typed, Order, OneRun, ~crossed, NEW p \in Callers, PromptRuns(p)
    PROVE  OneRun'
<1>1. Calm
    BY DEF PromptRuns, Order, BeforeCalm
<1>2. Still /\ handler = "idle" /\ timers' = 0 /\ handler' = handler
    BY <1>1 DEF PromptRuns, Calm, Still, compVars
<1>3. UserMsg(clock) \in Users
    BY UserType DEF Typed
<1>4. BeginRun(p, <<UserMsg(clock)>>)
    BY DEF PromptRuns
<1> QED
    BY <1>2, <1>3, <1>4, BeginOver

\* The newest message is the same when the chain has seen the first event.
LEMMA NewestShifts ==
    ASSUME Typed, Take, NEW n \in 1..Len(events), Newest(events, last, n).role = "assistant",
           last' = IF Head(events).role = "assistant" THEN Head(events) ELSE last
    PROVE  Newest(events', last', n - 1) = Newest(events, last, n)
<1>1. events \in Seq(Events) /\ events # <<>> /\ events' = Tail(events)
    BY DEF Typed, Take
<1>2. CASE n = 1
    BY <1>1, <1>2 DEF Newest
<1>3. CASE n # 1
    <2>1. n - 1 \in 1..Len(Tail(events)) /\ n - 1 # 0 /\ n # 0
        BY <1>1, <1>3
    <2>2. Tail(events)[n - 1] = events[n]
        BY <1>1, <2>1
    <2> QED
        BY <1>1, <2>1, <2>2 DEF Newest
<1> QED
    BY <1>2, <1>3

LEMMA MessageOver ==
    ASSUME Typed, Order, OneRun, ProcessMessage
    PROVE  OneRun'
<1>1. /\ Take /\ Head(events).role \in {"user", "assistant"}
      /\ last' = IF Head(events).role = "assistant" THEN Head(events) ELSE last
      /\ UNCHANGED <<phase, reply, context, handler, timers, switching>>
    BY DEF ProcessMessage, agentVars, compVars
<1>2. events \in Seq(Events) /\ events # <<>> /\ events' = Tail(events) /\ handler = "idle"
    BY <1>1 DEF Typed, Take
<1>3. /\ Len(events) \in Nat \ {0} /\ Len(events') = Len(events) - 1
      /\ DOMAIN events' = 1..(Len(events) - 1) /\ DOMAIN events = 1..Len(events)
      /\ \A i \in 1..(Len(events) - 1) : events'[i] = events[i + 1]
      /\ events[1] = Head(events)
    BY <1>2
<1>4. Waits' /\ Armed'
    <2>1. timers = 0
        BY <1>2 DEF OneRun, Armed
    <2> QED
        BY <1>1, <1>2, <2>1 DEF Waits, Armed
<1>5. EndsRun'
    BY <1>1, <1>3 DEF OneRun, RunOver, EndsRun
<1>6. AnswerLast'
    <2> SUFFICES ASSUME phase' = "idle", events' # <<>>
                 PROVE  /\ events'[Len(events')] = AgentEnd /\ context' # <<>>
                        /\ Last(context') = Newest(events', last', Len(events') - 1)
                        /\ Newest(events', last', Len(events') - 1).role = "assistant"
        BY DEF AnswerLast, Newest
    <2>1. /\ events[Len(events)] = AgentEnd /\ context # <<>>
          /\ Last(context) = Newest(events, last, Len(events) - 1)
          /\ Newest(events, last, Len(events) - 1).role = "assistant"
        BY <1>1, <1>2 DEF OneRun, RunOver, AnswerLast
    <2>2. Len(events) - 1 \in 1..Len(events) /\ Len(events') - 1 = Len(events) - 2
        BY <1>2, <1>3
    <2>3. Newest(events', last', Len(events') - 1) = Newest(events, last, Len(events) - 1)
        <3> DEFINE n == Len(events) - 1
        <3>1. /\ n \in 1..Len(events) /\ n - 1 = Len(events') - 1
              /\ Newest(events, last, n).role = "assistant"
            BY <1>3, <2>1, <2>2
        <3> HIDE DEF n
        <3>2. Newest(events', last', n - 1) = Newest(events, last, n)
            BY ONLY Typed, <1>1, <3>1, NewestShifts
        <3> QED
            BY <3>1, <3>2 DEF n
    <2> QED
        BY <1>1, <1>3, <2>1, <2>2, <2>3
<1>7. ReplyLast'
    <2> SUFFICES ASSUME phase' = "answered", ~switching'
                 PROVE  /\ context' # <<>> /\ Last(context') = reply'
                        /\ Newest(events', last', Len(events')) = reply'
        BY DEF ReplyLast
    <2>1. context # <<>> /\ Last(context) = reply /\ Newest(events, last, Len(events)) = reply
        BY <1>1 DEF OneRun, RunOver, ReplyLast
    <2>2. reply.role = "assistant"
        BY <1>1, Roles DEF Typed
    <2>3. Newest(events', last', Len(events')) = reply
        <3> DEFINE n == Len(events)
        <3>1. /\ n \in 1..Len(events) /\ n - 1 = Len(events')
              /\ Newest(events, last, n).role = "assistant"
            BY <1>3, <2>1, <2>2
        <3> HIDE DEF n
        <3>2. Newest(events', last', n - 1) = Newest(events, last, n)
            BY ONLY Typed, <1>1, <3>1, NewestShifts
        <3> QED
            BY <2>1, <3>1, <3>2 DEF n
    <2> QED
        BY <1>1, <2>1, <2>3
<1>8. ErrorEnds'
    <2> SUFFICES ASSUME NEW i \in 1..(Len(events) - 1), IsError(events'[i])
                 PROVE  /\ phase' # "open"
                        /\ \A j \in (i + 1)..(Len(events) - 1) : events'[j] = AgentEnd
        BY <1>3 DEF ErrorEnds
    <2>1. IsError(events[i + 1]) /\ i + 1 \in 1..Len(events)
        BY <1>3
    <2>2. phase # "open" /\ \A j \in (i + 2)..Len(events) : events[j] = AgentEnd
        BY <1>3, <2>1 DEF OneRun, RunOver, ErrorEnds
    <2> QED
        BY <1>1, <1>3, <2>2
<1> QED
    BY <1>4, <1>5, <1>6, <1>7, <1>8 DEF OneRun, RunOver

\* When the chain takes agent_end the run is over and it is the last event.
LEMMA EndTaken ==
    ASSUME Typed, OneRun, Take, Head(events).role = "agent_end"
    PROVE  /\ events = <<AgentEnd>> /\ events' = <<>> /\ phase = "idle" /\ timers = 0
           /\ context # <<>> /\ Last(context) = last /\ last.role = "assistant"
<1>1. events \in Seq(Events) /\ events # <<>> /\ events' = Tail(events)
    BY DEF Typed, Take
<1>2. events[1] = AgentEnd /\ 1 \in DOMAIN events
    <2>1. \A e \in Users \cup Answers : e.role # "agent_end"
        BY Roles
    <2> QED
        BY <1>1, <2>1 DEF Events
<1>3. Len(events) = 1 /\ phase = "idle"
    BY <1>2 DEF OneRun, RunOver, EndsRun
<1>4. events = <<AgentEnd>> /\ events' = <<>>
    BY <1>1, <1>2, <1>3
<1>5. Newest(events, last, 0) = last /\ Len(events) - 1 = 0
    BY <1>3 DEF Newest
<1>6. context # <<>> /\ Last(context) = last /\ last.role = "assistant"
    BY <1>1, <1>3, <1>5 DEF OneRun, RunOver, AnswerLast
<1> QED
    BY <1>1, <1>3, <1>4, <1>6 DEF OneRun, Armed

LEMMA ChainOver ==
    ASSUME Typed, Order, OneRun, ChainStep
    PROVE  OneRun'
<1>1. ASSUME ProcessEnd \/ RetryBegins \/ RetryGivesUp \/ ProcessCompacts PROVE OneRun'
    <2>1. Take /\ Head(events).role = "agent_end" /\ phase' = phase /\ timers' = timers
        BY <1>1 DEF ProcessEnd, RetryBegins, RetryGivesUp, ProcessCompacts, agentVars, compVars
    <2>2. Still' /\ timers' = 0
        BY <2>1, EndTaken DEF Still
    <2> QED
        BY <2>2, StillIsOver DEF OneRun, Armed
<1>2. ASSUME BackoffEnds PROVE OneRun'
    <2>1. Still /\ timers = 0
        BY <1>2 DEF BackoffEnds, OneRun, Waits, Armed, Still
    <2>2. Still' /\ handler' = "idle" /\ timers' = 1
        BY <1>2, <2>1 DEF BackoffEnds, Still, agentVars
    <2> QED
        BY <2>2, StillIsOver DEF OneRun, Armed, Still
<1>3. ASSUME BackoffAborted PROVE OneRun'
    <2>1. Still /\ timers = 0
        BY <1>3 DEF BackoffAborted, OneRun, Waits, Armed, Still
    <2>2. Still' /\ timers' = 0
        BY <1>3, <2>1 DEF BackoffAborted, Still, agentVars, compVars
    <2> QED
        BY <2>2, StillIsOver DEF OneRun, Armed
<1> QED
    BY <1>1, <1>2, <1>3, MessageOver DEF ChainStep

LEMMA CompactionOver ==
    ASSUME Typed, Order, OneRun, ~crossed', NEW t \in Threads, CompactionStep(t)
    PROVE  OneRun'
<1>1. Still /\ timers = 0
    BY CompactsStill DEF CompactionStep, CompactionPrepared, CompactionFails, CompactionSaved,
       CompactionDone, Compacts
<1>2. Still'
    BY <1>1 DEF CompactionStep, CompactionPrepared, CompactionFails, CompactionSaved,
       CompactionDone, Still, agentVars
<1>3. CASE CompactionPrepared(t) \/ CompactionFails(t) \/ CompactionSaved(t)
    <2>1. timers' = 0
        BY <1>1, <1>3 DEF CompactionPrepared, CompactionFails, CompactionSaved
    <2> QED
        BY <1>2, <2>1, StillIsOver DEF OneRun, Armed
<1>4. CASE CompactionDone(t)
    <2>1. /\ timers' = timers \/ (t # Manual /\ timers' = timers + 1)
          /\ t \in Callers => timers' = timers
          /\ handler' = IF t = Chain THEN "idle" ELSE handler
        BY <1>4 DEF CompactionDone, AfterCompaction
    <2>2. timers' = 0 \/ (t = Chain /\ timers' = 1 /\ handler' = "idle")
        BY <1>1, <2>1, ThreadKinds
    <2> QED
        BY <1>2, <2>2, StillIsOver DEF OneRun, Armed, Still
<1> QED
    BY <1>3, <1>4 DEF CompactionStep

LEMMA ClientOver ==
    ASSUME Typed, Order, OneRun,
           \/ \E p \in Callers : \/ PromptQueues(p) \/ PromptCalled(p) \/ PromptChecks(p)
                                 \/ PromptThrows(p) \/ PromptAwaitsRetry(p)
           \/ Abort \/ AbortCompaction \/ CompactCalled \/ CompactBegins
           \/ NewSessionCalled \/ NewSessionStarts
    PROVE  OneRun'
<1>1. CASE \E p \in Callers : PromptChecks(p)
    <2>1. Calm
        BY <1>1 DEF PromptChecks, Order, PromptCalm
    <2>2. Still' /\ timers' = 0
        BY <1>1, <2>1 DEF PromptChecks, Calm, Still
    <2> QED
        BY <2>2, StillIsOver DEF OneRun, Armed
<1>2. CASE NewSessionStarts
    <2>1. Still' /\ timers' = timers /\ handler' = handler
        BY <1>2 DEF NewSessionStarts, Still, Order, SwitchApart, compVars
    <2> QED
        BY <1>2, <2>1, StillIsOver DEF OneRun, Armed, Still, NewSessionStarts
<1>3. CASE \/ \E p \in Callers : \/ PromptQueues(p) \/ PromptCalled(p) \/ PromptThrows(p)
                                 \/ PromptAwaitsRetry(p)
           \/ Abort \/ AbortCompaction \/ CompactCalled \/ CompactBegins \/ NewSessionCalled
    <2>1. /\ UNCHANGED <<phase, events, context, last, reply, timers>>
          /\ switching' = switching \/ switching'
        BY <1>3 DEF PromptQueues, PromptCalled, PromptThrows, PromptAwaitsRetry, Abort,
           AbortCompaction, CompactCalled, CompactBegins, NewSessionCalled, agentVars, retryVars,
           compVars, clientVars
    <2>2. (handler' = "idle") = (handler = "idle")
        BY <1>3 DEF PromptQueues, PromptCalled, PromptThrows, PromptAwaitsRetry, Abort, AbortRun,
           AbortCompaction, CompactCalled, CompactBegins, NewSessionCalled
    <2> QED
        BY <2>1, <2>2, SameRun DEF OneRun, Waits, Armed
<1> QED
    BY <1>1, <1>2, <1>3

LEMMA CrossedStays ==
    ASSUME Typed, Next
    PROVE  crossed => crossed'
<1>1. ASSUME NEW t \in Threads, CompactionStep(t) PROVE crossed => crossed'
    BY <1>1 DEF CompactionStep, CompactionPrepared, CompactionFails, CompactionSaved,
       CompactionDone, historyVars
<1>2. ASSUME NEW p \in Callers, PromptQueues(p) \/ PromptCalled(p) \/ PromptStep(p)
      PROVE  crossed => crossed'
    BY <1>2 DEF PromptQueues, PromptCalled, PromptStep, PromptChecks, PromptThrows, PromptRuns,
       PromptAwaitsRetry, historyVars
<1>3. ASSUME ChainStep PROVE crossed => crossed'
    BY <1>3 DEF ChainStep, ProcessMessage, ProcessEnd, RetryBegins, RetryGivesUp, BackoffEnds,
       BackoffAborted, ProcessCompacts, historyVars
<1>4. ASSUME AgentStep PROVE crossed => crossed'
    BY <1>4 DEF AgentStep, AnswerArrives, NextTurn, RunEnds, historyVars
<1> QED
    BY <1>1, <1>2, <1>3, <1>4 DEF Next, TimerFires, Abort, AbortCompaction, CompactCalled,
       CompactBegins, NewSessionCalled, NewSessionStarts, historyVars

LEMMA InitOver == Init => OneRun
BY StillIsOver DEF Init, OneRun, Waits, Armed, RunOver, EndsRun, AnswerLast, ReplyLast, ErrorEnds

LEMMA NextOver ==
    ASSUME Typed, Order, OneRun, ~crossed, ~crossed', [Next]_vars
    PROVE  OneRun'
<1>1. CASE UNCHANGED vars
    <2>1. UNCHANGED <<phase, events, context, last, reply, timers, handler, switching>>
        BY <1>1 DEF vars, agentVars, retryVars, compVars, clientVars
    <2> QED
        BY <2>1, SameRun DEF OneRun, Waits, Armed
<1>2. CASE AgentStep
    BY <1>2, AnswerOver, NextTurnOver, RunEndsOver DEF AgentStep
<1>3. CASE \E p \in Callers : PromptQueues(p) \/ PromptCalled(p) \/ PromptStep(p)
    BY <1>3, ClientOver, PromptOver DEF PromptStep
<1>4. CASE \E t \in Threads : CompactionStep(t)
    BY <1>4, CompactionOver
<1> QED
    BY <1>1, <1>2, <1>3, <1>4, ChainOver, TimerOver, ClientOver DEF Next

-----------------------------------------------------------------------------
(* The failures of the request that is being made.                         *)

\* What the session holds once the chain has taken every event.
Told == session \o events
Good(e) == e.role = "assistant" /\ ~IsError(e)

\* _retryAttempt once the chain has seen the answers that wait.
Attempts == IF \E i \in DOMAIN events : Good(events[i]) THEN 0 ELSE attempt

\* The last answer failed and the chain has not decided what to do about it.
Undecided ==
    \/ phase = "answered" /\ reply.stop = "retryable"
    \/ phase = "idle" /\ events # <<>>
       /\ Newest(events, last, Len(events) - 1).stop = "retryable"
Allowance == Attempts + IF Undecided THEN 1 ELSE 0

Busy ==
    connected /\ (phase # "idle" \/ events # <<>> \/ timers # 0
                  \/ handler \in {"backoff", "compacting"})
Retries ==
    /\ Busy => FailureCount(Told) <= Allowance
    /\ FailureCount(session) <= MaxRetries + 1

All == SessionEntries \cup Events

LEMMA ToldType ==
    ASSUME Typed
    PROVE  /\ session \in Seq(All) /\ events \in Seq(All) /\ Told \in Seq(All)
           /\ session \in Seq(SessionEntries)
           /\ FailureCount(Told) \in Nat /\ FailureCount(session) \in Nat
           /\ attempt \in 0..MaxRetries /\ MaxRetries \in Nat /\ Attempts \in 0..MaxRetries
<1>1. session \in Seq(SessionEntries) /\ events \in Seq(Events)
    BY DEF Typed, TypeOK
<1>2. session \in Seq(All) /\ events \in Seq(All)
    BY <1>1 DEF All
<1>3. Told \in Seq(All)
    BY <1>2 DEF Told
<1>4. AgentEnd \in All
    BY DEF All, Events
<1>5. FailureCount(Told) \in Nat /\ FailureCount(session) \in Nat
    BY <1>2, <1>3, <1>4, CountAppend
<1>6. attempt \in 0..MaxRetries /\ MaxRetries \in Nat
    BY AgentSessionAssumption DEF Typed, TypeOK
<1> QED
    BY <1>1, <1>2, <1>3, <1>5, <1>6 DEF Attempts

\* Nothing that counts changes, and nobody gets busy.
LEMMA PlainRetries ==
    ASSUME Retries, UNCHANGED <<phase, reply, events, last, attempt, session>>, Busy' => Busy
    PROVE  Retries'
<1>1. Told' = Told /\ Attempts' = Attempts /\ Undecided' = Undecided
    BY DEF Told, Attempts, Undecided
<1> QED
    BY <1>1 DEF Retries, Allowance

LEMMA IdleRetries ==
    ASSUME Retries, ~Busy', session' = session \/ session' = <<>>
    PROVE  Retries'
<1>1. FailureCount(session)' = FailureCount(session) \/ FailureCount(session)' = 0
    BY CountNone
<1>2. MaxRetries \in Nat
    BY AgentSessionAssumption
<1> QED
    BY <1>1, <1>2 DEF Retries

\* An event is chained.
LEMMA ToldAppend ==
    ASSUME Typed, NEW e \in Events, events' = Append(events, e), session' = session,
           attempt' = attempt
    PROVE  /\ Progress(e) => FailureCount(Told)' = 0
           /\ ~Progress(e) /\ Failed(e) => FailureCount(Told)' = FailureCount(Told) + 1
           /\ ~Progress(e) /\ ~Failed(e) => FailureCount(Told)' = FailureCount(Told)
           /\ ~Good(e) => Attempts' = Attempts
           /\ Attempts' \in Nat
<1>1. session \in Seq(All) /\ events \in Seq(All) /\ Told \in Seq(All) /\ e \in All
    BY ToldType DEF All
<1>2. Told' = Append(Told, e)
    BY <1>1 DEF Told
<1>3. FailureCount(Told)' = FailureCount(Append(Told, e))
    BY <1>2
<1>4. /\ Progress(e) => FailureCount(Append(Told, e)) = 0
      /\ ~Progress(e) /\ Failed(e) => FailureCount(Append(Told, e)) = FailureCount(Told) + 1
      /\ ~Progress(e) /\ ~Failed(e) => FailureCount(Append(Told, e)) = FailureCount(Told)
    BY <1>1, CountAppend
<1>5. ~Good(e) => Attempts' = Attempts
    <2>1. /\ DOMAIN events' = 1..(Len(events) + 1) /\ DOMAIN events = 1..Len(events)
          /\ \A i \in 1..Len(events) : events'[i] = events[i]
          /\ events'[Len(events) + 1] = e /\ Len(events) \in Nat
        BY <1>1, AppendFacts
    <2>2. ~Good(e) => ((\E i \in DOMAIN events' : Good(events'[i]))
                       <=> (\E i \in DOMAIN events : Good(events[i])))
        BY <2>1
    <2> QED
        BY <2>2 DEF Attempts
<1>6. Attempts' \in Nat
    BY ToldType DEF Attempts
<1> QED
    BY <1>3, <1>4, <1>5, <1>6

LEMMA AnswerRetries ==
    ASSUME Typed, Order, OneRun, Retries, NEW stop \in Stops, AnswerArrives(stop)
    PROVE  Retries'
<1> DEFINE m == Answer(clock - 1, stop)
<1>1. /\ phase = "open" /\ phase' = "answered" /\ reply' = m /\ Chained(<<m>>)
      /\ UNCHANGED <<connected, session, attempt>>
    BY DEF AnswerArrives, retryVars, clientVars
<1>2. m \in Answers /\ m.stop = stop
    <2>1. clock - 1 \in Nat /\ epoch \in 1..MaxSessions
        BY DEF Typed
    <2> QED
        BY <2>1, AnswerType DEF Answer
<1> HIDE DEF m
<1>3. CASE ~connected
    BY <1>1, <1>3, IdleRetries DEF Busy
<1>4. CASE connected
    <2>1. events' = Append(events, m)
        BY <1>1, <1>2, <1>4 DEF Chained, Typed
    <2>2. m \in Events /\ m.role = "assistant" /\ (Progress(m) = ~IsError(m))
          /\ (Failed(m) = (stop = "retryable")) /\ (IsError(m) = (stop \in Errors))
          /\ (Good(m) = ~IsError(m))
        BY <1>2, EventKinds, Roles DEF Progress, Failed, Good, IsError
    <2>3. FailureCount(Told) <= Attempts
        BY <1>1, <1>4, ToldType DEF Retries, Busy, Allowance, Undecided
    <2>4. Undecided' = (stop = "retryable")
        BY <1>1, <1>2 DEF Undecided
    <2>5. FailureCount(Told)' <= Allowance'
        <3>0. /\ stop = "retryable" => Allowance' = Attempts' + 1
              /\ stop # "retryable" => Allowance' = Attempts'
              /\ Attempts' \in Nat /\ Attempts \in Nat /\ FailureCount(Told) \in Nat
            <4>1. Undecided' <=> stop = "retryable"
                BY <2>4
            <4>3. Attempts' \in Nat
                BY <1>1, <2>1, <2>2, ToldAppend
            <4>2. /\ Undecided' => Allowance' = Attempts' + 1
                  /\ ~Undecided' => Allowance' = Attempts'
                <5>1. CASE Undecided'
                    BY <5>1 DEF Allowance
                <5>2. CASE ~Undecided'
                    <6>1. Allowance' = Attempts' + 0
                        BY <5>2 DEF Allowance
                    <6>2. \A x \in Nat : x + 0 = x
                        OBVIOUS
                    <6> QED
                        BY <4>3, <5>2, <6>1, <6>2
                <5> QED
                    BY <5>1, <5>2
            <4>4. Attempts \in Nat /\ FailureCount(Told) \in Nat
                BY ToldType
            <4> QED
                BY <4>1, <4>2, <4>3, <4>4
        <3>1. CASE stop \notin Errors
            <4>1. FailureCount(Told)' = 0
                BY <1>1, <2>1, <2>2, <3>1, ToldAppend
            <4>2. Allowance' = Attempts'
                <5>1. stop # "retryable"
                    BY <3>1 DEF Errors
                <5> QED
                    BY <3>0, <5>1
            <4> QED
                BY <3>0, <4>1, <4>2
        <3>2. CASE stop = "retryable"
            <4>1. FailureCount(Told)' = FailureCount(Told) + 1 /\ Attempts' = Attempts
                BY <1>1, <2>1, <2>2, <3>2, ToldAppend DEF Errors
            <4> QED
                BY <2>3, <3>0, <3>2, <4>1
        <3>3. CASE stop \in Errors /\ stop # "retryable"
            <4>1. FailureCount(Told)' = FailureCount(Told) /\ Attempts' = Attempts
                BY <1>1, <2>1, <2>2, <3>3, ToldAppend
            <4> QED
                BY <2>3, <3>0, <3>3, <4>1
        <3> QED
            BY <3>1, <3>2, <3>3
    <2> QED
        BY <1>1, <2>5 DEF Retries
<1> QED
    BY <1>3, <1>4

\* A user's message makes room for as many retries as there are.
LEMMA UserRetries ==
    ASSUME Typed, Retries, NEW m \in Users, Chained(<<m>>),
           UNCHANGED <<connected, session, attempt>>, phase' = "open"
    PROVE  Retries'
<1>1. CASE ~connected
    BY <1>1, IdleRetries DEF Busy
<1>2. CASE connected
    <2>1. events' = Append(events, m) /\ m \in Events /\ Progress(m)
        BY <1>2, EventKinds, Roles DEF Chained, Typed, Progress
    <2>2. FailureCount(Told)' = 0 /\ Attempts' \in Nat
        BY <2>1, ToldAppend
    <2>3. Allowance' = Attempts' + 0 \/ Allowance' = Attempts' + 1
        BY DEF Allowance
    <2>4. FailureCount(Told)' <= Allowance'
        BY <2>2, <2>3
    <2>5. FailureCount(session)' <= MaxRetries + 1
        BY DEF Retries
    <2> QED
        BY <2>4, <2>5 DEF Retries
<1> QED
    BY <1>1, <1>2

LEMMA RunEndsRetries ==
    ASSUME Typed, Order, OneRun, Retries, RunEnds
    PROVE  Retries'
<1>1. /\ phase = "answered" /\ phase' = "idle" /\ Chained(<<AgentEnd>>)
      /\ UNCHANGED <<connected, session, attempt, last, handler, timers>>
    BY DEF RunEnds, compVars
<1>2. handler = "idle" /\ timers = 0
    BY <1>1 DEF OneRun, Waits, Armed
<1>3. CASE ~connected
    BY <1>1, <1>3, IdleRetries DEF Busy
<1>4. CASE connected
    <2>1. events' = Append(events, AgentEnd) /\ AgentEnd \in Events /\ ~switching
          /\ events \in Seq(Events)
        BY <1>1, <1>4, EventKinds DEF Chained, Typed, Order, SwitchApart
    <2>2. ~Progress(AgentEnd) /\ ~Failed(AgentEnd) /\ ~Good(AgentEnd)
        BY DEF AgentEnd, Progress, Failed, Good
    <2>3. FailureCount(Told)' = FailureCount(Told) /\ Attempts' = Attempts
        BY <1>1, <2>1, <2>2, ToldAppend
    <2>4. Newest(events, last, Len(events)) = reply
        BY <1>1, <2>1 DEF OneRun, RunOver, ReplyLast
    <2>5. Newest(events', last', Len(events') - 1) = reply
        <3>1. /\ Len(events') - 1 = Len(events) /\ Len(events) \in Nat
              /\ \A i \in 1..Len(events) : events'[i] = events[i]
            BY <2>1, AppendFacts
        <3> QED
            BY <1>1, <2>4, <3>1 DEF Newest
    <2>6. Undecided => Undecided'
        <3>1. events' # <<>>
            BY <2>1
        <3> QED
            BY <1>1, <2>5, <3>1 DEF Undecided
    <2>7. FailureCount(Told) <= Allowance
        BY <1>1, <1>4 DEF Retries, Busy
    <2>8. FailureCount(Told)' <= Allowance'
        BY <2>3, <2>6, <2>7, ToldType DEF Allowance
    <2> QED
        BY <1>1, <2>8 DEF Retries
<1> QED
    BY <1>3, <1>4

LEMMA TimerRetries ==
    ASSUME Typed, Order, OneRun, Retries, TimerFires
    PROVE  Retries'
<1>1. Still /\ handler = "idle" /\ timers' = 0 /\ timers # 0
      /\ UNCHANGED <<handler, connected, session, attempt, last>>
    BY DEF TimerFires, OneRun, Armed, Still, retryVars, clientVars
<1>2. UserMsg(clock) \in Users
    BY UserType DEF Typed
<1>3. \/ BeginRun(None, <<>>) \/ BeginRun(None, <<UserMsg(clock)>>)
      \/ UNCHANGED <<phase, events, reply>>
    BY DEF TimerFires, agentVars
<1>4. CASE BeginRun(None, <<UserMsg(clock)>>)
    BY <1>1, <1>2, <1>4, UserRetries DEF BeginRun
<1>5. CASE UNCHANGED <<phase, events, reply>>
    BY <1>1, <1>5, PlainRetries DEF Busy
<1>6. CASE BeginRun(None, <<>>)
    <2>1. events' = events /\ phase' = "open"
        BY <1>1, <1>6 DEF BeginRun, Chained, Still
    <2>2. Told' = Told /\ Attempts' = Attempts /\ ~Undecided /\ ~Undecided'
        BY <1>1, <2>1 DEF Told, Attempts, Undecided, Still
    <2>3. Busy' => Busy
        BY <1>1 DEF Busy
    <2> QED
        BY <1>1, <2>2, <2>3 DEF Retries, Allowance
<1> QED
    BY <1>3, <1>4, <1>5, <1>6

\* The first event becomes an entry: the story is the same.
LEMMA ToldShifts ==
    ASSUME Typed, Take, session' = Append(session, Head(events))
    PROVE  Told' = Told
<1>1. session \in Seq(All) /\ events \in Seq(All) /\ events # <<>> /\ events' = Tail(events)
    BY ToldType DEF Take
<1> QED
    BY <1>1 DEF Told

LEMMA MessageRetries ==
    ASSUME Typed, Order, OneRun, Retries, ProcessMessage
    PROVE  Retries'
<1> DEFINE m == Head(events)
<1>1. /\ Take /\ m.role \in {"user", "assistant"} /\ session' = Append(session, m)
      /\ last' = IF m.role = "assistant" THEN m ELSE last
      /\ IF Good(m) /\ attempt > 0 THEN attempt' = 0 ELSE attempt' = attempt
      /\ UNCHANGED <<phase, reply, handler, timers, connected>>
    BY DEF ProcessMessage, agentVars, compVars, Good
<1>2. events \in Seq(Events) /\ events # <<>> /\ events' = Tail(events) /\ handler = "idle"
    BY <1>1 DEF Typed, Take
<1>3. /\ Len(events) \in Nat \ {0} /\ Len(events') = Len(events) - 1
      /\ DOMAIN events' = 1..(Len(events) - 1) /\ DOMAIN events = 1..Len(events)
      /\ \A i \in 1..(Len(events) - 1) : events'[i] = events[i + 1]
      /\ events[1] = m
    BY <1>2
<1>4. Told' = Told
    BY <1>1, ToldShifts
<1>5. m \in Users \cup Answers
    <2>1. m \in Events
        BY <1>1, TakeTyped
    <2> QED
        BY <1>1, <2>1 DEF Events, AgentEnd
<1> HIDE DEF m
<1>6. Attempts' = Attempts
    <2>1. CASE Good(m)
        <3>1. Attempts = 0
            BY <1>3, <2>1 DEF Attempts
        <3>2. attempt' = 0
            BY <1>1, <2>1, ToldType
        <3> QED
            BY <3>1, <3>2 DEF Attempts
    <2>2. CASE ~Good(m)
        <3>1. (\E i \in DOMAIN events' : Good(events'[i])) => \E i \in DOMAIN events : Good(events[i])
            BY <1>3
        <3>2. (\E i \in DOMAIN events : Good(events[i])) => \E i \in DOMAIN events' : Good(events'[i])
            <4> SUFFICES ASSUME NEW i \in DOMAIN events, Good(events[i])
                         PROVE  \E k \in DOMAIN events' : Good(events'[k])
                OBVIOUS
            <4>1. i # 1
                BY <1>3, <2>2
            <4>2. i - 1 \in DOMAIN events' /\ events'[i - 1] = events[i]
                BY <1>3, <4>1
            <4> QED
                BY <4>2
        <3>3. attempt' = attempt
            BY <1>1, <2>2
        <3> QED
            BY <3>1, <3>2, <3>3 DEF Attempts
    <2> QED
        BY <2>1, <2>2
<1>7. Undecided => Undecided'
    <2>1. CASE phase = "answered"
        BY <1>1, <2>1 DEF Undecided
    <2>2. CASE phase = "idle"
        <3> DEFINE n == Len(events) - 1
        <3>1. Newest(events, last, n).role = "assistant" /\ events[Len(events)] = AgentEnd
            BY <1>2, <2>2 DEF OneRun, RunOver, AnswerLast
        <3>2. Len(events) # 1
            BY <1>3, <1>5, <3>1, EventKinds
        <3>3. n \in 1..Len(events) /\ n - 1 = Len(events') - 1 /\ events' # <<>>
            <4>1. Len(events') # 0
                BY <1>3, <3>2
            <4> QED
                BY <1>3, <3>2, <4>1
        <3> HIDE DEF n
        <3>4. last' = IF Head(events).role = "assistant" THEN Head(events) ELSE last
            BY <1>1 DEF m
        <3>5. Newest(events', last', n - 1) = Newest(events, last, n)
            BY ONLY Typed, <1>1, <3>1, <3>3, <3>4, NewestShifts
        <3> QED
            BY <1>1, <2>2, <3>3, <3>5 DEF Undecided, n
    <2> QED
        BY <2>1, <2>2 DEF Undecided
<1>8. connected
    BY <1>2, Heard DEF Calm, Order, SwitchApart
<1>9. FailureCount(Told) <= Allowance
    BY <1>2, <1>8 DEF Retries, Busy
<1>10. FailureCount(Told)' <= Allowance'
    BY <1>4, <1>6, <1>7, <1>9, ToldType DEF Allowance
<1>11. FailureCount(session)' <= MaxRetries + 1
    <2>1. session \in Seq(All) /\ m \in All /\ session' \in Seq(All)
        <3>1. m \in All
            BY <1>5 DEF All, Events
        <3> QED
            BY <1>1, <3>1, ToldType, AppendFacts
    <2>2. CASE ~Failed(m)
        <3>1. FailureCount(session') = 0 \/ FailureCount(session') = FailureCount(session)
            BY <1>1, <2>1, <2>2, CountAppend
        <3> QED
            BY <3>1, ToldType DEF Retries
    <2>3. CASE Failed(m)
        <3>1. IsError(m)
            BY <2>3 DEF Failed, IsError, Errors
        <3>2. \A j \in 2..Len(events) : events[j] = AgentEnd
            BY <1>3, <3>1 DEF OneRun, RunOver, ErrorEnds
        <3>3. Len(events) <= 2
            <4>1. 2 \in DOMAIN events => 2 = Len(events)
                BY <1>3, <3>2 DEF OneRun, RunOver, EndsRun
            <4> QED
                BY <1>3, <4>1
        <3>4. events' = <<>> \/ events' = <<AgentEnd>>
            <4>1. CASE Len(events) = 1
                BY <1>2, <1>3, <4>1
            <4>2. CASE Len(events) = 2
                <5>1. events[2] = AgentEnd
                    BY <3>2, <4>2
                <5>2. Len(events') = 1 /\ events'[1] = AgentEnd /\ events' \in Seq(Events)
                    BY <1>2, <1>3, <4>2, <5>1
                <5> QED
                    BY <5>2
            <4> QED
                BY <1>3, <3>3, <4>1, <4>2
        <3>5. Told' = session' \/ Told' = Append(session', AgentEnd)
            <4>1. Told' = session' \o events'
                BY DEF Told
            <4>2. session' \o <<>> = session' /\ session' \o <<AgentEnd>> = Append(session', AgentEnd)
                BY <2>1
            <4> QED
                BY <3>4, <4>1, <4>2
        <3>6. FailureCount(Append(session', AgentEnd)) = FailureCount(session')
            <4>1. ~Progress(AgentEnd) /\ ~Failed(AgentEnd) /\ AgentEnd \in All
                BY DEF AgentEnd, Progress, Failed, All, Events
            <4> QED
                BY <2>1, <4>1, CountAppend
        <3>7. FailureCount(session') = FailureCount(Told)'
            BY <3>5, <3>6
        <3>8. FailureCount(Told) \in Nat /\ Attempts \in 0..MaxRetries /\ MaxRetries \in Nat
            BY ToldType
        <3> QED
            BY <1>4, <1>9, <3>7, <3>8 DEF Allowance
    <2> QED
        BY <2>2, <2>3
<1> QED
    BY <1>10, <1>11 DEF Retries

\* agent_end is taken: what is left is what the session holds.
LEMMA EndRetries ==
    ASSUME Typed, Order, OneRun, Retries, Take, Head(events).role = "agent_end",
           session' = session
    PROVE  /\ FailureCount(Told)' = FailureCount(session)
           /\ FailureCount(session) <= attempt + IF last.stop = "retryable" THEN 1 ELSE 0
<1>1. events = <<AgentEnd>> /\ events' = <<>> /\ phase = "idle"
    BY EndTaken
<1>2. session \in Seq(All) /\ AgentEnd \in All /\ ~Progress(AgentEnd) /\ ~Failed(AgentEnd)
    BY ToldType DEF AgentEnd, Progress, Failed, All, Events
<1>3. Told = Append(session, AgentEnd) /\ Told' = session
    BY <1>1, <1>2 DEF Told
<1>4. FailureCount(Told) = FailureCount(session)
    BY <1>2, <1>3, CountAppend
<1>5. connected
    BY <1>1, Heard DEF Calm, Order, SwitchApart
<1>6. Attempts = attempt
    BY <1>1 DEF Attempts, Good, AgentEnd
<1>7. Undecided = (last.stop = "retryable")
    <2>1. Newest(events, last, Len(events) - 1) = last
        BY <1>1 DEF Newest
    <2> QED
        BY <1>1, <2>1 DEF Undecided
<1>8. FailureCount(Told) <= Allowance
    BY <1>1, <1>5 DEF Retries, Busy
<1> QED
    BY <1>3, <1>4, <1>6, <1>7, <1>8 DEF Allowance

LEMMA ChainRetries ==
    ASSUME Typed, Order, OneRun, Retries, ChainStep
    PROVE  Retries'
<1>1. ASSUME ProcessEnd \/ RetryGivesUp PROVE Retries'
    <2>1. /\ Take /\ Head(events).role = "agent_end" /\ session' = session
          /\ UNCHANGED <<phase, timers, handler>> /\ handler = "idle"
        BY <1>1 DEF ProcessEnd, RetryGivesUp, agentVars, compVars, Take
    <2>2. ~Busy'
        BY <2>1, EndTaken DEF Busy
    <2> QED
        BY <2>1, <2>2, IdleRetries
<1>2. ASSUME RetryBegins PROVE Retries'
    <2>1. /\ Take /\ Head(events).role = "agent_end" /\ session' = session
          /\ phase' = phase /\ last.stop = "retryable" /\ attempt' = attempt + 1
        BY <1>2 DEF RetryBegins
    <2>2. Attempts' = attempt + 1 /\ ~Undecided'
        BY <2>1, EndTaken DEF Attempts, Undecided
    <2>3. FailureCount(Told)' <= attempt + 1
        BY <2>1, EndRetries
    <2>4. attempt \in Nat
        BY ToldType
    <2>5. FailureCount(Told)' <= Allowance'
        BY <2>2, <2>3, <2>4 DEF Allowance
    <2> QED
        BY <2>1, <2>5 DEF Retries
<1>3. ASSUME ProcessCompacts PROVE Retries'
    <2>1. /\ Take /\ Head(events).role = "agent_end" /\ session' = session
          /\ phase' = phase /\ last.stop # "retryable" /\ attempt' = attempt
        BY <1>3 DEF ProcessCompacts
    <2>2. Attempts' = attempt /\ ~Undecided'
        BY <2>1, EndTaken DEF Attempts, Undecided
    <2>3. FailureCount(Told)' <= attempt + 0
        BY <2>1, EndRetries
    <2>4. attempt \in Nat
        BY ToldType
    <2>5. FailureCount(Told)' <= Allowance'
        BY <2>2, <2>3, <2>4 DEF Allowance
    <2> QED
        BY <2>1, <2>5 DEF Retries
<1>4. ASSUME BackoffEnds PROVE Retries'
    <2>1. Busy' => Busy
        BY <1>4 DEF BackoffEnds, Busy, agentVars, clientVars
    <2> QED
        BY <1>4, <2>1, PlainRetries DEF BackoffEnds, agentVars, retryVars
<1>5. ASSUME BackoffAborted PROVE Retries'
    <2>1. Still /\ timers = 0
        BY <1>5 DEF BackoffAborted, OneRun, Waits, Armed, Still
    <2>2. ~Busy' /\ session' = session
        BY <1>5, <2>1 DEF BackoffAborted, Still, agentVars, compVars, Busy
    <2> QED
        BY <2>2, IdleRetries
<1> QED
    BY <1>1, <1>2, <1>3, <1>4, <1>5, MessageRetries DEF ChainStep

LEMMA CompactionRetries ==
    ASSUME Typed, Order, OneRun, Retries, ~crossed', NEW t \in Threads, CompactionStep(t)
    PROVE  Retries'
<1>1. Still /\ timers = 0 /\ Compacts(t)
    <2>1. Compacts(t)
        BY DEF CompactionStep, CompactionPrepared, CompactionFails, CompactionSaved,
           CompactionDone, Compacts
    <2> QED
        BY <2>1, CompactsStill
<1>2. t = Chain => handler = "compacting"
    BY <1>1 DEF Typed, TypeOK, Compacts
<1>3. t = Manual => Calm
    BY <1>1 DEF Order, ManualAlone
<1>4. ASSUME CompactionPrepared(t) PROVE Retries'
    <2>1. Busy' => Busy
        BY <1>4 DEF CompactionPrepared, Busy, agentVars, clientVars
    <2> QED
        BY <1>4, <2>1, PlainRetries DEF CompactionPrepared, agentVars, retryVars
<1>5. ASSUME CompactionFails(t) PROVE Retries'
    <2>1. /\ connected' = (connected \/ t = Manual) /\ timers' = timers
          /\ handler' = (IF t = Chain THEN "idle" ELSE handler)
          /\ UNCHANGED <<phase, events>>
        BY <1>5 DEF CompactionFails, AfterCompaction, agentVars
    <2>2. Busy' => Busy
        BY <1>1, <1>2, <1>3, <2>1 DEF Busy, Calm, Still
    <2> QED
        BY <1>5, <2>2, PlainRetries DEF CompactionFails, agentVars, retryVars
<1>6. ASSUME CompactionDone(t) PROVE Retries'
    <2>1. /\ connected' = (connected \/ t = Manual)
          /\ timers' = timers \/ t = Chain
          /\ handler' = (IF t = Chain THEN "idle" ELSE handler)
          /\ UNCHANGED <<phase, events>>
        BY <1>6, ThreadKinds DEF CompactionDone, AfterCompaction
    <2>2. Busy' => Busy
        BY <1>1, <1>2, <1>3, <2>1, ThreadKinds DEF Busy, Calm, Still
    <2> QED
        BY <1>6, <2>2, PlainRetries DEF CompactionDone, retryVars
<1>7. ASSUME CompactionSaved(t) PROVE Retries'
    <2> DEFINE e == CompactionEntry(clock, comp[t].reason, comp[t].kept)
    <2>1. /\ session' = Append(session, e)
          /\ UNCHANGED <<phase, reply, events, last, attempt, connected, timers, handler>>
        BY <1>7 DEF CompactionSaved, retryVars, clientVars
    <2>2. e \in All /\ ~Progress(e) /\ ~Failed(e)
        <3>1. comp[t] \in Comps /\ comp[t].stage = "summary"
            BY <1>7 DEF CompactionSaved, Typed, TypeOK
        <3>2. comp[t].reason \in {"overflow", "threshold", "manual"} /\ comp[t].kept \in Nat \ {0}
            BY <3>1, NoCompType DEF Typed, Reasons
        <3>3. epoch \in 1..MaxSessions /\ clock \in Nat
            BY DEF Typed
        <3>4. e \in Compactions /\ e.role = "compaction"
            BY <3>2, <3>3, CompactionType, Roles
        <3> QED
            BY <3>4 DEF All, SessionEntries, Progress, Failed
    <2> HIDE DEF e
    <2>3. session \in Seq(All)
        BY ToldType
    <2>4. FailureCount(session)' = FailureCount(session)
        BY <2>1, <2>2, <2>3, CountAppend
    <2>5. Told = session /\ Told' = session'
        <3>1. session' \in Seq(All)
            BY <2>1, <2>2, <2>3, AppendFacts
        <3> QED
            BY <1>1, <2>1, <2>3, <3>1 DEF Told, Still
    <2>6. Attempts' = Attempts /\ Undecided' = Undecided /\ Busy' = Busy
        BY <2>1 DEF Attempts, Undecided, Busy
    <2> QED
        BY <2>4, <2>5, <2>6 DEF Retries, Allowance
<1> QED
    BY <1>4, <1>5, <1>6, <1>7 DEF CompactionStep

LEMMA ClientRetries ==
    ASSUME Typed, Order, OneRun, Retries,
           \/ \E p \in Callers : \/ PromptQueues(p) \/ PromptCalled(p) \/ PromptChecks(p)
                                 \/ PromptThrows(p) \/ PromptAwaitsRetry(p)
           \/ Abort \/ AbortCompaction \/ CompactCalled \/ CompactBegins \/ NewSessionCalled
    PROVE  Retries'
<1>1. UNCHANGED <<phase, reply, events, last, attempt, session, timers>>
    BY DEF PromptQueues, PromptCalled, PromptChecks, PromptThrows, PromptAwaitsRetry, Abort,
       AbortCompaction, CompactCalled, CompactBegins, NewSessionCalled, agentVars, retryVars,
       compVars
<1>2. /\ connected' => connected
      /\ handler' \in {"backoff", "compacting"} => handler' = handler
    <2>1. CASE \E p \in Callers : \/ PromptQueues(p) \/ PromptCalled(p) \/ PromptChecks(p)
                                   \/ PromptThrows(p) \/ PromptAwaitsRetry(p)
        <3>1. connected' = connected /\ handler' = handler
            BY <2>1 DEF PromptQueues, PromptCalled, PromptChecks, PromptThrows, PromptAwaitsRetry
        <3> QED
            BY <3>1
    <2>2. CASE Abort \/ AbortCompaction \/ CompactCalled \/ CompactBegins \/ NewSessionCalled
        <3>1. connected' = connected \/ connected' = FALSE
            BY <2>2 DEF Abort, AbortCompaction, CompactCalled, CompactBegins, NewSessionCalled,
               clientVars
        <3>2. handler' = handler \/ handler' = "cancelled"
            BY <2>2 DEF Abort, AbortRun, AbortCompaction, CompactCalled, CompactBegins,
               NewSessionCalled
        <3> QED
            BY <3>1, <3>2
    <2> QED
        BY <2>1, <2>2
<1>3. Busy' => Busy
    BY <1>1, <1>2 DEF Busy
<1> QED
    BY <1>1, <1>3, PlainRetries

LEMMA NewSessionRetries ==
    ASSUME Order, Retries, ~crossed, NewSessionStarts
    PROVE  Retries'
<1>1. ~Busy' /\ session' = <<>>
    BY DEF NewSessionStarts, Order, SwitchApart, Busy, compVars
<1> QED
    BY <1>1, IdleRetries

LEMMA InitRetries == Init => Retries
<1> SUFFICES ASSUME Init PROVE Retries
    OBVIOUS
<1>1. ~Busy /\ FailureCount(session) = 0
    BY CountNone DEF Init, Busy
<1> QED
    BY <1>1, AgentSessionAssumption DEF Retries

LEMMA NextRetries ==
    ASSUME Typed, Order, OneRun, Retries, ~crossed, ~crossed', [Next]_vars
    PROVE  Retries'
<1>0. UserMsg(clock) \in Users
    BY UserType DEF Typed
<1>1. CASE UNCHANGED vars
    <2>1. UNCHANGED <<phase, reply, events, last, attempt, session, connected, timers, handler>>
        BY <1>1 DEF vars, agentVars, retryVars, compVars, clientVars
    <2> QED
        BY <2>1, PlainRetries DEF Busy
<1>2. CASE AgentStep
    <2>1. CASE NextTurn
        <3>1. Chained(<<UserMsg(clock)>>) /\ phase' = "open"
              /\ UNCHANGED <<connected, session, attempt>>
            BY <2>1 DEF NextTurn, clientVars, retryVars
        <3> QED
            BY <1>0, <3>1, UserRetries
    <2> QED
        BY <1>2, <2>1, AnswerRetries, RunEndsRetries DEF AgentStep
<1>3. CASE \E p \in Callers : PromptQueues(p) \/ PromptCalled(p) \/ PromptStep(p)
    <2>1. ASSUME NEW p \in Callers, PromptRuns(p) PROVE Retries'
        <3>1. Chained(<<UserMsg(clock)>>) /\ phase' = "open"
              /\ UNCHANGED <<connected, session, attempt>>
            BY <2>1 DEF PromptRuns, BeginRun, retryVars
        <3> QED
            BY <1>0, <3>1, UserRetries
    <2> QED
        BY <1>3, <2>1, ClientRetries DEF PromptStep
<1>4. CASE \E t \in Threads : CompactionStep(t)
    BY <1>4, CompactionRetries
<1> QED
    BY <1>1, <1>2, <1>3, <1>4, ChainRetries, TimerRetries, ClientRetries, NewSessionRetries DEF Next

-----------------------------------------------------------------------------
(* The context and the session file.                                       *)

Parts == ContextMessages \cup Events
SameStory ==
    Conversation(context)
        = Cat(Conversation(SessionContext(session)), Conversation(events))
OneStory == ~switching => SameStory

LEMMA NothingSaid == Conversation(<<>>) = <<>> /\ SessionContext(<<>>) = <<>>
<1>1. Conversation(<<>>) = <<>>
    <2>1. <<>> \in Seq({}) /\ \A i \in 1..Len(<<>>) : ~Said(<<>>[i])
        OBVIOUS
    <2> QED
        BY <2>1, Unsaid
<1>2. LatestCompaction(<<>>) = 0
    <2>1. <<>> \in Seq({})
        OBVIOUS
    <2>2. LatestCompaction(<<>>) \in 0..Len(<<>>)
        BY <2>1, LatestCompactionFacts
    <2> QED
        BY <2>2
<1> QED
    BY <1>1, <1>2 DEF SessionContext

LEMMA StoryTypes ==
    ASSUME Typed
    PROVE  /\ context \in Seq(ContextMessages) /\ context \in Seq(Parts)
           /\ events \in Seq(Events) /\ events \in Seq(Parts)
           /\ session \in Seq(SessionEntries) /\ SessionContext(session) \in Seq(ContextMessages)
           /\ Conversation(context) \in Seq(Parts) /\ Conversation(events) \in Seq(Parts)
           /\ Conversation(SessionContext(session)) \in Seq(Parts)
<1>1. /\ context \in Seq(ContextMessages) /\ events \in Seq(Events)
      /\ session \in Seq(SessionEntries)
    BY DEF Typed, TypeOK
<1>2. SessionContext(session) \in Seq(ContextMessages)
    BY <1>1, ContextType
<1>3. context \in Seq(Parts) /\ events \in Seq(Parts) /\ SessionContext(session) \in Seq(Parts)
    BY <1>1, <1>2 DEF Parts
<1> QED
    BY <1>1, <1>2, <1>3, ConversationType

\* The agent's context grows as the events do.
LEMMA StoryGrows ==
    ASSUME Typed, SameStory, NEW m \in Users \cup Answers, context' = Append(context, m),
           events' = Append(events, m), session' = session
    PROVE  SameStory'
<1>1. m \in Parts
    BY DEF Parts, Events
<1>2. /\ Conversation(Append(context, m)) = Cat(Conversation(context), Conversation(<<m>>))
      /\ Conversation(Append(events, m)) = Cat(Conversation(events), Conversation(<<m>>))
    BY <1>1, StoryTypes, ConversationOne
<1>3. Conversation(<<m>>) \in Seq(Parts)
    <2>1. <<m>> \in Seq(Parts)
        BY <1>1
    <2> QED
        BY <2>1, ConversationType
<1> DEFINE A == Conversation(context)
           B == Conversation(SessionContext(session))
           C == Conversation(events)
           D == Conversation(<<m>>)
<1>4. A = Cat(B, C) /\ B \in Seq(Parts) /\ C \in Seq(Parts) /\ D \in Seq(Parts)
    BY <1>3, StoryTypes DEF SameStory
<1>5. Conversation(context') = Cat(A, D) /\ Conversation(events') = Cat(C, D)
      /\ Conversation(SessionContext(session')) = B
    BY <1>2
<1> HIDE DEF A, B, C, D
<1>6. Cat(Cat(B, C), D) = Cat(B, Cat(C, D))
    BY <1>4, CatAssoc
<1> QED
    BY <1>4, <1>5, <1>6 DEF SameStory

\* Nothing is said by what is chained, dropped or left alone.
LEMMA StoryStays ==
    ASSUME SameStory, Conversation(context)' = Conversation(context),
           Conversation(events)' = Conversation(events), session' = session
    PROVE  SameStory'
BY DEF SameStory

LEMMA EndUnsaid ==
    ASSUME events \in Seq(Events), events' = Append(events, AgentEnd) \/ events' = events
    PROVE  Conversation(events)' = Conversation(events)
<1>1. AgentEnd \in Events /\ ~Said(AgentEnd)
    BY DEF Events, AgentEnd, Said
<1>2. Conversation(Append(events, AgentEnd)) = Conversation(events)
    BY <1>1, ConversationOne
<1> QED
    BY <1>2

\* The chain takes a message into the session.
LEMMA StoryEnters ==
    ASSUME Typed, SameStory, Take, Head(events) \in Users \cup Answers, context' = context,
           session' = Append(session, Head(events))
    PROVE  SameStory'
<1> DEFINE m == Head(events)
<1>1. events # <<>> /\ events' = Tail(events)
    BY DEF Take
<1>2. SessionContext(session') = Cat(SessionContext(session), <<m>>)
    BY StoryTypes, ContextAppend
<1>3. m \in Parts /\ <<m>> \in Seq(Parts) /\ events' \in Seq(Parts)
      /\ SessionContext(session) \in Seq(Parts)
    <2>1. m \in Parts
        BY DEF Parts, Events
    <2>2. events' \in Seq(Parts)
        BY <1>1, StoryTypes
    <2>3. SessionContext(session) \in Seq(Parts)
        BY StoryTypes DEF Parts
    <2> QED
        BY <2>1, <2>2, <2>3
<1>4. events = Cat(<<m>>, events')
    BY <1>1, StoryTypes DEF Cat
<1> HIDE DEF m
<1> DEFINE B == Conversation(SessionContext(session))
           C == Conversation(events')
           D == Conversation(<<m>>)
<1>5. Conversation(events) = Cat(D, C)
    BY <1>3, <1>4, ConversationCat
<1>6. Conversation(SessionContext(session')) = Cat(B, D)
    BY <1>2, <1>3, ConversationCat
<1>7. B \in Seq(Parts) /\ C \in Seq(Parts) /\ D \in Seq(Parts)
    BY <1>3, ConversationType
<1>8. Conversation(context') = Cat(B, Cat(D, C))
    BY <1>5 DEF SameStory
<1>9. Conversation(events') = C
    OBVIOUS
<1> HIDE DEF B, C, D
<1>10. Cat(Cat(B, D), C) = Cat(B, Cat(D, C))
    BY <1>7, CatAssoc
<1> QED
    BY <1>6, <1>8, <1>9, <1>10 DEF SameStory

\* agent_end is taken, and an answer nobody counts may leave the context.
LEMMA StoryEnds ==
    ASSUME Typed, OneRun, SameStory, Take, Head(events).role = "agent_end", session' = session,
           context' = context \/ (~Said(last) /\ context' = DropAssistant(context))
    PROVE  SameStory'
<1>1. events = <<AgentEnd>> /\ events' = <<>> /\ context # <<>> /\ Last(context) = last
    BY EndTaken
<1>2. Conversation(context)' = Conversation(context)
    BY <1>1, StoryTypes, ConversationDropAssistant
<1>3. Conversation(events)' = Conversation(events)
    <2>1. <<AgentEnd>> \in Seq(Events) /\ \A i \in 1..Len(<<AgentEnd>>) : ~Said(<<AgentEnd>>[i])
        BY DEF Events, AgentEnd, Said
    <2>2. Conversation(<<AgentEnd>>) = <<>>
        BY <2>1, Unsaid
    <2> QED
        BY <1>1, <2>2, NothingSaid
<1> QED
    BY <1>2, <1>3, StoryStays

LEMMA AgentStory ==
    ASSUME Typed, Order, OneStory, AgentStep
    PROVE  OneStory'
<1>0. phase # "idle" /\ switching' = switching /\ events \in Seq(Events)
    BY DEF AgentStep, AnswerArrives, NextTurn, RunEnds, clientVars, Typed
<1> SUFFICES ASSUME ~switching PROVE SameStory'
    BY <1>0 DEF OneStory
<1>1. connected /\ SameStory
    BY <1>0, Heard DEF Calm, OneStory
<1>2. ASSUME NEW stop \in Stops, AnswerArrives(stop) PROVE SameStory'
    <2> DEFINE m == Answer(clock - 1, stop)
    <2>1. m \in Answers
        <3>1. clock - 1 \in Nat /\ epoch \in 1..MaxSessions
            BY DEF Typed
        <3> QED
            BY <3>1, AnswerType
    <2>2. context' = Append(context, m) /\ Chained(<<m>>) /\ session' = session
        BY <1>2 DEF AnswerArrives
    <2> HIDE DEF m
    <2>3. events' = Append(events, m)
        BY <1>0, <1>1, <2>1, <2>2 DEF Chained, Events
    <2> QED
        BY <1>1, <2>1, <2>2, <2>3, StoryGrows
<1>3. ASSUME NextTurn PROVE SameStory'
    <2> DEFINE m == UserMsg(clock)
    <2>1. m \in Users
        BY UserType DEF Typed
    <2>2. context' = Append(context, m) /\ Chained(<<m>>) /\ session' = session
        BY <1>3 DEF NextTurn
    <2> HIDE DEF m
    <2>3. events' = Append(events, m)
        BY <1>0, <1>1, <2>1, <2>2 DEF Chained, Events
    <2> QED
        BY <1>1, <2>1, <2>2, <2>3, StoryGrows
<1>4. ASSUME RunEnds PROVE SameStory'
    <2>1. context' = context /\ Chained(<<AgentEnd>>) /\ session' = session
        BY <1>4 DEF RunEnds
    <2>2. events' = Append(events, AgentEnd)
        BY <1>0, <1>1, <2>1, EventKinds DEF Chained
    <2>3. Conversation(events)' = Conversation(events)
        BY <1>0, <2>2, EndUnsaid
    <2> QED
        BY <1>1, <2>1, <2>3, StoryStays
<1> QED
    BY <1>2, <1>3, <1>4 DEF AgentStep

\* A run that begins with a message, or goes on from the context as it is.
LEMMA BeginStory ==
    ASSUME Typed, SameStory, connected, NEW who, NEW m \in Users, session' = session,
           BeginRun(who, <<>>) \/ BeginRun(who, <<m>>)
    PROVE  SameStory'
<1>1. CASE BeginRun(who, <<>>)
    <2>1. context' = context /\ events' = events
        BY <1>1, StoryTypes DEF BeginRun, Chained
    <2> QED
        BY <2>1, StoryStays
<1>2. CASE BeginRun(who, <<m>>)
    <2>1. context' = context \o <<m>> /\ events' = events \o <<m>>
        BY <1>2 DEF BeginRun, Chained
    <2>2. m \in ContextMessages /\ m \in Events
        BY DEF ContextMessages, Events
    <2>3. context' = Append(context, m) /\ events' = Append(events, m)
        BY <2>1, <2>2, StoryTypes
    <2> QED
        BY <2>3, StoryGrows
<1> QED
    BY <1>1, <1>2

LEMMA TimerStory ==
    ASSUME Typed, Order, OneStory, TimerFires
    PROVE  OneStory'
<1>1. timers # 0 /\ switching' = switching /\ session' = session
    BY DEF TimerFires, clientVars
<1> SUFFICES ASSUME ~switching PROVE SameStory'
    BY <1>1 DEF OneStory
<1>2. connected /\ SameStory
    BY <1>1, Heard DEF Calm, OneStory
<1>3. UserMsg(clock) \in Users
    BY UserType DEF Typed
<1>4. \/ BeginRun(None, <<>>) \/ BeginRun(None, <<UserMsg(clock)>>)
      \/ UNCHANGED <<context, events>>
    BY DEF TimerFires, agentVars
<1>5. CASE UNCHANGED <<context, events>>
    BY <1>1, <1>2, <1>5, StoryStays
<1> QED
    BY <1>1, <1>2, <1>3, <1>4, <1>5, BeginStory

LEMMA PromptRunsStory ==
    ASSUME Typed, Order, OneStory, NEW p \in Callers, PromptRuns(p)
    PROVE  OneStory'
<1>1. switching' = switching /\ session' = session /\ BeginRun(p, <<UserMsg(clock)>>)
      /\ pc[p] = "before"
    BY DEF PromptRuns
<1> SUFFICES ASSUME ~switching PROVE SameStory'
    BY <1>1 DEF OneStory
<1>2. connected /\ SameStory
    BY <1>1 DEF Order, OnePrompt, Away, Subscribed, OneStory
<1>3. UserMsg(clock) \in Users
    BY UserType DEF Typed
<1> QED
    BY <1>1, <1>2, <1>3, BeginStory

LEMMA ChainStory ==
    ASSUME Typed, Order, OneRun, OneStory, ChainStep
    PROVE  OneStory'
<1>0. switching' = switching
    BY DEF ChainStep, ProcessMessage, ProcessEnd, RetryBegins, RetryGivesUp, BackoffEnds,
       BackoffAborted, ProcessCompacts, clientVars
<1> SUFFICES ASSUME SameStory PROVE SameStory'
    BY <1>0 DEF OneStory
<1>1. ASSUME ProcessMessage PROVE SameStory'
    <2>1. /\ Take /\ Head(events).role \in {"user", "assistant"} /\ context' = context
          /\ session' = Append(session, Head(events))
        BY <1>1 DEF ProcessMessage, agentVars
    <2>2. Head(events) \in Users \cup Answers
        BY <2>1, TakeTyped DEF Events, AgentEnd
    <2> QED
        BY <2>1, <2>2, StoryEnters
<1>2. ASSUME ProcessEnd \/ RetryGivesUp PROVE SameStory'
    <2>1. Take /\ Head(events).role = "agent_end" /\ context' = context /\ session' = session
        BY <1>2 DEF ProcessEnd, RetryGivesUp, agentVars
    <2> QED
        BY <2>1, StoryEnds
<1>3. ASSUME RetryBegins PROVE SameStory'
    <2>1. Take /\ Head(events).role = "agent_end" /\ context' = DropAssistant(context)
          /\ session' = session /\ last.stop = "retryable"
        BY <1>3 DEF RetryBegins
    <2>2. ~Said(last)
        <3>1. last.role = "assistant"
            BY <2>1, EndTaken
        <3> QED
            BY <2>1, <3>1 DEF Said, Errors
    <2> QED
        BY <2>1, <2>2, StoryEnds
<1>4. ASSUME ProcessCompacts PROVE SameStory'
    <2>1. /\ Take /\ Head(events).role = "agent_end" /\ session' = session
          /\ context' = context
             \/ (Verdict(last, TRUE) = "overflow" /\ context' = DropAssistant(context))
        BY <1>4 DEF ProcessCompacts
    <2>2. Verdict(last, TRUE) = "overflow" => ~Said(last)
        <3>1. last.role = "assistant"
            BY <2>1, EndTaken
        <3> QED
            BY <3>1 DEF Verdict, Said, Errors, Overflows
    <2> QED
        BY <2>1, <2>2, StoryEnds
<1>5. ASSUME BackoffEnds \/ BackoffAborted PROVE SameStory'
    <2>1. context' = context /\ events' = events /\ session' = session
        BY <1>5 DEF BackoffEnds, BackoffAborted, agentVars
    <2> QED
        BY <2>1, StoryStays
<1> QED
    BY <1>1, <1>2, <1>3, <1>4, <1>5 DEF ChainStep

LEMMA CompactionStory ==
    ASSUME Typed, Typed', Order, OneRun, OneStory, NEW t \in Threads, CompactionStep(t)
    PROVE  OneStory'
<1>0. Still /\ switching' = switching
    <2>1. Compacts(t)
        BY DEF CompactionStep, CompactionPrepared, CompactionFails, CompactionSaved,
           CompactionDone, Compacts
    <2> QED
        BY <2>1, CompactsStill DEF CompactionStep, CompactionPrepared, CompactionFails,
           CompactionSaved, CompactionDone, clientVars
<1>1. ASSUME CompactionSaved(t) PROVE SameStory'
    <2>1. context' = SessionContext(session') /\ events' = <<>>
        BY <1>0, <1>1 DEF CompactionSaved, Still
    <2>2. context' \in Seq(ContextMessages)
        BY DEF Typed, TypeOK
    <2>3. Conversation(context') \in Seq(ContextMessages)
        BY <2>2, ConversationType
    <2>4. Cat(Conversation(context'), <<>>) = Conversation(context')
        BY <2>3, CatNone
    <2> QED
        BY <2>1, <2>4, NothingSaid DEF SameStory
<1> SUFFICES ASSUME SameStory PROVE SameStory'
    BY <1>0 DEF OneStory
<1>2. ASSUME CompactionPrepared(t) \/ CompactionFails(t) PROVE SameStory'
    <2>1. context' = context /\ events' = events /\ session' = session
        BY <1>2 DEF CompactionPrepared, CompactionFails, agentVars
    <2> QED
        BY <2>1, StoryStays
<1>3. ASSUME CompactionDone(t) PROVE SameStory'
    <2>1. /\ events' = events /\ session' = session
          /\ \/ context' = context
             \/ context # <<>> /\ IsError(Last(context)) /\ context' = Front(context)
        BY <1>3 DEF CompactionDone
    <2>2. IsError(Last(context)) => ~Said(Last(context))
        BY DEF IsError, Said
    <2>3. Conversation(context)' = Conversation(context)
        BY <2>1, <2>2, StoryTypes, ConversationDrop
    <2> QED
        BY <2>1, <2>3, StoryStays
<1> QED
    BY <1>1, <1>2, <1>3 DEF CompactionStep

\* The overflow that a prompt() finds is the last answer; only it is dropped.
LEMMA CheckStory ==
    ASSUME Typed, SameStory, NEW p \in Callers, PromptChecks(p)
    PROVE  SameStory'
<1> DEFINE a == LatestAnswer(context)
<1>1. /\ events' = events /\ session' = session
      /\ \/ context' = context
         \/ /\ a # 0 /\ Verdict(context[a], FALSE) = "overflow"
            /\ context' = DropAssistant(context)
    BY DEF PromptChecks
<1>2. context \in Seq(ContextMessages)
    BY StoryTypes
<1>3. ASSUME a # 0, Verdict(context[a], FALSE) = "overflow", EndsWithAssistant(context)
      PROVE  ~Said(Last(context))
    <2>1. Len(context) \in Nat /\ Len(context) # 0 /\ Last(context) = context[Len(context)]
          /\ context[Len(context)].role = "assistant"
        BY <1>2, <1>3 DEF EndsWithAssistant, Last
    <2>2. a = Len(context)
        <3> DEFINE S == {i \in DOMAIN context : context[i].role = "assistant"}
        <3>1. S \subseteq 1..Len(context) /\ Len(context) \in S
            BY <1>2, <2>1
        <3>2. \A i \in S : i <= Len(context)
            BY <3>1, <2>1
        <3>3. a = Latest(S)
            BY DEF LatestAnswer
        <3> HIDE DEF S, a
        <3> QED
            BY <2>1, <3>1, <3>2, <3>3, LatestIs
    <2>3. context[a].stop \in Overflows
        BY <1>3 DEF Verdict
    <2> HIDE DEF a
    <2> QED
        BY <2>1, <2>2, <2>3 DEF Said, Overflows, Errors
<1>4. Conversation(context)' = Conversation(context)
    <2> HIDE DEF a
    <2> QED
        BY <1>1, <1>2, <1>3, ConversationDropAssistant
<1> QED
    BY <1>1, <1>4, StoryStays

LEMMA ClientStory ==
    ASSUME Typed, OneStory,
           \/ \E p \in Callers : \/ PromptQueues(p) \/ PromptCalled(p) \/ PromptChecks(p)
                                 \/ PromptThrows(p) \/ PromptAwaitsRetry(p)
           \/ Abort \/ AbortCompaction \/ CompactCalled \/ CompactBegins \/ NewSessionCalled
    PROVE  OneStory'
<1>1. switching' = switching \/ switching'
    BY DEF PromptQueues, PromptCalled, PromptChecks, PromptThrows, PromptAwaitsRetry, Abort,
       AbortCompaction, CompactCalled, CompactBegins, NewSessionCalled, clientVars
<1> SUFFICES ASSUME SameStory PROVE SameStory'
    BY <1>1 DEF OneStory
<1>2. CASE \E p \in Callers : PromptChecks(p)
    BY <1>2, CheckStory
<1>3. CASE \/ \E p \in Callers : \/ PromptQueues(p) \/ PromptCalled(p) \/ PromptThrows(p)
                                 \/ PromptAwaitsRetry(p)
           \/ Abort \/ AbortCompaction \/ CompactCalled \/ CompactBegins \/ NewSessionCalled
    <2>1. context' = context /\ events' = events /\ session' = session
        BY <1>3 DEF PromptQueues, PromptCalled, PromptThrows, PromptAwaitsRetry, Abort,
           AbortCompaction, CompactCalled, CompactBegins, NewSessionCalled, agentVars
    <2> QED
        BY <2>1, StoryStays
<1> QED
    BY <1>2, <1>3

LEMMA EmptyStory ==
    ASSUME context = <<>>, session = <<>>, events = <<>>
    PROVE  SameStory
<1>1. Cat(<<>>, <<>>) = <<>>
    BY DEF Cat
<1> QED
    BY <1>1, NothingSaid DEF SameStory

LEMMA NewSessionStory ==
    ASSUME Order, NewSessionStarts
    PROVE  SameStory'
<1>1. context' = <<>> /\ session' = <<>> /\ events' = <<>>
    BY DEF NewSessionStarts, Order, SwitchApart
<1>2. Cat(<<>>, <<>>) = <<>>
    BY DEF Cat
<1> QED
    BY <1>1, <1>2, NothingSaid DEF SameStory

LEMMA NextStory ==
    ASSUME Typed, Typed', Order, OneRun, OneStory, [Next]_vars
    PROVE  OneStory'
<1>1. CASE UNCHANGED vars
    BY <1>1 DEF vars, agentVars, clientVars, OneStory, SameStory
<1>2. CASE \E p \in Callers : PromptQueues(p) \/ PromptCalled(p) \/ PromptStep(p)
    BY <1>2, ClientStory, PromptRunsStory DEF PromptStep
<1>3. CASE \E t \in Threads : CompactionStep(t)
    BY <1>3, CompactionStory
<1>4. CASE NewSessionStarts
    BY <1>4, NewSessionStory DEF OneStory
<1> QED
    BY <1>1, <1>2, <1>3, <1>4, AgentStory, ChainStory, TimerStory, ClientStory DEF Next

-----------------------------------------------------------------------------
(* Until a prompt() crosses a timer of its own compaction, the agent makes *)
(* one run at a time, its retries are counted, and the context tells what  *)
(* the session and the waiting events tell.                                *)

Uncrossed == OneRun /\ Retries /\ OneStory
IInv == Ordered /\ (crossed \/ Uncrossed)

LEMMA InitIInv == Init => IInv
<1> SUFFICES ASSUME Init PROVE IInv
    OBVIOUS
<1>1. OneStory
    BY EmptyStory DEF Init, OneStory
<1> QED
    BY <1>1, InitTyped, InitOrder, InitOver, InitRetries DEF IInv, Ordered, Uncrossed

LEMMA NextIInv == Patient /\ IInv /\ [Next]_vars => IInv'
<1> SUFFICES ASSUME Patient, IInv, [Next]_vars PROVE IInv'
    OBVIOUS
<1>1. Typed /\ Order /\ (crossed \/ Uncrossed)
    BY DEF IInv, Ordered
<1>2. Typed' /\ Order'
    BY <1>1, NextTyped, NextOrder
<1>3. crossed => crossed'
    BY <1>1, CrossedStays DEF vars, historyVars
<1>4. ASSUME ~crossed' PROVE Uncrossed'
    <2>1. ~crossed /\ OneRun /\ Retries /\ OneStory
        BY <1>1, <1>3, <1>4 DEF Uncrossed
    <2>2. OneRun'
        BY <1>1, <1>4, <2>1, NextOver
    <2>3. Retries'
        BY <1>1, <1>4, <2>1, NextRetries
    <2>4. OneStory'
        BY <1>1, <1>2, <2>1, NextStory
    <2> QED
        BY <2>2, <2>3, <2>4 DEF Uncrossed
<1> QED
    BY <1>2, <1>4 DEF IInv, Ordered

LEMMA AlwaysIInv == Patient => (Spec => []IInv)
<1> SUFFICES ASSUME Patient PROVE Spec => []IInv
    OBVIOUS
<1>1. IInv /\ [Next]_vars => IInv'
    BY NextIInv
<1> QED
    BY <1>1, InitIInv, PTL DEF Spec

(* A request that fails again and again is sent MaxRetries times more.     *)
THEOREM BoundedRetries == Patient => (Spec => []RetriesAreBounded)
<1> SUFFICES ASSUME Patient PROVE Spec => []RetriesAreBounded
    OBVIOUS
<1>1. Spec => []IInv
    BY AlwaysIInv
<1>2. IInv => RetriesAreBounded
    BY DEF IInv, Uncrossed, Retries, FailureCount, RetriesAreBounded
<1> QED
    BY <1>1, <1>2, PTL

(* When nothing is under way the context tells what the branch does.       *)
THEOREM OneConversation == Patient => (Spec => []ContextFollowsSession)
<1> SUFFICES ASSUME Patient PROVE Spec => []ContextFollowsSession
    OBVIOUS
<1>1. Spec => []IInv
    BY AlwaysIInv
<1>2. IInv => ContextFollowsSession
    <2> SUFFICES ASSUME IInv, Quiet, ~crossed
                 PROVE  Conversation(context) = Conversation(SessionContext(session))
        BY DEF ContextFollowsSession
    <2>1. Typed /\ SameStory /\ events = <<>>
        BY DEF IInv, Ordered, Uncrossed, OneStory, Quiet, Settled
    <2>2. Conversation(context) = Cat(Conversation(SessionContext(session)), <<>>)
        BY <2>1, NothingSaid DEF SameStory
    <2>3. Conversation(SessionContext(session)) \in Seq(Parts)
        BY <2>1, StoryTypes
    <2> QED
        BY <2>2, <2>3, CatNone
<1> QED
    BY <1>1, <1>2, PTL
=============================================================================
