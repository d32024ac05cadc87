------------------------- MODULE SessionTreeProofs -------------------------
(***************************************************************************)
(* Sessions and their files, for every set of files and labels and any     *)
(* number of entries.                                                      *)
(*                                                                         *)
(* The first part proves NothingPersistedIsLost, where only the files      *)
(* matter: an append keeps the entries a reader finds, a cut line is no    *)
(* entry, and a file is emptied only if it is new or has no header.        *)
(*                                                                         *)
(* The rest proves TypeOK, PathsReachARoot, FilesAreWellFormed and         *)
(* AnsweredSessionsAreDurable from one invariant with four parts: Typed,   *)
(* Rooted, Numbered and Durable.  Between two lines of a call the file is  *)
(* behind the memory, so the parts speak of OnFile: what a reader finds    *)
(* once the lines the call still has to write are written too.  The last   *)
(* lemmas, on extraction, need the types only.                             *)
(***************************************************************************)
EXTENDS SessionTree, SharedFacts, TLAPS

(* A sequence of lines, whatever the lines are.                            *)
Lines(c) == \E S : c \in Seq(S)

(* Every file is a sequence of lines.                                      *)
FilesHoldLines == \A f \in DOMAIN disk : Lines(disk[f])

(* Appending keeps a sequence and its elements.                            *)
LEMMA AppendedLines ==
    ASSUME NEW c, Lines(c), NEW line
    PROVE  /\ Lines(Append(c, line))
           /\ DOMAIN c = 1..Len(c) /\ Len(c) \in Nat
           /\ DOMAIN Append(c, line) = 1..(Len(c) + 1)
           /\ \A n \in 1..Len(c) : Append(c, line)[n] = c[n]
  <1>0. PICK S : c \in Seq(S)
    BY DEF Lines
  <1> DEFINE T == S \cup {line}
             d == Append(c, line)
  <1>1. c \in Seq(T)
    BY <1>0
  <1>2. d \in Seq(T) /\ Len(d) = Len(c) + 1 /\ Len(c) \in Nat
    BY <1>1
  <1>3. DOMAIN d = 1..(Len(c) + 1) /\ DOMAIN c = 1..Len(c)
    BY <1>1, <1>2
  <1>4. \A n \in 1..Len(c) : d[n] = c[n]
    BY <1>1
  <1>5. Lines(d)
    BY <1>2 DEF Lines
  <1> QED
    BY <1>2, <1>3, <1>4, <1>5

(* So does turning a cut line into junk.                                   *)
LEMMA JunkedLines ==
    ASSUME NEW c, Lines(c), c # <<>>, NEW line
    PROVE  /\ Lines([c EXCEPT ![Len(c)] = line])
           /\ DOMAIN c = 1..Len(c) /\ Len(c) \in Nat \ {0}
           /\ DOMAIN [c EXCEPT ![Len(c)] = line] = 1..Len(c)
           /\ [c EXCEPT ![Len(c)] = line][Len(c)] = line
           /\ \A n \in 1..(Len(c) - 1) : [c EXCEPT ![Len(c)] = line][n] = c[n]
  <1>0. PICK S : c \in Seq(S)
    BY DEF Lines
  <1> DEFINE T == S \cup {line}
             d == [c EXCEPT ![Len(c)] = line]
  <1>1. c \in Seq(T) /\ Len(c) \in Nat /\ DOMAIN c = 1..Len(c)
    BY <1>0
  <1>2. Len(c) # 0
    BY <1>1
  <1>3. DOMAIN d = 1..Len(c) /\ \A n \in 1..Len(c) : d[n] = IF n = Len(c) THEN line ELSE c[n]
    BY <1>1
  <1>4. Lines(d)
    <2>1. d \in Seq(T)
      BY <1>1
    <2> QED
      BY <2>1 DEF Lines
  <1> QED
    BY <1>1, <1>2, <1>3, <1>4

(* What a reader finds in a file is still there after a line is appended,  *)
(* also when the line before it was cut.                                   *)
LEMMA ExtendedKeepsEntries ==
    ASSUME NEW c, Lines(c), NEW line
    PROVE  Lines(Extended(c, line)) /\ Persisted(c) \subseteq Persisted(Extended(c, line))
  <1>1. CASE c # <<>> /\ c[Len(c)].kind = "torn"
    <2> DEFINE junk == Plain("junk", Root, Root)
               d == [c EXCEPT ![Len(c)] = junk]
    <2>1. Extended(c, line) = d
      BY <1>1 DEF Extended
    <2>2. junk.kind = "junk"
      BY DEF Plain
    <2> HIDE DEF junk
    <2>3. /\ Lines(d)
          /\ DOMAIN c = 1..Len(c) /\ Len(c) \in Nat \ {0}
          /\ DOMAIN d = 1..Len(c)
          /\ d[Len(c)] = junk
          /\ \A n \in 1..(Len(c) - 1) : d[n] = c[n]
      BY <1>1, JunkedLines
    <2> HIDE DEF d
    <2>4. ASSUME HasHeader(c) PROVE HasHeader(d)
      <3>1. PICK n \in DOMAIN c : /\ c[n].kind = "session"
                                  /\ \A m \in 1..(n - 1) : ~Parses(c[m])
        BY <2>4 DEF HasHeader
      <3>2. n # Len(c) /\ n \in 1..(Len(c) - 1)
        BY <3>1, <1>1, <2>3
      <3>3. d[n].kind = "session" /\ \A m \in 1..(n - 1) : ~Parses(d[m])
        BY <3>1, <3>2, <2>3
      <3> QED
        BY <3>2, <3>3, <2>3 DEF HasHeader
    <2>5. ASSUME NEW n \in DOMAIN c, IsEntry(c[n]) PROVE n \in DOMAIN d /\ d[n] = c[n]
      <3>1. n # Len(c)
        BY <2>5, <1>1 DEF IsEntry, EntryKinds
      <3> QED
        BY <3>1, <2>3
    <2>6. Persisted(c) \subseteq Persisted(d)
      BY <2>4, <2>5 DEF Persisted, EntryAt
    <2> QED
      BY <2>1, <2>3, <2>6
  <1>2. CASE ~(c # <<>> /\ c[Len(c)].kind = "torn")
    <2> DEFINE d == Append(c, line)
    <2>1. Extended(c, line) = d
      BY <1>2 DEF Extended
    <2>2. /\ Lines(d)
          /\ DOMAIN c = 1..Len(c) /\ Len(c) \in Nat
          /\ DOMAIN d = 1..(Len(c) + 1)
          /\ \A n \in 1..Len(c) : d[n] = c[n]
      BY AppendedLines
    <2> HIDE DEF d
    <2>3. ASSUME HasHeader(c) PROVE HasHeader(d)
      <3>1. PICK n \in DOMAIN c : /\ c[n].kind = "session"
                                  /\ \A m \in 1..(n - 1) : ~Parses(c[m])
        BY <2>3 DEF HasHeader
      <3>2. n \in DOMAIN d /\ d[n].kind = "session" /\ \A m \in 1..(n - 1) : ~Parses(d[m])
        BY <3>1, <2>2
      <3> QED
        BY <3>2 DEF HasHeader
    <2>4. ASSUME NEW n \in DOMAIN c PROVE n \in DOMAIN d /\ d[n] = c[n]
      BY <2>2
    <2>5. Persisted(c) \subseteq Persisted(d)
      BY <2>3, <2>4 DEF Persisted, EntryAt
    <2> QED
      BY <2>1, <2>2, <2>5
  <1> QED
    BY <1>1, <1>2

(* A file without a header has no entries to lose.                         *)
Kept(old, new) ==
    \A f \in DOMAIN old : f \in DOMAIN new /\ Persisted(old[f]) \subseteq Persisted(new[f])

LEMMA EmptyLines == Lines(<<>>)
  BY DEF Lines

(* Putting a file keeps the others.                                        *)
LEMMA PutKeeps ==
    ASSUME FilesHoldLines, NEW f, NEW content, Lines(content),
           f \in DOMAIN disk => Persisted(disk[f]) \subseteq Persisted(content),
           disk' = Put(f, content)
    PROVE  FilesHoldLines' /\ Kept(disk, disk')
  BY DEF FilesHoldLines, Put, Kept

(* A line that is written keeps what the file had.                         *)
LEMMA ExtendKeeps ==
    ASSUME FilesHoldLines, NEW f, NEW line,
           disk' = Put(f, Extended(Content(f), line))
    PROVE  FilesHoldLines' /\ Kept(disk, disk')
  <1> DEFINE content == Extended(Content(f), line)
  <1>1. Lines(Content(f))
    BY EmptyLines DEF FilesHoldLines, Content, Exists
  <1>2. Lines(content) /\ Persisted(Content(f)) \subseteq Persisted(content)
    BY <1>1, ExtendedKeepsEntries
  <1>3. f \in DOMAIN disk => Content(f) = disk[f]
    BY DEF Content, Exists
  <1> HIDE DEF content
  <1>4. disk' = Put(f, content)
    BY DEF content
  <1> QED
    BY <1>2, <1>3, <1>4, PutKeeps

(* Every step keeps the files' entries.                                    *)
LEMMA StepKeeps ==
    ASSUME FilesHoldLines, [Next]_vars
    PROVE  FilesHoldLines' /\ Kept(disk, disk')
  <1>1. CASE UNCHANGED disk
    BY <1>1 DEF FilesHoldLines, Kept
  <1>2. CASE WriteLine
    BY <1>2, ExtendKeeps DEF WriteLine
  <1>3. ASSUME NEW id \in Ids, NEW f \in Files, CreateBranchedSession(id, f)
        PROVE  FilesHoldLines' /\ Kept(disk, disk')
    <2>1. UNCHANGED disk \/ disk' = Put(f, <<>>)
      BY <1>3 DEF CreateBranchedSession
    <2>2. f \notin DOMAIN disk
      BY <1>3 DEF CreateBranchedSession, Fresh
    <2> QED
      BY <2>1, <2>2, <1>1, EmptyLines, PutKeeps
  <1>4. ASSUME NEW f \in Files, OpenInvalid(f)
        PROVE  FilesHoldLines' /\ Kept(disk, disk')
    <2>1. disk' = Put(f, <<>>) /\ ~HasHeader(disk[f])
      BY <1>4 DEF OpenInvalid
    <2>2. Persisted(disk[f]) = {}
      BY <2>1 DEF Persisted
    <2> QED
      BY <2>1, <2>2, EmptyLines, PutKeeps
  <1>5. ASSUME NEW source \in Files, NEW f \in Files, ForkFrom(source, f)
        PROVE  FilesHoldLines' /\ Kept(disk, disk')
    <2>1. disk' = Put(f, <<>>) /\ f \notin DOMAIN disk
      BY <1>5 DEF ForkFrom, Fresh
    <2> QED
      BY <2>1, EmptyLines, PutKeeps
  <1>6. CASE Crash
    <2>1. UNCHANGED disk \/ disk' = Put(sessionFile, Extended(Content(sessionFile), Plain("torn", Root, Root)))
      BY <1>6 DEF Crash
    <2> QED
      BY <2>1, <1>1, ExtendKeeps
  <1>7. CASE \/ \E kind \in {"message", "assistant"} : AppendMessage(kind)
             \/ \E target \in Ids, label \in Labels \cup {NoLabel} : AppendLabelChange(target, label)
             \/ \E id \in Ids \cup {Root} : Branch(id)
             \/ \E id \in Ids \cup {Root} : BranchWithSummary(id)
             \/ \E f \in Files : NewSession(f)
             \/ \E f \in Files : OpenAbsent(f)
             \/ \E f \in Files : OpenSession(f)
    <2>1. UNCHANGED disk
      BY <1>7 DEF AppendMessage, AppendLabelChange, AppendEntry, Branch, BranchWithSummary,
                  NewSession, OpenAbsent, OpenSession
    <2> QED
      BY <2>1, <1>1
  <1> QED
    BY <1>1, <1>2, <1>3, <1>4, <1>5, <1>6, <1>7 DEF Next, vars

(* No call, crash or recovery takes a written entry away from its file.    *)
THEOREM WrittenEntriesStay == Spec => NothingPersistedIsLost
  <1>1. Init => FilesHoldLines
    BY EmptyLines DEF Init, FilesHoldLines
  <1>2. FilesHoldLines /\ [Next]_vars => FilesHoldLines'
    BY StepKeeps
  <1>3. FilesHoldLines /\ [Next]_vars =>
          [\A f \in DOMAIN disk : f \in DOMAIN disk' /\ Persisted(disk[f]) \subseteq Persisted(disk'[f])]_disk
    BY StepKeeps DEF Kept
  <1> QED
    BY <1>1, <1>2, <1>3, PTL DEF Spec, NothingPersistedIsLost

-----------------------------------------------------------------------------
(* Lines.                                                                  *)

(* The lines there can be while k is the next id: an entry has an id below *)
(* k and a parent that is older, no other line has an id.                  *)
Made(k) ==
    {line \in Line : IF IsEntry(line) THEN line.id \in Ids /\ line.id < k /\ line.parent < line.id
                                      ELSE line.id = Root}

(* Those that a reader can parse.                                          *)
Sound(k) == {line \in Made(k) : Parses(line)}

LEMMA LineTypes ==
    /\ Header \in Line /\ Header.kind = "session" /\ Header.id = Root
    /\ Plain("junk", Root, Root) \in Line /\ Plain("torn", Root, Root) \in Line
    /\ \A kind \in EntryKinds, id, parent \in Ids \cup {Root} :
         /\ Plain(kind, id, parent) \in Line
         /\ Plain(kind, id, parent).kind = kind
         /\ Plain(kind, id, parent).id = id
         /\ Plain(kind, id, parent).parent = parent
    /\ \A id, parent, target \in Ids \cup {Root}, label \in Labels \cup {NoLabel} :
         /\ Label(id, parent, target, label) \in Line
         /\ Label(id, parent, target, label).kind = "label"
         /\ Label(id, parent, target, label).id = id
         /\ Label(id, parent, target, label).parent = parent
  BY DEF Header, Plain, Label, Line, Kinds, EntryKinds

LEMMA MadeLines ==
    ASSUME NEW k \in Nat
    PROVE  /\ Header \in Sound(k)
           /\ Plain("junk", Root, Root) \in Made(k) /\ Plain("torn", Root, Root) \in Made(k)
           /\ ~Parses(Plain("junk", Root, Root)) /\ ~Parses(Plain("torn", Root, Root))
           /\ Sound(k) \subseteq Made(k) /\ Made(k) \subseteq Line
           /\ \A j \in Nat : k <= j => Made(k) \subseteq Made(j) /\ Sound(k) \subseteq Sound(j)
           /\ \A line \in Made(k) : IsEntry(line) =>
                /\ line.id \in Ids /\ line.id < k /\ line.parent < line.id /\ Parses(line)
                /\ line.parent \in Ids \cup {Root} /\ line.kind # "session"
           /\ \A line \in Sound(k) : ~IsEntry(line) <=> line.kind = "session"
           /\ \A line \in Sound(k) : ~IsEntry(line) <=> line.id = Root
  <1>1. Header \in Line /\ Header.kind = "session" /\ Header.id = Root
    BY LineTypes
  <1>2. ~IsEntry(Header) /\ Parses(Header)
    BY <1>1 DEF IsEntry, EntryKinds, Parses
  <1>3. /\ Plain("junk", Root, Root) \in Line /\ Plain("torn", Root, Root) \in Line
    BY LineTypes
  <1>4. /\ ~IsEntry(Plain("junk", Root, Root)) /\ ~IsEntry(Plain("torn", Root, Root))
        /\ ~Parses(Plain("junk", Root, Root)) /\ ~Parses(Plain("torn", Root, Root))
        /\ Plain("junk", Root, Root).id = Root /\ Plain("torn", Root, Root).id = Root
    BY DEF IsEntry, EntryKinds, Plain, Parses
  <1>5. ASSUME NEW line \in Line
        PROVE  /\ line.id \in Ids \cup {Root} /\ line.parent \in Ids \cup {Root} /\ line.kind \in Kinds
               /\ IsEntry(line) => Parses(line) /\ line.kind # "session"
               /\ Parses(line) => (~IsEntry(line) <=> line.kind = "session")
    BY DEF Line, IsEntry, Parses, Kinds, EntryKinds
  <1>6. Root \notin Ids /\ Root = 0 /\ Ids \subseteq Nat
    BY DEF Root, Ids
  <1>7. ASSUME NEW j \in Nat, k <= j, NEW line \in Made(k) PROVE line \in Made(j)
    <2>1. line \in Line /\ (IsEntry(line) => line.id \in Nat)
      BY <1>6 DEF Made
    <2> HIDE DEF Ids
    <2> QED
      BY <1>7, <2>1 DEF Made
  <1> QED
    BY <1>1, <1>2, <1>3, <1>4, <1>5, <1>6, <1>7 DEF Made, Sound

(* What is made while k is the next id may be there while it is a later one.*)
LEMMA SeqGrows ==
    ASSUME NEW S, NEW T, S \subseteq T, NEW s \in Seq(S)
    PROVE  s \in Seq(T)
  OBVIOUS

-----------------------------------------------------------------------------
(* What is read from a file.                                               *)

(* The lines of c that parse, in order, are those at the positions p.      *)
Reads(c, p, m) ==
    /\ m \in Nat /\ Lists(p, m, {n \in DOMAIN c : Parses(c[n])})
    /\ Len(Parsed(c)) = m /\ DOMAIN Parsed(c) = 1..m
    /\ \A i \in 1..m : p[i] \in DOMAIN c /\ Parsed(c)[i] = c[p[i]] /\ Parses(c[p[i]])

LEMMA ParsedReads ==
    ASSUME NEW k, NEW c \in Seq(Made(k))
    PROVE  Parsed(c) \in Seq(Sound(k)) /\ \E m \in Nat : \E p : Reads(c, p, m)
  <1> DEFINE S == {n \in DOMAIN c : Parses(c[n])}
  <1>1. Below(S, Len(c)) /\ Holds(c, S, Sound(k)) /\ Len(c) \in Nat
    BY DEF Below, Holds, Sound
  <1>2. Parsed(c) \in Seq(Sound(k))
    BY <1>1, PickedType DEF Parsed
  <1>3. PICK m \in Nat : \E p : Lists(p, m, S)
    BY <1>1, ListingExists
  <1>4. PICK p : Lists(p, m, S)
    BY <1>3
  <1>5. Parsed(c) = Along(c, p)
    BY <1>1, <1>4, ListingPicks DEF Parsed
  <1>6. Len(Parsed(c)) = m
    BY <1>1, <1>4, <1>5, AlongType
  <1>7. DOMAIN p = 1..m /\ \A i \in 1..m : p[i] \in S
    BY <1>4 DEF Lists
  <1>8. \A i \in 1..m : Parsed(c)[i] = c[p[i]]
    BY <1>5, <1>7 DEF Along
  <1>9. DOMAIN Parsed(c) = 1..m
    BY <1>2, <1>6
  <1> QED
    BY <1>2, <1>4, <1>6, <1>7, <1>8, <1>9 DEF Reads

(* A file without cut lines is read as it is.                              *)
LEMMA ParsedAll ==
    ASSUME NEW k, NEW c \in Seq(Sound(k))
    PROVE  Parsed(c) = c
  <1>1. {n \in DOMAIN c : Parses(c[n])} = 1..Len(c)
    BY DEF Sound
  <1> QED
    BY <1>1, PickedAll DEF Parsed

(* The first line that parses is the first that is read.                   *)
LEMMA HeaderRead ==
    ASSUME NEW k \in Nat, NEW c \in Seq(Made(k))
    PROVE  HasHeader(c) <=> Parsed(c) # <<>> /\ Parsed(c)[1].kind = "session"
  <1>1. PICK m \in Nat : \E p : Reads(c, p, m)
    BY ParsedReads
  <1>2. PICK p : Reads(c, p, m)
    BY <1>1
  <1> DEFINE S == {n \in DOMAIN c : Parses(c[n])}
  <1>3. /\ p \in [1..m -> S] /\ \A i, j \in 1..m : i < j => p[i] < p[j]
        /\ \A n \in S : \E i \in 1..m : p[i] = n
    BY <1>2 DEF Reads, Lists
  <1>4. DOMAIN c = 1..Len(c) /\ Len(c) \in Nat
    OBVIOUS
  <1>5. ASSUME HasHeader(c) PROVE Parsed(c) # <<>> /\ Parsed(c)[1].kind = "session"
    <2>1. PICK n \in DOMAIN c : c[n].kind = "session" /\ \A j \in 1..(n - 1) : ~Parses(c[j])
      BY <1>5 DEF HasHeader
    <2>2. n \in S
      BY <2>1 DEF Parses
    <2>3. PICK i \in 1..m : p[i] = n
      BY <1>3, <2>2
    <2>4. i = 1
      <3>1. CASE 1 < i
        <4>1. 1 \in 1..m /\ p[1] < n /\ p[1] \in S
          BY <1>3, <2>3, <3>1
        <4> QED
          BY <4>1, <2>1, <1>4
      <3> QED
        BY <3>1
    <2> QED
      BY <1>2, <2>1, <2>3, <2>4 DEF Reads
  <1>6. ASSUME Parsed(c) # <<>>, Parsed(c)[1].kind = "session" PROVE HasHeader(c)
    <2>1. Parsed(c) \in Seq(Sound(k))
      BY ParsedReads
    <2>2. 1 \in 1..m
      BY <1>2, <1>6, <2>1 DEF Reads
    <2>3. p[1] \in DOMAIN c /\ c[p[1]].kind = "session" /\ p[1] \in S
      BY <1>2, <1>3, <1>6, <2>2 DEF Reads
    <2>4. ASSUME NEW j \in 1..(p[1] - 1), Parses(c[j]) PROVE FALSE
      <3>1. j \in S /\ j < p[1]
        BY <1>4, <2>3, <2>4
      <3>2. PICK i \in 1..m : p[i] = j
        BY <1>3, <3>1
      <3> QED
        BY <1>3, <1>4, <2>2, <2>3, <3>1, <3>2
    <2> QED
      BY <2>3, <2>4 DEF HasHeader
  <1> QED
    BY <1>5, <1>6

(* A line that is appended is read, unless it is cut.                      *)
LEMMA ParsedAppend ==
    ASSUME NEW k, NEW c \in Seq(Made(k)), NEW line \in Made(k)
    PROVE  /\ Append(c, line) \in Seq(Made(k))
           /\ Parsed(Append(c, line)) = IF Parses(line) THEN Cat(Parsed(c), <<line>>) ELSE Parsed(c)
  <1> DEFINE d == Append(c, line)
             one == <<line>>
             S == {n \in DOMAIN c : Parses(c[n])}
             T == {n \in 1..1 : Parses(line)}
             U == {n \in DOMAIN d : Parses(d[n])}
  <1>1. /\ d \in Seq(Made(k)) /\ DOMAIN d = 1..(Len(c) + 1) /\ Len(c) \in Nat
        /\ DOMAIN c = 1..Len(c)
        /\ d[Len(c) + 1] = line /\ \A n \in 1..Len(c) : d[n] = c[n]
    OBVIOUS
  <1>2. one \in Seq(Made(k)) /\ Len(one) = 1 /\ one[1] = line
    OBVIOUS
  <1> HIDE DEF d, one
  <1>3. U = Merged(S, Len(c), T)
    <2>1. ASSUME NEW n \in U PROVE n \in Merged(S, Len(c), T)
      <3>1. CASE n \in 1..Len(c)
        BY <1>1, <2>1, <3>1 DEF Merged
      <3>2. CASE n = Len(c) + 1
        <4>1. 1 \in T
          BY <1>1, <2>1, <3>2
        <4> QED
          BY <3>2, <4>1 DEF Merged
      <3> QED
        BY <1>1, <2>1, <3>1, <3>2
    <2>2. ASSUME NEW n \in Merged(S, Len(c), T) PROVE n \in U
      <3>1. CASE n \in S
        BY <1>1, <3>1
      <3>2. ASSUME NEW j \in T, n = Len(c) + j PROVE n \in U
        BY <1>1, <3>2
      <3> QED
        BY <2>2, <3>1, <3>2 DEF Merged
    <2> QED
      BY <2>1, <2>2
  <1>4. Follows(d, c, S, Len(c), one, T, 1, Made(k))
    <2>1. Below(S, Len(c)) /\ Below(T, 1) /\ Holds(c, S, Made(k))
      BY <1>1 DEF Below, Holds
    <2>2. Holds(one, T, Made(k)) /\ Copies(d, Len(c), one, T)
      BY <1>1, <1>2 DEF Holds, Copies
    <2>3. Copies(d, 0, c, S)
      BY <1>1 DEF Copies
    <2> QED
      BY <1>1, <2>1, <2>2, <2>3 DEF Follows
  <1>5. Picked(U, d) = Cat(Parsed(c), Picked(T, one))
    <2>1. Picked(Merged(S, Len(c), T), d) = Cat(Picked(S, c), Picked(T, one))
      BY ONLY <1>4, PickedConcat
    <2>2. Parsed(c) = Picked(S, c)
      BY DEF Parsed
    <2> HIDE DEF S, T, U
    <2> QED
      BY <1>3, <2>1, <2>2
  <1>6. Picked(T, one) = IF Parses(line) THEN one ELSE <<>>
    <2>1. CASE Parses(line)
      <3>1. T = 1..Len(one)
        BY <1>2, <2>1
      <3> HIDE DEF T
      <3> QED
        BY <1>2, <2>1, <3>1, PickedAll
    <2>2. CASE ~Parses(line)
      <3>1. T = {}
        BY <2>2
      <3> HIDE DEF T
      <3> QED
        BY <2>2, <3>1, PickedNone
    <2> QED
      BY <2>1, <2>2
  <1>7. Parsed(d) = Cat(Parsed(c), IF Parses(line) THEN one ELSE <<>>)
    BY <1>5, <1>6 DEF Parsed
  <1>8. Cat(Parsed(c), <<>>) = Parsed(c)
    BY ParsedReads, CatNone
  <1> HIDE DEF U, S, T
  <1> QED
    BY <1>1, <1>7, <1>8 DEF d, one

(* Nothing changes for the reader when a cut line becomes junk.            *)
LEMMA ParsedJunk ==
    ASSUME NEW k \in Nat, NEW c \in Seq(Made(k)), c # <<>>, c[Len(c)].kind = "torn",
           NEW junk \in Made(k), ~Parses(junk)
    PROVE  /\ [c EXCEPT ![Len(c)] = junk] \in Seq(Made(k))
           /\ Parsed([c EXCEPT ![Len(c)] = junk]) = Parsed(c)
  <1> DEFINE d == [c EXCEPT ![Len(c)] = junk]
             S == {n \in DOMAIN c : Parses(c[n])}
             U == {n \in DOMAIN d : Parses(d[n])}
  <1>1. Len(c) \in Nat \ {0} /\ DOMAIN c = 1..Len(c)
    OBVIOUS
  <1>2. d \in Seq(Made(k)) /\ DOMAIN d = DOMAIN c
    BY <1>1
  <1>3. d[Len(c)] = junk /\ \A n \in DOMAIN c : n # Len(c) => d[n] = c[n]
    BY <1>1
  <1> HIDE DEF d
  <1>4. U = S /\ \A n \in S : d[n] = c[n]
    <2>1. ~Parses(c[Len(c)])
      BY DEF Parses
    <2> QED
      BY <1>1, <1>2, <1>3, <2>1
  <1>5. Below(S, Len(c))
    BY <1>1 DEF Below
  <1>6. PICK m \in Nat : \E p : Lists(p, m, S)
    BY <1>1, <1>5, ListingExists
  <1>7. PICK p : Lists(p, m, S)
    BY <1>6
  <1>8. Parsed(c) = Along(c, p) /\ Parsed(d) = Along(d, p)
    BY <1>1, <1>4, <1>5, <1>7, ListingPicks DEF Parsed
  <1>9. \A i \in DOMAIN p : p[i] \in S
    BY <1>7 DEF Lists
  <1>10. Along(d, p) = Along(c, p)
    BY <1>4, <1>9 DEF Along
  <1> QED
    BY <1>2, <1>8, <1>10 DEF d

Cut(c) == c # <<>> /\ c[Len(c)].kind = "torn"

(* What a reader of a file finds after a line was appended to it.          *)
LEMMA ExtendedReads ==
    ASSUME NEW k \in Nat, NEW c \in Seq(Made(k)), NEW line \in Made(k)
    PROVE  /\ Extended(c, line) \in Seq(Made(k))
           /\ Extended(c, line) # <<>>
           /\ Parsed(Extended(c, line)) = IF Parses(line) /\ ~Cut(c) THEN Cat(Parsed(c), <<line>>)
                                          ELSE Parsed(c)
  <1> DEFINE junk == Plain("junk", Root, Root)
  <1>0. junk \in Made(k) /\ ~Parses(junk)
    BY MadeLines
  <1> HIDE DEF junk
  <1>1. CASE Cut(c)
    <2>1. Extended(c, line) = [c EXCEPT ![Len(c)] = junk] /\ c # <<>>
      BY <1>1 DEF Extended, Cut, junk
    <2>2. [c EXCEPT ![Len(c)] = junk] # <<>>
      BY <2>1
    <2>3. c[Len(c)].kind = "torn"
      BY <1>1 DEF Cut
    <2> DEFINE d == [c EXCEPT ![Len(c)] = junk]
    <2>4. d \in Seq(Made(k)) /\ Parsed(d) = Parsed(c)
      BY ONLY k \in Nat, c \in Seq(Made(k)), <1>0, <2>1, <2>3, ParsedJunk
    <2>5. Extended(c, line) = d /\ d # <<>>
      BY <2>1, <2>2
    <2> HIDE DEF d
    <2> QED
      BY <1>1, <2>4, <2>5
  <1>2. CASE ~Cut(c)
    <2>1. Extended(c, line) = Append(c, line) /\ Append(c, line) # <<>>
      BY <1>2 DEF Extended, Cut
    <2> QED
      BY <1>2, <2>1, ParsedAppend
  <1> QED
    BY <1>1, <1>2

-----------------------------------------------------------------------------
(* The index of a session.                                                 *)

LEMMA IdRange == Root = 0 /\ Root \notin Ids /\ Ids \cup {Root} = 0..MaxEntries /\ MaxEntries \in Nat
  BY SessionAssumption DEF Root, Ids

(* getEntry() finds an entry that has the id.                              *)
LEMMA EntryOfFacts ==
    ASSUME NEW k \in Nat, NEW lines \in Seq(Made(k))
    PROVE  /\ EntryIds(lines) \subseteq Ids /\ \A id \in EntryIds(lines) : id < k
           /\ \A n \in DOMAIN lines : IsEntry(lines[n]) => lines[n].id \in EntryIds(lines)
           /\ \A id \in EntryIds(lines) :
                /\ EntryOf(lines, id) \in Made(k) /\ IsEntry(EntryOf(lines, id))
                /\ EntryOf(lines, id).id = id
                /\ EntryOf(lines, id).parent \in Ids \cup {Root} /\ EntryOf(lines, id).parent < id
                /\ \E n \in DOMAIN lines : EntryOf(lines, id) = lines[n]
  <1>1. \A n \in DOMAIN lines : lines[n] \in Made(k)
    OBVIOUS
  <1>2. \A n \in DOMAIN lines : IsEntry(lines[n]) => lines[n].id \in EntryIds(lines)
    BY DEF EntryIds, EntryAt
  <1>3. \A id \in EntryIds(lines) : \E n \in DOMAIN lines : IsEntry(lines[n]) /\ lines[n].id = id
    BY DEF EntryIds, EntryAt
  <1>4. ASSUME NEW id \in EntryIds(lines)
        PROVE  \E n \in DOMAIN lines : EntryOf(lines, id) = lines[n] /\ IsEntry(lines[n]) /\ lines[n].id = id
    BY <1>3 DEF EntryOf
  <1>5. ASSUME NEW id \in EntryIds(lines)
        PROVE  /\ id \in Ids /\ id < k
               /\ EntryOf(lines, id) \in Made(k) /\ IsEntry(EntryOf(lines, id))
               /\ EntryOf(lines, id).id = id
               /\ EntryOf(lines, id).parent \in Ids \cup {Root} /\ EntryOf(lines, id).parent < id
               /\ \E n \in DOMAIN lines : EntryOf(lines, id) = lines[n]
    BY <1>1, <1>4, MadeLines
  <1> QED
    BY <1>2, <1>5

LEMMA LastIdFacts ==
    ASSUME NEW k \in Nat, NEW lines \in Seq(Made(k))
    PROVE  LastId(lines) \in EntryIds(lines) \cup {Root}
  <1> DEFINE S == EntryAt(lines)
  <1>1. CASE S # {}
    <2>1. S \subseteq 1..Len(lines) /\ Len(lines) \in Nat
      BY DEF EntryAt
    <2>2. \E n \in S : \A m \in S : m <= n
      BY <1>1, <2>1, GreatestNatural
    <2>3. \E n \in S : LastId(lines) = lines[n].id
      BY <1>1, <2>2 DEF LastId
    <2> QED
      BY <2>3 DEF EntryIds
  <1> QED
    BY <1>1 DEF LastId

LEMMA LabelsOfType ==
    ASSUME NEW k \in Nat, NEW lines \in Seq(Made(k))
    PROVE  LabelsOf(lines) \in [Ids -> Labels \cup {NoLabel}]
  <1> DEFINE S(id) == {n \in DOMAIN lines : lines[n].kind = "label" /\ lines[n].target = id}
             of(id) == IF S(id) = {} THEN NoLabel
                       ELSE lines[CHOOSE n \in S(id) : \A m \in S(id) : m <= n].label
  <1>1. ASSUME NEW id \in Ids PROVE of(id) \in Labels \cup {NoLabel}
    <2>1. CASE S(id) # {}
      <3>1. S(id) \subseteq 1..Len(lines) /\ Len(lines) \in Nat
        OBVIOUS
      <3>2. \E n \in S(id) : \A m \in S(id) : m <= n
        BY <2>1, <3>1, GreatestNatural
      <3>3. \E n \in S(id) : of(id) = lines[n].label
        BY <2>1, <3>2
      <3>4. \A n \in DOMAIN lines : lines[n] \in Line
        BY MadeLines
      <3> QED
        BY <3>3, <3>4 DEF Line
    <2> QED
      BY <2>1
  <1>2. LabelsOf(lines) = [id \in Ids |-> of(id)]
    BY DEF LabelsOf
  <1> HIDE DEF of
  <1> QED
    BY <1>1, <1>2

-----------------------------------------------------------------------------
(* The walk to the root.                                                   *)

Walk(lines, up, n) ==
    [id \in 0..n |-> IF id \in EntryIds(lines) THEN up[EntryOf(lines, id).parent] \cup {id} ELSE {}]

(* Parents are older, so the walk is defined for every id ...              *)
LEMMA WalkExists ==
    ASSUME NEW k \in Nat, NEW lines \in Seq(Made(k))
    PROVE  \A n \in Nat : \E up : up = Walk(lines, up, n)
  <1> DEFINE Bad == {n \in Nat : ~ \E up : up = Walk(lines, up, n)}
             parent(id) == EntryOf(lines, id).parent
  <1>0. \A id \in EntryIds(lines) : id \in Nat /\ parent(id) \in Nat /\ parent(id) < id /\ id # 0
    BY EntryOfFacts, IdRange
  <1> HIDE DEF parent
  <1>w. \A up, n : Walk(lines, up, n) =
          [id \in 0..n |-> IF id \in EntryIds(lines) THEN up[parent(id)] \cup {id} ELSE {}]
    BY DEF Walk, parent
  <1>1. SUFFICES ASSUME Bad # {} PROVE FALSE
    OBVIOUS
  <1>2. PICK n \in Bad : \A m \in Bad : n <= m
    BY <1>1, LeastNatural
  <1>3. CASE n = 0
    <2> DEFINE up == [id \in 0..0 |-> {}]
    <2>1. up = Walk(lines, up, 0)
      BY <1>0, <1>w
    <2> QED
      BY <1>2, <1>3, <2>1
  <1>4. CASE n # 0
    <2>1. n - 1 \in Nat /\ n - 1 \notin Bad
      BY <1>2, <1>4
    <2>2. PICK f : f = Walk(lines, f, n - 1)
      BY <2>1
    <2> DEFINE up == [id \in 0..n |-> IF id < n THEN f[id]
                                      ELSE IF id \in EntryIds(lines) THEN f[parent(id)] \cup {id} ELSE {}]
    <2>3. ASSUME NEW id \in 0..n
          PROVE  up[id] = IF id \in EntryIds(lines) THEN up[parent(id)] \cup {id} ELSE {}
      <3>1. CASE id \in EntryIds(lines)
        <4>1. parent(id) \in 0..n /\ parent(id) < n
          BY <1>0, <1>2, <3>1
        <4>2. up[parent(id)] = f[parent(id)]
          BY <4>1
        <4>3. id < n => f[id] = f[parent(id)] \cup {id}
          BY <1>2, <1>w, <2>2, <3>1
        <4> QED
          BY <1>2, <3>1, <4>2, <4>3
      <3>2. CASE id \notin EntryIds(lines)
        <4>1. id < n => f[id] = {}
          BY <1>2, <1>w, <2>2, <3>2
        <4> QED
          BY <3>2, <4>1
      <3> QED
        BY <3>1, <3>2
    <2>4. up = [id \in 0..n |-> up[id]]
      OBVIOUS
    <2> HIDE DEF up
    <2>5. up = Walk(lines, up, n)
      <3>1. Walk(lines, up, n) =
              [id \in 0..n |-> IF id \in EntryIds(lines) THEN up[parent(id)] \cup {id} ELSE {}]
        BY ONLY <1>w
      <3>2. [id \in 0..n |-> IF id \in EntryIds(lines) THEN up[parent(id)] \cup {id} ELSE {}]
              = [id \in 0..n |-> up[id]]
        BY ONLY <2>3
      <3> QED
        BY ONLY <2>4, <3>1, <3>2
    <2> QED
      BY <1>2, <2>5
  <1> QED
    BY <1>3, <1>4

(* ... and it meets entries only, the first one first, and with an entry   *)
(* its parent.                                                             *)
LEMMA AncestorFacts ==
    ASSUME NEW k \in Nat, NEW lines \in Seq(Made(k)), NEW id \in Ids \cup {Root}
    PROVE  /\ Ancestors(lines)[id] \subseteq EntryIds(lines)
           /\ id \in EntryIds(lines) => id \in Ancestors(lines)[id]
           /\ \A x \in Ancestors(lines)[id] :
                EntryOf(lines, x).parent \in EntryIds(lines) => EntryOf(lines, x).parent \in Ancestors(lines)[id]
  <1> DEFINE a == Ancestors(lines)
             parent(x) == EntryOf(lines, x).parent
             Good(i) == /\ a[i] \subseteq EntryIds(lines)
                        /\ i \in EntryIds(lines) => i \in a[i]
                        /\ \A x \in a[i] : parent(x) \in EntryIds(lines) => parent(x) \in a[i]
  <1>1. PICK up : up = Walk(lines, up, MaxEntries)
    BY WalkExists, IdRange
  <1>2. a = Walk(lines, a, MaxEntries)
    BY <1>1, IdRange DEF Ancestors, Walk
  <1>3. \A i \in Ids \cup {Root} : a[i] = IF i \in EntryIds(lines) THEN a[parent(i)] \cup {i} ELSE {}
    BY <1>2, IdRange DEF Walk
  <1>4. \A i \in EntryIds(lines) : i \in Ids /\ parent(i) \in Ids \cup {Root} /\ parent(i) < i
    BY EntryOfFacts
  <1> HIDE DEF a, parent
  <1> DEFINE Bad == {i \in Ids \cup {Root} : ~Good(i)}
  <1>5. ASSUME Bad # {} PROVE FALSE
    <2>1. Bad \subseteq Nat
      BY IdRange
    <2>2. PICK i \in Bad : \A j \in Bad : i <= j
      BY <1>5, <2>1, LeastNatural
    <2>3. CASE i \in EntryIds(lines)
      <3>1. parent(i) \in Ids \cup {Root} /\ parent(i) < i
        BY <1>4, <2>3
      <3>2. parent(i) \notin Bad
        BY <2>1, <2>2, <3>1, IdRange
      <3>3. Good(parent(i))
        BY <3>1, <3>2
      <3>4. a[i] = a[parent(i)] \cup {i}
        BY <1>3, <2>2, <2>3
      <3>5. Good(i)
        BY <2>3, <3>3, <3>4
      <3> QED
        BY <2>2, <3>5
    <2>4. CASE i \notin EntryIds(lines)
      <3>1. a[i] = {}
        BY <1>3, <2>2, <2>4
      <3> QED
        BY <2>2, <2>4, <3>1
    <2> QED
      BY <2>3, <2>4
  <1>6. Good(id)
    BY <1>5
  <1> QED
    BY <1>6 DEF a, parent

(* s holds, in order, what v holds at the positions S, which p lists.      *)
Gathers(s, S, v, p, m) ==
    /\ m \in Nat /\ p \in [1..m -> S]
    /\ \A i, j \in 1..m : i < j => p[i] < p[j]
    /\ \A x \in S : \E i \in 1..m : p[i] = x
    /\ Len(s) = m /\ DOMAIN s = 1..m
    /\ \A i \in 1..m : s[i] = v[p[i]]

LEMMA PickedGathers ==
    ASSUME NEW n \in Nat, NEW S, Below(S, n), NEW X, NEW v, Holds(v, S, X)
    PROVE  Picked(S, v) \in Seq(X) /\ \E m : \E p : Gathers(Picked(S, v), S, v, p, m)
  <1>1. PICK m \in Nat : \E p : Lists(p, m, S)
    BY ListingExists
  <1>2. PICK p : Lists(p, m, S)
    BY <1>1
  <1>3. Picked(S, v) = Along(v, p)
    BY <1>2, ListingPicks
  <1>4. Picked(S, v) \in Seq(X) /\ Len(Picked(S, v)) = m
    BY <1>2, <1>3, AlongType
  <1>5. /\ p \in [1..m -> S] /\ \A i, j \in 1..m : i < j => p[i] < p[j]
        /\ \A x \in S : \E i \in 1..m : p[i] = x
    BY <1>2 DEF Lists
  <1>6. \A i \in 1..m : Picked(S, v)[i] = v[p[i]]
    BY <1>3, <1>5 DEF Along
  <1>7. DOMAIN Picked(S, v) = 1..m
    BY <1>4
  <1>8. Gathers(Picked(S, v), S, v, p, m)
    BY <1>4, <1>5, <1>6, <1>7 DEF Gathers
  <1> QED
    BY <1>4, <1>8

(* The numbers of S in order.                                              *)
LEMMA AscendingLists ==
    ASSUME NEW S, S \subseteq Ids
    PROVE  \E m \in Nat : Ascending(S) \in Seq(Ids) /\ Lists(Ascending(S), m, S) /\ DOMAIN Ascending(S) = 1..m
  <1> DEFINE v == [n \in Ids |-> n]
  <1>1. Below(S, MaxEntries) /\ Holds(v, S, Ids) /\ MaxEntries \in Nat
    BY IdRange DEF Below, Holds, Ids
  <1>2. PICK m : \E p : Gathers(Picked(S, v), S, v, p, m)
    BY <1>1, PickedGathers
  <1>3. PICK p : Gathers(Picked(S, v), S, v, p, m)
    BY <1>2
  <1> DEFINE a == Ascending(S)
  <1>4. a = Picked(S, v)
    BY DEF Ascending
  <1>5. /\ m \in Nat /\ p \in [1..m -> S] /\ DOMAIN a = 1..m /\ Len(a) = m
        /\ \A i, j \in 1..m : i < j => p[i] < p[j]
        /\ \A x \in S : \E i \in 1..m : p[i] = x
    BY <1>3, <1>4 DEF Gathers
  <1>6. \A i \in 1..m : a[i] = p[i]
    BY <1>3, <1>4, <1>5 DEF Gathers
  <1>7. a \in Seq(Ids)
    BY <1>1, <1>4, PickedGathers
  <1> HIDE DEF a
  <1>8. a \in [1..m -> S]
    <2>1. a = [i \in 1..m |-> a[i]]
      BY <1>5, <1>7
    <2> QED
      BY <1>5, <1>6, <2>1
  <1>9. Lists(a, m, S)
    BY <1>5, <1>6, <1>8 DEF Lists
  <1> QED
    BY <1>5, <1>7, <1>9 DEF a

-----------------------------------------------------------------------------
(* The entries of a path.                                                  *)

(* path holds entries of lines, oldest first, with the ids S.              *)
Tells(path, lines, S) ==
    /\ \A i \in DOMAIN path : IsEntry(path[i]) /\ path[i].id \in S /\ path[i] = EntryOf(lines, path[i].id)
    /\ \A i, j \in DOMAIN path : i < j => path[i].id < path[j].id
    /\ \A id \in S : \E i \in DOMAIN path : path[i].id = id

LEMMA PathFacts ==
    ASSUME NEW k \in Nat, NEW lines \in Seq(Sound(k)), NEW id \in Ids \cup {Root}
    PROVE  Path(lines, id) \in Seq(Sound(k)) /\ Tells(Path(lines, id), lines, Ancestors(lines)[id])
  <1> DEFINE S == Ancestors(lines)[id]
             ids == Ascending(S)
             path == Path(lines, id)
  <1>0. lines \in Seq(Made(k))
    BY MadeLines, SeqGrows
  <1>1. S \subseteq EntryIds(lines) /\ EntryIds(lines) \subseteq Ids
    BY <1>0, AncestorFacts, EntryOfFacts
  <1>2. PICK m \in Nat : ids \in Seq(Ids) /\ Lists(ids, m, S) /\ DOMAIN ids = 1..m
    BY <1>1, AscendingLists
  <1>3. path = [n \in 1..m |-> EntryOf(lines, ids[n])]
    BY <1>2 DEF Path
  <1>4. /\ \A i \in 1..m : ids[i] \in S /\ ids[i] \in EntryIds(lines)
        /\ \A i, j \in 1..m : i < j => ids[i] < ids[j]
        /\ \A x \in S : \E i \in 1..m : ids[i] = x
    BY <1>1, <1>2 DEF Lists
  <1> HIDE DEF S, ids
  <1>5. \A i \in 1..m : IsEntry(path[i]) /\ path[i].id = ids[i] /\ path[i] = EntryOf(lines, ids[i])
    BY <1>0, <1>3, <1>4, EntryOfFacts
  <1>6. \A i \in 1..m : path[i] \in Sound(k)
    <2>1. ASSUME NEW i \in 1..m PROVE path[i] \in Sound(k)
      <3>1. PICK n \in DOMAIN lines : path[i] = lines[n]
        BY <1>0, <1>4, <1>5, EntryOfFacts
      <3> QED
        BY <3>1
    <2> QED
      BY <2>1
  <1>7. DOMAIN path = 1..m /\ path = [n \in 1..m |-> path[n]]
    BY <1>3
  <1> HIDE DEF path
  <1>8. path \in Seq(Sound(k))
    BY <1>2, <1>6, <1>7, SeqOfFunction
  <1>9. Tells(path, lines, S)
    BY <1>4, <1>5, <1>7 DEF Tells
  <1> QED
    BY <1>8, <1>9 DEF path, S

LEMMA ConversationFacts ==
    ASSUME NEW k \in Nat, NEW lines \in Seq(Sound(k)), NEW id \in Ids \cup {Root}
    PROVE  /\ Conversation(lines, id) \in Seq(Sound(k))
           /\ Tells(Conversation(lines, id), lines,
                    {x \in Ancestors(lines)[id] : EntryOf(lines, x).kind # "label"})
  <1> DEFINE S == Ancestors(lines)[id]
             path == Path(lines, id)
             T == {n \in DOMAIN path : path[n].kind # "label"}
             U == {x \in S : EntryOf(lines, x).kind # "label"}
             talk == Conversation(lines, id)
  <1>1. path \in Seq(Sound(k)) /\ Tells(path, lines, S)
    BY PathFacts
  <1>2. Below(T, Len(path)) /\ Holds(path, T, Sound(k)) /\ Len(path) \in Nat
    BY <1>1 DEF Below, Holds
  <1>3. talk = Picked(T, path)
    BY DEF Conversation
  <1>4. talk \in Seq(Sound(k)) /\ \E m : \E p : Gathers(talk, T, path, p, m)
    <2>1. Picked(T, path) \in Seq(Sound(k)) /\ \E m : \E p : Gathers(Picked(T, path), T, path, p, m)
      BY ONLY <1>2, PickedGathers
    <2> HIDE DEF T, path, talk
    <2> QED
      BY ONLY <1>3, <2>1
  <1>5. PICK m : \E p : Gathers(talk, T, path, p, m)
    BY <1>4
  <1>6. PICK p : Gathers(talk, T, path, p, m)
    BY <1>5
  <1> HIDE DEF talk, path, S
  <1>7. /\ DOMAIN talk = 1..m /\ m \in Nat
        /\ \A i \in 1..m : /\ p[i] \in DOMAIN path /\ path[p[i]].kind # "label"
                           /\ talk[i] = path[p[i]]
        /\ \A i, j \in 1..m : i < j => p[i] < p[j]
        /\ \A n \in DOMAIN path : path[n].kind # "label" => \E i \in 1..m : p[i] = n
    BY <1>6 DEF Gathers
  <1> HIDE DEF T
  <1>8. /\ \A i \in DOMAIN path : IsEntry(path[i]) /\ path[i].id \in S /\ path[i] = EntryOf(lines, path[i].id)
        /\ \A i, j \in DOMAIN path : i < j => path[i].id < path[j].id
        /\ \A x \in S : \E i \in DOMAIN path : path[i].id = x
    BY <1>1 DEF Tells
  <1>9. \A i \in DOMAIN talk : IsEntry(talk[i]) /\ talk[i].id \in U /\ talk[i] = EntryOf(lines, talk[i].id)
    BY <1>7, <1>8
  <1>10. \A i, j \in DOMAIN talk : i < j => talk[i].id < talk[j].id
    BY <1>7, <1>8
  <1>11. ASSUME NEW x \in U PROVE \E i \in DOMAIN talk : talk[i].id = x
    <2>1. PICK n \in DOMAIN path : path[n].id = x
      BY <1>8
    <2>2. path[n].kind # "label"
      BY <1>8, <2>1
    <2>3. PICK i \in 1..m : p[i] = n
      BY <1>7, <2>2
    <2> QED
      BY <1>7, <2>1, <2>3
  <1>12. Tells(talk, lines, U)
    BY <1>9, <1>10, <1>11 DEF Tells
  <1> QED
    BY <1>4, <1>12 DEF talk, S

-----------------------------------------------------------------------------
(* Sequences of lines.                                                     *)

(* e holds the lines of c, then those of d.                                *)
Joins(e, c, d) ==
    /\ Len(c) \in Nat /\ Len(d) \in Nat /\ Len(e) = Len(c) + Len(d)
    /\ DOMAIN c = 1..Len(c) /\ DOMAIN d = 1..Len(d) /\ DOMAIN e = 1..(Len(c) + Len(d))
    /\ \A n \in DOMAIN c : n \in DOMAIN e /\ e[n] = c[n]
    /\ \A n \in DOMAIN d : Len(c) + n \in DOMAIN e /\ e[Len(c) + n] = d[n]
    /\ \A n \in DOMAIN e : n \in DOMAIN c \/ \E j \in DOMAIN d : n = Len(c) + j

LEMMA CatParts ==
    ASSUME NEW S, NEW c \in Seq(S), NEW d \in Seq(S)
    PROVE  Cat(c, d) \in Seq(S) /\ Joins(Cat(c, d), c, d)
  <1>1. /\ Len(c) \in Nat /\ Len(d) \in Nat /\ Len(c \o d) = Len(c) + Len(d) /\ c \o d \in Seq(S)
        /\ DOMAIN c = 1..Len(c) /\ DOMAIN d = 1..Len(d)
    OBVIOUS
  <1>2. DOMAIN (c \o d) = 1..(Len(c) + Len(d))
    BY <1>1
  <1>3. \A n \in 1..Len(c) : n \in 1..(Len(c) + Len(d)) /\ (c \o d)[n] = c[n]
    OBVIOUS
  <1>4. \A n \in 1..Len(d) : Len(c) + n \in 1..(Len(c) + Len(d)) /\ (c \o d)[Len(c) + n] = d[n]
    OBVIOUS
  <1>5. ASSUME NEW n \in 1..(Len(c) + Len(d)) PROVE n \in 1..Len(c) \/ \E j \in 1..Len(d) : n = Len(c) + j
    <2>1. n \notin 1..Len(c) => n - Len(c) \in 1..Len(d) /\ n = Len(c) + (n - Len(c))
      BY <1>1
    <2> QED
      BY <2>1
  <1> QED
    BY <1>1, <1>2, <1>3, <1>4, <1>5 DEF Cat, Joins

LEMMA OneLine ==
    ASSUME NEW S, NEW line \in S
    PROVE  <<line>> \in Seq(S) /\ DOMAIN <<line>> = {1} /\ Len(<<line>>) = 1 /\ <<line>>[1] = line
  OBVIOUS

LEMMA EntryIdsOf ==
    /\ \A S : \A c, d \in Seq(S) : EntryIds(Cat(c, d)) = EntryIds(c) \cup EntryIds(d)
    /\ \A line : EntryIds(<<line>>) = IF IsEntry(line) THEN {line.id} ELSE {}
    /\ EntryIds(<<>>) = {}
  <1>1. ASSUME NEW S, NEW c \in Seq(S), NEW d \in Seq(S)
        PROVE  EntryIds(Cat(c, d)) = EntryIds(c) \cup EntryIds(d)
    <2> DEFINE e == Cat(c, d)
    <2>1. /\ \A n \in DOMAIN c : n \in DOMAIN e /\ e[n] = c[n]
          /\ \A n \in DOMAIN d : Len(c) + n \in DOMAIN e /\ e[Len(c) + n] = d[n]
          /\ \A n \in DOMAIN e : n \in DOMAIN c \/ \E j \in DOMAIN d : n = Len(c) + j
      <3>1. Joins(e, c, d)
        BY CatParts
      <3> HIDE DEF e
      <3> QED
        BY <3>1 DEF Joins
    <2> HIDE DEF e
    <2>2. ASSUME NEW n \in DOMAIN e, IsEntry(e[n]) PROVE e[n].id \in EntryIds(c) \cup EntryIds(d)
      <3>1. CASE n \in DOMAIN c
        BY <2>1, <2>2, <3>1 DEF EntryIds, EntryAt
      <3>2. ASSUME NEW j \in DOMAIN d, n = Len(c) + j PROVE e[n].id \in EntryIds(d)
        BY <2>1, <2>2, <3>2 DEF EntryIds, EntryAt
      <3> QED
        BY <2>1, <3>1, <3>2
    <2>3. ASSUME NEW n \in DOMAIN c, IsEntry(c[n]) PROVE c[n].id \in EntryIds(e)
      BY <2>1, <2>3 DEF EntryIds, EntryAt
    <2>4. ASSUME NEW n \in DOMAIN d, IsEntry(d[n]) PROVE d[n].id \in EntryIds(e)
      BY <2>1, <2>4 DEF EntryIds, EntryAt
    <2> QED
      BY <2>2, <2>3, <2>4 DEF EntryIds, EntryAt, e
  <1>2. ASSUME NEW line PROVE EntryIds(<<line>>) = IF IsEntry(line) THEN {line.id} ELSE {}
    <2> DEFINE one == <<line>>
    <2>1. DOMAIN one = {1} /\ one[1] = line
      OBVIOUS
    <2> HIDE DEF one
    <2>2. EntryIds(one) = IF IsEntry(line) THEN {line.id} ELSE {}
      BY <2>1 DEF EntryIds, EntryAt
    <2> QED
      BY <2>2 DEF one
  <1>3. EntryIds(<<>>) = {}
    BY DEF EntryIds, EntryAt
  <1> QED
    BY <1>1, <1>2, <1>3

(* The parent of each entry of c is among known or further up in c.        *)
RootedAfter(c, known) ==
    \A n \in DOMAIN c : IsEntry(c[n]) =>
        \/ c[n].parent \in known \cup {Root}
        \/ \E m \in DOMAIN c : m < n /\ IsEntry(c[m]) /\ c[m].id = c[n].parent

LEMMA RootedCat ==
    ASSUME NEW S, NEW c \in Seq(S), NEW d \in Seq(S), NEW known
    PROVE  RootedAfter(Cat(c, d), known) <=> RootedAfter(c, known) /\ RootedAfter(d, known \cup EntryIds(c))
  <1> DEFINE e == Cat(c, d)
  <1>1. /\ \A n \in DOMAIN c : n \in DOMAIN e /\ e[n] = c[n]
        /\ \A n \in DOMAIN d : Len(c) + n \in DOMAIN e /\ e[Len(c) + n] = d[n]
        /\ \A n \in DOMAIN e : n \in DOMAIN c \/ \E j \in DOMAIN d : n = Len(c) + j
        /\ Len(c) \in Nat /\ Len(d) \in Nat /\ DOMAIN c = 1..Len(c) /\ DOMAIN d = 1..Len(d)
    <2>1. Joins(e, c, d)
      BY CatParts
    <2> HIDE DEF e
    <2> QED
      BY <2>1 DEF Joins
  <1> HIDE DEF e
  <1>2. ASSUME RootedAfter(e, known) PROVE RootedAfter(c, known)
    <2>1. ASSUME NEW n \in DOMAIN c, IsEntry(c[n]), c[n].parent \notin known \cup {Root}
          PROVE  \E m \in DOMAIN c : m < n /\ IsEntry(c[m]) /\ c[m].id = c[n].parent
      <3>1. PICK m \in DOMAIN e : m < n /\ IsEntry(e[m]) /\ e[m].id = e[n].parent
        BY <1>1, <1>2, <2>1 DEF RootedAfter
      <3>2. m \in DOMAIN c
        BY <1>1, <2>1, <3>1
      <3> QED
        BY <1>1, <2>1, <3>1, <3>2
    <2> QED
      BY <2>1 DEF RootedAfter
  <1>3. ASSUME RootedAfter(e, known) PROVE RootedAfter(d, known \cup EntryIds(c))
    <2>1. ASSUME NEW n \in DOMAIN d, IsEntry(d[n]), d[n].parent \notin known \cup EntryIds(c) \cup {Root}
          PROVE  \E m \in DOMAIN d : m < n /\ IsEntry(d[m]) /\ d[m].id = d[n].parent
      <3>1. PICK m \in DOMAIN e : m < Len(c) + n /\ IsEntry(e[m]) /\ e[m].id = d[n].parent
        BY <1>1, <1>3, <2>1 DEF RootedAfter
      <3>2. m \notin DOMAIN c
        BY <1>1, <2>1, <3>1 DEF EntryIds, EntryAt
      <3>3. PICK j \in DOMAIN d : m = Len(c) + j
        BY <1>1, <3>1, <3>2
      <3>4. j < n
        BY <1>1, <3>1, <3>3
      <3> QED
        BY <1>1, <3>1, <3>3, <3>4
    <2> QED
      BY <2>1 DEF RootedAfter
  <1>4. ASSUME RootedAfter(c, known), RootedAfter(d, known \cup EntryIds(c)) PROVE RootedAfter(e, known)
    <2>1. ASSUME NEW n \in DOMAIN e, IsEntry(e[n]), e[n].parent \notin known \cup {Root}
          PROVE  \E m \in DOMAIN e : m < n /\ IsEntry(e[m]) /\ e[m].id = e[n].parent
      <3>1. CASE n \in DOMAIN c
        <4>1. PICK m \in DOMAIN c : m < n /\ IsEntry(c[m]) /\ c[m].id = c[n].parent
          BY <1>1, <1>4, <2>1, <3>1 DEF RootedAfter
        <4> QED
          BY <1>1, <3>1, <4>1
      <3>2. ASSUME NEW j \in DOMAIN d, n = Len(c) + j
            PROVE  \E m \in DOMAIN e : m < n /\ IsEntry(e[m]) /\ e[m].id = e[n].parent
        <4>1. e[n] = d[j]
          BY <1>1, <3>2
        <4>2. CASE d[j].parent \in EntryIds(c)
          <5>1. PICK m \in DOMAIN c : IsEntry(c[m]) /\ c[m].id = d[j].parent
            BY <4>2 DEF EntryIds, EntryAt
          <5>2. m < n
            BY <1>1, <3>2
          <5> QED
            BY <1>1, <4>1, <5>1, <5>2
        <4>3. CASE d[j].parent \notin EntryIds(c)
          <5>1. PICK m \in DOMAIN d : m < j /\ IsEntry(d[m]) /\ d[m].id = d[j].parent
            BY <1>4, <2>1, <4>1, <4>3 DEF RootedAfter
          <5>2. Len(c) + m < n
            BY <1>1, <3>2, <5>1
          <5> QED
            BY <1>1, <4>1, <5>1, <5>2
        <4> QED
          BY <4>2, <4>3
      <3> QED
        BY <1>1, <3>1, <3>2
    <2> QED
      BY <2>1 DEF RootedAfter
  <1> QED
    BY <1>2, <1>3, <1>4 DEF e

LEMMA RootedGrows ==
    ASSUME NEW c, NEW known, NEW more, known \subseteq more, RootedAfter(c, known)
    PROVE  RootedAfter(c, more)
  BY DEF RootedAfter

LEMMA RootedOne ==
    ASSUME NEW line, NEW known
    PROVE  RootedAfter(<<line>>, known) <=> (IsEntry(line) => line.parent \in known \cup {Root})
  <1> DEFINE one == <<line>>
  <1>1. DOMAIN one = {1} /\ one[1] = line
    OBVIOUS
  <1> HIDE DEF one
  <1>2. RootedAfter(one, known) <=> (IsEntry(line) => line.parent \in known \cup {Root})
    BY <1>1 DEF RootedAfter
  <1> QED
    BY <1>2 DEF one

LEMMA RootedNone == \A known : RootedAfter(<<>>, known)
  BY DEF RootedAfter

(* No two lines of c have one id.                                          *)
Distinct(c) == \A n, m \in DOMAIN c : c[n].id = c[m].id => n = m

(* Unless c is empty it begins with a header.                              *)
Headed(c) == c # <<>> => c[1].kind = "session"

(* The lines of d have other ids than those of c.                          *)
Apart(c, d) == \A n \in DOMAIN c, m \in DOMAIN d : c[n].id # d[m].id

LEMMA DistinctCat ==
    ASSUME NEW S, NEW c \in Seq(S), NEW d \in Seq(S)
    PROVE  Distinct(Cat(c, d)) <=> Distinct(c) /\ Distinct(d) /\ Apart(c, d)
  <1> DEFINE e == Cat(c, d)
  <1>1. Joins(e, c, d)
    BY CatParts
  <1> HIDE DEF e
  <1>2. ASSUME Distinct(e) PROVE Distinct(c) /\ Distinct(d) /\ Apart(c, d)
    <2>1. Distinct(c)
      BY <1>1, <1>2 DEF Joins, Distinct
    <2>2. Distinct(d)
      <3>1. ASSUME NEW n \in DOMAIN d, NEW m \in DOMAIN d, d[n].id = d[m].id PROVE n = m
        <4>1. Len(c) + n = Len(c) + m
          BY <1>1, <1>2, <3>1 DEF Joins, Distinct
        <4> QED
          BY <1>1, <4>1 DEF Joins
      <3> QED
        BY <3>1 DEF Distinct
    <2>3. Apart(c, d)
      <3>1. ASSUME NEW n \in DOMAIN c, NEW m \in DOMAIN d, c[n].id = d[m].id PROVE FALSE
        <4>1. n = Len(c) + m
          BY <1>1, <1>2, <3>1 DEF Joins, Distinct
        <4> QED
          BY <1>1, <4>1 DEF Joins
      <3> QED
        BY <3>1 DEF Apart
    <2> QED
      BY <2>1, <2>2, <2>3
  <1>3. ASSUME Distinct(c), Distinct(d), Apart(c, d) PROVE Distinct(e)
    <2>1. ASSUME NEW n \in DOMAIN e, NEW m \in DOMAIN e, e[n].id = e[m].id PROVE n = m
      <3>1. CASE n \in DOMAIN c /\ m \in DOMAIN c
        BY <1>1, <1>3, <2>1, <3>1 DEF Joins, Distinct
      <3>2. ASSUME NEW i \in DOMAIN d, n = Len(c) + i, NEW j \in DOMAIN d, m = Len(c) + j PROVE n = m
        <4>1. i = j
          BY <1>1, <1>3, <2>1, <3>2 DEF Joins, Distinct
        <4> QED
          BY <3>2, <4>1
      <3>3. ASSUME n \in DOMAIN c, NEW j \in DOMAIN d, m = Len(c) + j PROVE FALSE
        BY <1>1, <1>3, <2>1, <3>3 DEF Joins, Apart
      <3>4. ASSUME m \in DOMAIN c, NEW j \in DOMAIN d, n = Len(c) + j PROVE FALSE
        BY <1>1, <1>3, <2>1, <3>4 DEF Joins, Apart
      <3> QED
        BY <1>1, <3>1, <3>2, <3>3, <3>4 DEF Joins
    <2> QED
      BY <2>1 DEF Distinct
  <1> QED
    BY <1>2, <1>3 DEF e

LEMMA ApartCat ==
    ASSUME NEW S, NEW c \in Seq(S), NEW d \in Seq(S), NEW b
    PROVE  Apart(b, Cat(c, d)) <=> Apart(b, c) /\ Apart(b, d)
  <1> DEFINE e == Cat(c, d)
  <1>1. Joins(e, c, d)
    BY CatParts
  <1> HIDE DEF e
  <1>2. Apart(b, e) => Apart(b, c) /\ Apart(b, d)
    BY <1>1 DEF Joins, Apart
  <1>3. ASSUME Apart(b, c), Apart(b, d) PROVE Apart(b, e)
    <2>1. ASSUME NEW n \in DOMAIN b, NEW m \in DOMAIN e PROVE b[n].id # e[m].id
      BY <1>1, <1>3 DEF Joins, Apart
    <2> QED
      BY <2>1 DEF Apart
  <1> QED
    BY <1>2, <1>3 DEF e

(* Lines whose ids are their own, a header first, make a good file.        *)
LEMMA GoodFile ==
    ASSUME NEW k \in Nat, NEW content \in Seq(Made(k)),
           Distinct(Parsed(content)), Headed(Parsed(content))
    PROVE  WellFormed(content)
  <1> DEFINE lines == Parsed(content)
  <1>1. lines \in Seq(Sound(k))
    BY ParsedReads
  <1>2. /\ Distinct(lines) /\ Headed(lines)
        /\ WellFormed(content) <=> \A n, m \in DOMAIN lines :
                                     /\ lines[n].kind = "session" <=> n = 1
                                     /\ lines[n].id = lines[m].id => n = m
    BY DEF WellFormed
  <1> HIDE DEF lines
  <1>3. DOMAIN lines = 1..Len(lines) /\ Len(lines) \in Nat /\ \A n \in DOMAIN lines : lines[n] \in Sound(k)
    BY <1>1
  <1>4. \A n \in DOMAIN lines : lines[n].kind = "session" <=> lines[n].id = Root
    BY <1>3, MadeLines
  <1>5. ASSUME NEW n \in DOMAIN lines PROVE lines[n].kind = "session" <=> n = 1
    <2>1. 1 \in DOMAIN lines /\ lines[1].kind = "session"
      BY <1>1, <1>2, <1>3 DEF Headed
    <2> QED
      BY <1>2, <1>4, <2>1 DEF Distinct
  <1> QED
    BY <1>2, <1>5 DEF Distinct

-----------------------------------------------------------------------------
(* The lines of a fork.                                                    *)

LEMMA EntriesFacts ==
    ASSUME NEW k \in Nat, NEW c \in Seq(Sound(k))
    PROVE  /\ EntriesOf(c) \in Seq(Sound(k))
           /\ \A n \in DOMAIN EntriesOf(c) : IsEntry(EntriesOf(c)[n])
           /\ Distinct(c) => Distinct(EntriesOf(c))
           /\ RootedAfter(c, {}) => RootedAfter(EntriesOf(c), {})
  <1> DEFINE S == EntryAt(c)
             d == EntriesOf(c)
  <1>1. Below(S, Len(c)) /\ Holds(c, S, Sound(k)) /\ Len(c) \in Nat
    BY DEF Below, Holds, EntryAt
  <1>2. d = Picked(S, c)
    BY DEF EntriesOf
  <1>3. d \in Seq(Sound(k)) /\ \E m : \E p : Gathers(d, S, c, p, m)
    <2>1. Picked(S, c) \in Seq(Sound(k)) /\ \E m : \E p : Gathers(Picked(S, c), S, c, p, m)
      BY ONLY <1>1, PickedGathers
    <2> HIDE DEF S, d
    <2> QED
      BY ONLY <1>2, <2>1
  <1>4. PICK m : \E p : Gathers(d, S, c, p, m)
    BY <1>3
  <1>5. PICK p : Gathers(d, S, c, p, m)
    BY <1>4
  <1> HIDE DEF d
  <1>6. /\ DOMAIN d = 1..m /\ m \in Nat /\ DOMAIN c = 1..Len(c)
        /\ \A i \in 1..m : p[i] \in DOMAIN c /\ IsEntry(c[p[i]]) /\ d[i] = c[p[i]]
        /\ \A i, j \in 1..m : i < j => p[i] < p[j]
        /\ \A n \in DOMAIN c : IsEntry(c[n]) => \E i \in 1..m : p[i] = n
    BY <1>5 DEF Gathers, EntryAt
  <1>7. ASSUME Distinct(c) PROVE Distinct(d)
    <2>1. ASSUME NEW i \in DOMAIN d, NEW j \in DOMAIN d, d[i].id = d[j].id PROVE i = j
      <3>1. p[i] = p[j] /\ p[i] \in Nat
        BY <1>6, <1>7, <2>1 DEF Distinct
      <3> QED
        BY <1>6, <3>1
    <2> QED
      BY <2>1 DEF Distinct
  <1>8. ASSUME RootedAfter(c, {}) PROVE RootedAfter(d, {})
    <2>1. ASSUME NEW n \in DOMAIN d, d[n].parent # Root
          PROVE  \E l \in DOMAIN d : l < n /\ IsEntry(d[l]) /\ d[l].id = d[n].parent
      <3>1. PICK x \in DOMAIN c : x < p[n] /\ IsEntry(c[x]) /\ c[x].id = d[n].parent
        BY <1>6, <1>8, <2>1 DEF RootedAfter
      <3>2. PICK l \in 1..m : p[l] = x
        BY <1>6, <3>1
      <3>3. l < n
        BY <1>6, <3>1, <3>2
      <3> QED
        BY <1>6, <3>1, <3>2, <3>3
    <2> QED
      BY <2>1 DEF RootedAfter
  <1> QED
    BY <1>3, <1>6, <1>7, <1>8 DEF d

-----------------------------------------------------------------------------
(* The lines of an extracted branch.                                       *)

(* labels are label entries with the ids from k on: the first hangs on     *)
(* last, each other one on the one before it.                              *)
Chain(labels, k, last) ==
    \A n \in DOMAIN labels :
        /\ IsEntry(labels[n]) /\ labels[n].id = k + n - 1
        /\ labels[n].parent = IF n > 1 THEN k + n - 2 ELSE last

LEMMA LabelFacts ==
    ASSUME NEW k \in Nat, k = nextId, k # 0, NEW path \in Seq(Sound(k)),
           \A n \in DOMAIN path : IsEntry(path[n]),
           labelsById \in [Ids -> Labels \cup {NoLabel}],
           k + Len(LabelEntries(path)) <= MaxEntries + 1
    PROVE  /\ LabelEntries(path) \in Seq(Sound(k + Len(LabelEntries(path))))
           /\ Len(LabelEntries(path)) \in Nat
           /\ Chain(LabelEntries(path), k, IF path = <<>> THEN Root ELSE path[Len(path)].id)
  <1> DEFINE known == {path[n].id : n \in DOMAIN path}
             S == {id \in known : labelsById[id] # NoLabel}
             targets == Ascending(S)
             last == IF path = <<>> THEN Root ELSE path[Len(path)].id
             before(n) == IF n > 1 THEN k + n - 2 ELSE last
             labels == [n \in DOMAIN targets |->
                          Label(k + n - 1, before(n), targets[n], labelsById[targets[n]])]
  <1>1. LabelEntries(path) = labels
    BY DEF LabelEntries
  <1>2. \A n \in DOMAIN path : path[n].id \in Ids /\ path[n].id < k
    BY MadeLines
  <1>3. S \subseteq Ids
    BY <1>2
  <1>4. PICK m \in Nat : targets \in Seq(Ids) /\ DOMAIN targets = 1..m
    BY <1>3, AscendingLists
  <1>5. last \in Ids \cup {Root} /\ last < k
    <2>1. CASE path # <<>>
      <3>1. Len(path) \in DOMAIN path
        BY <2>1
      <3> QED
        BY <1>2, <2>1, <3>1
    <2> QED
      BY <2>1, IdRange
  <1> HIDE DEF S, targets, last
  <1>6. DOMAIN labels = 1..m /\ labels = [n \in 1..m |-> labels[n]]
    BY <1>4
  <1>7. \A n \in 1..m : labels[n] = Label(k + n - 1, before(n), targets[n], labelsById[targets[n]])
    BY <1>4
  <1> HIDE DEF labels
  <1>8. Len(labels) = m
    <2>1. labels \in Seq({labels[n] : n \in 1..m})
      BY <1>6, SeqOfFunction
    <2> QED
      BY <1>6, SeqOfFunction
  <1>9. k + m <= MaxEntries + 1 /\ MaxEntries \in Nat
    BY <1>1, <1>8, IdRange
  <1>10. ASSUME NEW n \in 1..m
         PROVE  /\ labels[n] \in Sound(k + m) /\ IsEntry(labels[n])
                /\ labels[n].id = k + n - 1 /\ labels[n].parent = before(n)
    <2>1. k + n - 1 \in Ids /\ k + n - 1 < k + m
      BY <1>9 DEF Ids
    <2>2. before(n) \in Ids \cup {Root} /\ before(n) < k + n - 1
      <3>1. CASE n > 1
        <4>1. k + n - 2 \in Ids
          BY <1>9, <3>1 DEF Ids
        <4> QED
          BY <3>1, <4>1
      <3>2. CASE n = 1
        <4>1. before(n) = last
          BY <3>2
        <4>2. before(n) \in Ids \cup {Root} /\ before(n) < k
          BY <1>5, <4>1
        <4>3. k + n - 1 = k
          BY <3>2
        <4> HIDE DEF before
        <4> QED
          BY ONLY <4>2, <4>3
      <3>3. n > 1 \/ n = 1
        OBVIOUS
      <3> QED
        BY ONLY <3>1, <3>2, <3>3
    <2>3. targets[n] \in Ids /\ labelsById[targets[n]] \in Labels \cup {NoLabel}
      BY <1>4
    <2> HIDE DEF before
    <2>4. /\ labels[n] \in Line /\ labels[n].kind = "label"
          /\ labels[n].id = k + n - 1 /\ labels[n].parent = before(n)
      <3> DEFINE i == k + n - 1
                 b == before(n)
                 t == targets[n]
                 l == labelsById[t]
      <3>1. i \in Ids \cup {Root} /\ b \in Ids \cup {Root} /\ t \in Ids \cup {Root} /\ l \in Labels \cup {NoLabel}
        BY <2>1, <2>2, <2>3
      <3>2. labels[n] = Label(i, b, t, l)
        BY <1>7
      <3> HIDE DEF i, b, t, l
      <3>3. Label(i, b, t, l) \in Line /\ Label(i, b, t, l).kind = "label"
            /\ Label(i, b, t, l).id = i /\ Label(i, b, t, l).parent = b
        BY ONLY <3>1, LineTypes
      <3> QED
        BY <3>2, <3>3 DEF i, b
    <2>5. IsEntry(labels[n]) /\ Parses(labels[n])
      BY <2>4 DEF IsEntry, EntryKinds, Parses
    <2> QED
      BY <2>1, <2>2, <2>4, <2>5 DEF Made, Sound
  <1>11. labels \in Seq(Sound(k + m))
    BY <1>6, <1>10, SeqOfFunction
  <1>12. Chain(labels, k, last)
    BY <1>6, <1>10 DEF Chain
  <1> QED
    BY <1>1, <1>8, <1>11, <1>12 DEF last

LEMMA ChainFacts ==
    ASSUME NEW k \in Nat, NEW S, NEW labels \in Seq(S), NEW last, Chain(labels, k, last)
    PROVE  Distinct(labels) /\ \A known : last \in known \cup {Root} => RootedAfter(labels, known)
  <1>1. DOMAIN labels = 1..Len(labels) /\ Len(labels) \in Nat
    OBVIOUS
  <1>2. Distinct(labels)
    BY <1>1 DEF Chain, Distinct
  <1>3. ASSUME NEW known, last \in known \cup {Root} PROVE RootedAfter(labels, known)
    <2>1. ASSUME NEW n \in DOMAIN labels, labels[n].parent \notin known \cup {Root}
          PROVE  \E m \in DOMAIN labels : m < n /\ IsEntry(labels[m]) /\ labels[m].id = labels[n].parent
      <3>1. n > 1 /\ labels[n].parent = k + n - 2
        BY <1>1, <1>3, <2>1 DEF Chain
      <3>2. n - 1 \in DOMAIN labels /\ n - 1 < n /\ labels[n - 1].id = k + (n - 1) - 1 /\ IsEntry(labels[n - 1])
        BY <1>1, <3>1 DEF Chain
      <3> QED
        BY <1>1, <3>1, <3>2
    <2> QED
      BY <2>1 DEF RootedAfter
  <1> QED
    BY <1>2, <1>3

(* Every entry's parent is an entry or there is none.                      *)
Closed(lines) == \A n \in DOMAIN lines : IsEntry(lines[n]) => lines[n].parent \in EntryIds(lines) \cup {Root}

LEMMA RootedCloses ==
    ASSUME NEW lines, RootedAfter(lines, {})
    PROVE  Closed(lines)
  BY DEF RootedAfter, Closed, EntryIds, EntryAt

(* A path whose labels nothing hangs on is whole without them.             *)
LEMMA ConversationRooted ==
    ASSUME NEW k \in Nat, NEW lines \in Seq(Sound(k)), NEW id \in Ids \cup {Root}, Closed(lines),
           \A n \in DOMAIN Conversation(lines, id) :
              ~ /\ Conversation(lines, id)[n].parent \in EntryIds(lines)
                /\ EntryOf(lines, Conversation(lines, id)[n].parent).kind = "label"
    PROVE  RootedAfter(Conversation(lines, id), {})
  <1> DEFINE path == Conversation(lines, id)
             U == {x \in Ancestors(lines)[id] : EntryOf(lines, x).kind # "label"}
  <1>0. lines \in Seq(Made(k))
    BY MadeLines, SeqGrows
  <1>1. path \in Seq(Sound(k)) /\ Tells(path, lines, U)
    BY ConversationFacts
  <1>h. \A n \in DOMAIN path : ~ /\ path[n].parent \in EntryIds(lines)
                                  /\ EntryOf(lines, path[n].parent).kind = "label"
    OBVIOUS
  <1> HIDE DEF path
  <1>2. ASSUME NEW n \in DOMAIN path, path[n].parent # Root
        PROVE  \E m \in DOMAIN path : m < n /\ IsEntry(path[m]) /\ path[m].id = path[n].parent
    <2> DEFINE p == path[n].parent
    <2>1. path[n].id \in U /\ path[n] = EntryOf(lines, path[n].id) /\ path[n].id \in EntryIds(lines)
      BY <1>0, <1>1, AncestorFacts DEF Tells
    <2>2. p \in EntryIds(lines) /\ p < path[n].id
      <3>1. PICK i \in DOMAIN lines : path[n] = lines[i]
        BY <1>0, <2>1, EntryOfFacts
      <3>2. IsEntry(lines[i])
        BY <1>1, <3>1 DEF Tells
      <3> QED
        BY <1>0, <1>2, <2>1, <3>1, <3>2, EntryOfFacts DEF Closed
    <2>3. p \in Ancestors(lines)[id]
      BY <1>0, <2>1, <2>2, AncestorFacts
    <2>4. p \in U
      BY <1>h, <2>2, <2>3
    <2>5. PICK m \in DOMAIN path : path[m].id = p
      BY <1>1, <2>4 DEF Tells
    <2>6. m < n
      <3>1. path[m].id < path[n].id /\ path[m].id \in Nat /\ path[n].id \in Nat
        BY <1>0, <2>1, <2>2, <2>5, EntryOfFacts, IdRange
      <3>2. m \in Nat /\ n \in Nat
        BY <1>1
      <3>3. ~(n < m) /\ m # n
        <4>1. n < m => path[n].id < path[m].id
          BY <1>1 DEF Tells
        <4> QED
          BY <3>1, <4>1
      <3> QED
        BY <3>2, <3>3
    <2> QED
      BY <1>1, <2>5, <2>6 DEF Tells
  <1>3. RootedAfter(path, {})
    BY <1>2 DEF RootedAfter
  <1> QED
    BY <1>3 DEF path

-----------------------------------------------------------------------------
(* The invariant.                                                          *)

ContentOf(d, f) == IF f \in DOMAIN d THEN d[f] ELSE <<>>

(* What a reader of file f finds once the lines w are written too.         *)
OnFile(d, f, w) == Cat(Parsed(ContentOf(d, f)), w)

(* Ids grow, and unless a line was cut all lines are whole.                *)
TypedOf(entries, leaf, labels, done, f, w, d, k, m) ==
    /\ k \in 1..(MaxEntries + 1)
    /\ entries \in Seq(Sound(k)) /\ w \in Seq(Sound(k))
    /\ leaf \in Ids \cup {Root} /\ leaf < k
    /\ labels \in [Ids -> Labels \cup {NoLabel}]
    /\ done \in BOOLEAN
    /\ f \in Files \cup {NoFile} /\ (w # <<>> => f # NoFile)
    /\ DOMAIN d \subseteq Files
    /\ \A g \in DOMAIN d : d[g] \in Seq(Made(k))
    /\ "torn" \notin m => \A g \in DOMAIN d : d[g] \in Seq(Sound(k))

(* Until a label is left behind on a path, every parent precedes its       *)
(* children, in memory and in every file.                                  *)
RootedOf(entries, leaf, done, f, w, d, m) ==
    m \cap {"torn", "labelled"} = {} =>
        /\ leaf \in EntryIds(entries) \cup {Root}
        /\ RootedAfter(entries, {})
        /\ \A g \in DOMAIN d : RootedAfter(Parsed(d[g]), {})
        /\ RootedAfter(OnFile(d, f, w), {})
        /\ done => EntryIds(entries) \subseteq EntryIds(OnFile(d, f, w))

(* Until a file without an answer is opened, nothing is written before     *)
(* there is an answer, and everything once.                                *)
NumberedOf(entries, done, f, w, d, m) ==
    "unanswered" \notin m =>
        /\ Distinct(entries) /\ Headed(entries)
        /\ \A g \in DOMAIN d : Distinct(Parsed(d[g])) /\ Headed(Parsed(d[g]))
        /\ Distinct(OnFile(d, f, w)) /\ Headed(OnFile(d, f, w))
        /\ f # NoFile => /\ entries # <<>>
                         /\ done <=> HasAssistant(entries)
                         /\ ~done => w = <<>> /\ f \notin DOMAIN d
                         /\ done => OnFile(d, f, w) # <<>>
                         /\ ContentOf(d, f) # <<>> => Parsed(ContentOf(d, f)) # <<>>

(* ... and the file is what is in memory.                                  *)
DurableOf(entries, f, w, d, m) ==
    m \cap {"torn", "unanswered"} = {} =>
        (f # NoFile /\ HasAssistant(entries) => OnFile(d, f, w) = entries)

Typed == TypedOf(fileEntries, leafId, labelsById, flushed, sessionFile, writing, disk, nextId, met)
Rooted == RootedOf(fileEntries, leafId, flushed, sessionFile, writing, disk, met)
Numbered == NumberedOf(fileEntries, flushed, sessionFile, writing, disk, met)
Durable == DurableOf(fileEntries, sessionFile, writing, disk, met)

Invariant == Typed /\ Rooted /\ Numbered /\ Durable

LEMMA TypedPrimed ==
    Typed' <=> TypedOf(fileEntries', leafId', labelsById', flushed', sessionFile', writing', disk', nextId', met')
  BY DEF Typed, TypedOf, Sound, Made, IsEntry, Parses

LEMMA RootedPrimed ==
    Rooted' <=> RootedOf(fileEntries', leafId', flushed', sessionFile', writing', disk', met')
  BY DEF Rooted, RootedOf, RootedAfter, OnFile, ContentOf, EntryIds, EntryAt, IsEntry, Parsed, Parses, Cat,
         Picked, Rank

LEMMA NumberedPrimed ==
    Numbered' <=> NumberedOf(fileEntries', flushed', sessionFile', writing', disk', met')
  BY DEF Numbered, NumberedOf, Distinct, Headed, OnFile, ContentOf, HasAssistant, Parsed, Parses, Cat,
         Picked, Rank

LEMMA DurablePrimed ==
    Durable' <=> DurableOf(fileEntries', sessionFile', writing', disk', met')
  BY DEF Durable, DurableOf, OnFile, ContentOf, HasAssistant, Parsed, Parses, Cat, Picked, Rank

LEMMA EmptyFacts ==
    /\ Parsed(<<>>) = <<>> /\ Distinct(<<>>) /\ Headed(<<>>) /\ ~Cut(<<>>)
    /\ ~HasAssistant(<<>>) /\ \A S : <<>> \in Seq(S)
    /\ \A f, d : f \notin DOMAIN d => ContentOf(d, f) = <<>>
  <1>1. Parsed(<<>>) = <<>>
    <2>1. <<>> \in Seq(Sound(0))
      OBVIOUS
    <2> QED
      BY <2>1, ParsedAll
  <1> QED
    BY <1>1 DEF Distinct, Headed, Cut, HasAssistant, ContentOf

(* The content of a file, and what is read from it.                        *)
LEMMA ContentFacts ==
    ASSUME NEW k \in Nat, NEW d, \A g \in DOMAIN d : d[g] \in Seq(Made(k)), NEW f
    PROVE  /\ ContentOf(d, f) \in Seq(Made(k)) /\ Parsed(ContentOf(d, f)) \in Seq(Sound(k))
           /\ f \notin DOMAIN d => Parsed(ContentOf(d, f)) = <<>>
           /\ (\A g \in DOMAIN d : d[g] \in Seq(Sound(k))) =>
                ContentOf(d, f) \in Seq(Sound(k)) /\ ~Cut(ContentOf(d, f))
  <1> DEFINE c == ContentOf(d, f)
  <1>1. c \in Seq(Made(k))
    BY EmptyFacts DEF ContentOf
  <1>2. ASSUME \A g \in DOMAIN d : d[g] \in Seq(Sound(k)) PROVE c \in Seq(Sound(k))
    BY <1>2, EmptyFacts DEF ContentOf
  <1>3. f \notin DOMAIN d => Parsed(c) = <<>>
    BY EmptyFacts
  <1> HIDE DEF c
  <1>4. ASSUME c \in Seq(Sound(k)) PROVE ~Cut(c)
    <2>1. c # <<>> => c[Len(c)] \in Sound(k)
      BY <1>4
    <2> QED
      BY <2>1 DEF Cut, Sound, Parses
  <1> QED
    BY <1>1, <1>2, <1>3, <1>4, ParsedReads DEF c

LEMMA PutFacts ==
    ASSUME NEW f, NEW x, disk' = Put(f, x)
    PROVE  /\ DOMAIN disk' = DOMAIN disk \cup {f} /\ disk'[f] = x /\ ContentOf(disk', f) = x
           /\ \A g \in DOMAIN disk : g # f => disk'[g] = disk[g]
  BY DEF Put, ContentOf

LEMMA HeadedCat ==
    ASSUME NEW S, NEW c \in Seq(S), NEW d \in Seq(S)
    PROVE  /\ c # <<>> => (Headed(Cat(c, d)) <=> Headed(c)) /\ Cat(c, d) # <<>>
           /\ d # <<>> => Cat(c, d) # <<>>
           /\ Cat(<<>>, d) = d /\ Cat(c, <<>>) = c
  <1> DEFINE e == Cat(c, d)
  <1>1. Joins(e, c, d) /\ e \in Seq(S)
    BY CatParts
  <1> HIDE DEF e
  <1>2. c # <<>> => 1 \in DOMAIN c
    OBVIOUS
  <1>3. c # <<>> => e # <<>> /\ e[1] = c[1]
    BY <1>1, <1>2 DEF Joins
  <1>4. d # <<>> => Len(d) > 0
    OBVIOUS
  <1>5. d # <<>> => e # <<>>
    BY <1>1, <1>4 DEF Joins
  <1>6. Cat(<<>>, d) = d /\ Cat(c, <<>>) = c
    BY CatNone
  <1> QED
    BY <1>3, <1>5, <1>6 DEF e, Headed

-----------------------------------------------------------------------------
(* A line is written.                                                      *)

(* The line h goes to the file's content c, which becomes e; the lines t   *)
(* are left.                                                               *)
Writes(c, h, t, e) ==
    /\ nextId \in Nat /\ sessionFile \in Files
    /\ c \in Seq(Made(nextId)) /\ Parsed(c) \in Seq(Sound(nextId))
    /\ h \in Sound(nextId) /\ t \in Seq(Sound(nextId)) /\ <<h>> \in Seq(Sound(nextId))
    /\ c = ContentOf(disk, sessionFile)
    /\ writing = Cat(<<h>>, t) /\ writing # <<>> /\ writing' = t
    /\ disk' = Put(sessionFile, e) /\ e \in Seq(Made(nextId)) /\ e # <<>>
    /\ Parsed(e) = IF Cut(c) THEN Parsed(c) ELSE Cat(Parsed(c), <<h>>)
    /\ OnFile(disk, sessionFile, writing) = Cat(Parsed(c), writing)
    /\ Cat(Parsed(c), writing) = Cat(Cat(Parsed(c), <<h>>), t)
    /\ ContentOf(disk', sessionFile) = e
    /\ OnFile(disk', sessionFile, t) = Cat(Parsed(e), t)
    /\ "torn" \notin met => ~Cut(c) /\ e \in Seq(Sound(nextId))

LEMMA WriteEffect ==
    ASSUME Typed, WriteLine
    PROVE  \E c, h, t, e : Writes(c, h, t, e)
  <1> DEFINE c == ContentOf(disk, sessionFile)
             h == Head(writing)
             t == Tail(writing)
             e == Extended(c, h)
             k == nextId
  <1>1. /\ k \in Nat /\ sessionFile \in Files /\ writing \in Seq(Sound(k)) /\ writing # <<>>
        /\ \A g \in DOMAIN disk : disk[g] \in Seq(Made(k))
        /\ "torn" \notin met => \A g \in DOMAIN disk : disk[g] \in Seq(Sound(k))
    BY IdRange DEF Typed, TypedOf, WriteLine
  <1>2. c \in Seq(Made(k)) /\ Parsed(c) \in Seq(Sound(k)) /\ ("torn" \notin met => ~Cut(c) /\ c \in Seq(Sound(k)))
    BY <1>1, ContentFacts
  <1>3. h \in Sound(k) /\ t \in Seq(Sound(k)) /\ <<h>> \in Seq(Sound(k)) /\ writing = <<h>> \o t
    BY <1>1
  <1>4. writing' = t /\ disk' = Put(sessionFile, e)
    BY DEF WriteLine, Content, Exists, ContentOf
  <1>5. h \in Made(k) /\ Parses(h)
    BY <1>3 DEF Sound
  <1>6. e \in Seq(Made(k)) /\ e # <<>> /\ Parsed(e) = IF Cut(c) THEN Parsed(c) ELSE Cat(Parsed(c), <<h>>)
    BY <1>1, <1>2, <1>5, ExtendedReads
  <1>7. ASSUME "torn" \notin met PROVE e \in Seq(Sound(k))
    <2>1. e = Append(c, h)
      BY <1>2, <1>7 DEF Extended, Cut
    <2>2. c \in Seq(Sound(k)) /\ h \in Sound(k)
      BY <1>2, <1>3, <1>7
    <2> HIDE DEF c, h, e, k
    <2>3. Append(c, h) \in Seq(Sound(k))
      BY <2>2
    <2> QED
      BY <2>1, <2>3
  <1>8. ContentOf(disk', sessionFile) = e
    BY <1>4, PutFacts
  <1>9. Cat(Parsed(c), Cat(<<h>>, t)) = Cat(Cat(Parsed(c), <<h>>), t)
    <2> HIDE DEF c, h, t, e, k
    <2>1. <<h>> \in Seq(Made(k)) /\ t \in Seq(Made(k)) /\ Parsed(c) \in Seq(Made(k))
      BY <1>1, <1>2, <1>3, MadeLines, SeqGrows
    <2> DEFINE one == <<h>>
               A == Seq(Made(k))
    <2>2. one \in A /\ t \in A /\ Parsed(c) \in A
      BY <2>1
    <2>3. \A x, y, z \in A : Cat(x, Cat(y, z)) = Cat(Cat(x, y), z)
      BY CatAssoc
    <2> HIDE DEF one, A
    <2>4. Cat(Parsed(c), Cat(one, t)) = Cat(Cat(Parsed(c), one), t)
      BY ONLY <2>2, <2>3
    <2> QED
      BY <2>4 DEF one
  <1>10. writing = Cat(<<h>>, t)
    BY <1>3 DEF Cat
  <1>11. OnFile(disk, sessionFile, writing) = Cat(Parsed(c), writing) /\ OnFile(disk', sessionFile, t) = Cat(Parsed(e), t)
    BY <1>8 DEF OnFile
  <1>12. c = ContentOf(disk, sessionFile)
    OBVIOUS
  <1> HIDE DEF c, h, t, e
  <1>13. Writes(c, h, t, e)
    BY <1>1, <1>2, <1>3, <1>4, <1>6, <1>7, <1>8, <1>9, <1>10, <1>11, <1>12 DEF Writes
  <1> QED
    BY <1>13

LEMMA WriteKeeps ==
    ASSUME Invariant, WriteLine
    PROVE  Invariant'
  <1> DEFINE k == nextId
             f == sessionFile
             w == writing
  <1>1. Typed /\ Rooted /\ Numbered /\ Durable
    BY DEF Invariant
  <1>2. PICK c, h, t, e : Writes(c, h, t, e)
    BY <1>1, WriteEffect
  <1>3. /\ fileEntries' = fileEntries /\ leafId' = leafId /\ labelsById' = labelsById
        /\ flushed' = flushed /\ sessionFile' = f /\ nextId' = k /\ met' = met
    BY DEF WriteLine, memory
  <1> DEFINE one == <<h>>
             P == Parsed(c)
             Q == Parsed(e)
  <1>4. /\ k \in Nat /\ f \in Files /\ c \in Seq(Made(k)) /\ P \in Seq(Sound(k)) /\ c = ContentOf(disk, f)
        /\ t \in Seq(Sound(k)) /\ one \in Seq(Sound(k)) /\ w = Cat(one, t) /\ w # <<>> /\ writing' = t
        /\ disk' = Put(f, e) /\ e \in Seq(Made(k)) /\ e # <<>>
        /\ Q = IF Cut(c) THEN P ELSE Cat(P, one)
        /\ OnFile(disk, f, w) = Cat(P, w) /\ Cat(P, w) = Cat(Cat(P, one), t)
        /\ ContentOf(disk', f) = e /\ OnFile(disk', f, t) = Cat(Q, t)
        /\ "torn" \notin met => ~Cut(c) /\ e \in Seq(Sound(k))
    BY <1>2 DEF Writes
  <1>5. one # <<>> /\ one \in Seq(Sound(k))
    BY <1>4
  <1>6. /\ DOMAIN disk' = DOMAIN disk \cup {f} /\ disk'[f] = e
        /\ \A g \in DOMAIN disk : g # f => disk'[g] = disk[g]
    BY <1>4, PutFacts
  <1> HIDE DEF one, P, Q, k, f, w
  <1>7. Typed'
    <2>1. TypedOf(fileEntries, leafId, labelsById, flushed, f, t, disk', k, met)
      BY <1>1, <1>4, <1>6 DEF Typed, TypedOf, k, f, w
    <2> QED
      BY <1>3, <1>4, <2>1, TypedPrimed
  <1>8. Q \in Seq(Sound(k)) /\ Cat(P, one) \in Seq(Sound(k)) /\ ("torn" \notin met => Cat(Q, t) = Cat(P, w))
    BY <1>4, CatType
  <1>9. Rooted'
    <2>1. ASSUME met \cap {"torn", "labelled"} = {}
          PROVE  /\ leafId \in EntryIds(fileEntries) \cup {Root}
                 /\ RootedAfter(fileEntries, {})
                 /\ \A g \in DOMAIN disk' : RootedAfter(Parsed(disk'[g]), {})
                 /\ RootedAfter(OnFile(disk', f, t), {})
                 /\ flushed => EntryIds(fileEntries) \subseteq EntryIds(OnFile(disk', f, t))
      <3>1. /\ leafId \in EntryIds(fileEntries) \cup {Root}
            /\ RootedAfter(fileEntries, {})
            /\ \A g \in DOMAIN disk : RootedAfter(Parsed(disk[g]), {})
            /\ RootedAfter(OnFile(disk, f, w), {})
            /\ flushed => EntryIds(fileEntries) \subseteq EntryIds(OnFile(disk, f, w))
        BY <1>1, <2>1 DEF Rooted, RootedOf, f, w
      <3>2. OnFile(disk', f, t) = OnFile(disk, f, w)
        BY <1>4, <1>8, <2>1
      <3>3. RootedAfter(Cat(Q, t), {})
        BY <1>4, <3>1, <3>2
      <3>4. RootedAfter(Q, {})
        BY <1>4, <1>8, <3>3, RootedCat
      <3> QED
        BY <1>6, <3>1, <3>2, <3>4 DEF Q
    <2>2. RootedOf(fileEntries, leafId, flushed, f, t, disk', met)
      BY <2>1 DEF RootedOf
    <2> QED
      BY <1>3, <1>4, <2>2, RootedPrimed
  <1>10. Numbered'
    <2>1. ASSUME "unanswered" \notin met
          PROVE  /\ Distinct(fileEntries) /\ Headed(fileEntries)
                 /\ \A g \in DOMAIN disk' : Distinct(Parsed(disk'[g])) /\ Headed(Parsed(disk'[g]))
                 /\ Distinct(OnFile(disk', f, t)) /\ Headed(OnFile(disk', f, t))
                 /\ fileEntries # <<>> /\ (flushed <=> HasAssistant(fileEntries)) /\ flushed
                 /\ Q # <<>> /\ OnFile(disk', f, t) # <<>>
      <3>1. /\ Distinct(fileEntries) /\ Headed(fileEntries)
            /\ \A g \in DOMAIN disk : Distinct(Parsed(disk[g])) /\ Headed(Parsed(disk[g]))
            /\ Distinct(OnFile(disk, f, w)) /\ Headed(OnFile(disk, f, w))
            /\ f # NoFile => /\ fileEntries # <<>>
                             /\ flushed <=> HasAssistant(fileEntries)
                             /\ ~flushed => w = <<>> /\ f \notin DOMAIN disk
                             /\ ContentOf(disk, f) # <<>> => Parsed(ContentOf(disk, f)) # <<>>
        BY <1>1, <2>1 DEF Numbered, NumberedOf, f, w
      <3>2. f # NoFile
        BY <1>4, SessionAssumption
      <3>3. Distinct(Cat(Cat(P, one), t)) /\ Headed(Cat(Cat(P, one), t)) /\ Distinct(Cat(P, w))
        BY <1>4, <3>1
      <3>4. /\ Distinct(Cat(P, one)) /\ Distinct(P) /\ Distinct(t) /\ Apart(P, w) /\ Apart(P, t)
        <4>1. Distinct(Cat(P, one)) /\ Distinct(t)
          BY <1>4, <1>8, <3>3, DistinctCat
        <4>2. w \in Seq(Sound(k))
          BY <1>4, CatType
        <4>3. Distinct(P) /\ Apart(P, w)
          BY <1>4, <3>3, <4>2, DistinctCat
        <4>4. Apart(P, t)
          BY <1>4, <4>3, ApartCat
        <4> QED
          BY <4>1, <4>3, <4>4
      <3>5. Cat(P, one) # <<>> /\ Headed(Cat(P, one))
        BY <1>4, <1>5, <1>8, <3>3, HeadedCat
      <3>6. CASE Cut(c)
        <4>1. P # <<>> /\ Q = P
          BY <1>4, <3>1, <3>2, <3>6 DEF Cut, P
        <4>2. Headed(P) /\ Headed(Cat(P, t)) /\ Cat(P, t) # <<>>
          BY <1>4, <3>5, <4>1, HeadedCat
        <4>3. Distinct(Cat(P, t))
          BY <1>4, <3>4, DistinctCat
        <4> QED
          BY <1>4, <1>6, <3>1, <3>2, <3>4, <4>1, <4>2, <4>3 DEF Q
      <3>7. CASE ~Cut(c)
        <4>1. Q = Cat(P, one) /\ Cat(Cat(P, one), t) # <<>>
          BY <1>4, <1>8, <3>5, <3>7, HeadedCat
        <4> QED
          BY <1>4, <1>6, <3>1, <3>2, <3>3, <3>4, <3>5, <4>1 DEF Q
      <3> QED
        BY <3>6, <3>7
    <2>2. NumberedOf(fileEntries, flushed, f, t, disk', met)
      BY <1>4, <2>1 DEF NumberedOf, Q
    <2> QED
      BY <1>3, <1>4, <2>2, NumberedPrimed
  <1>11. Durable'
    <2>1. DurableOf(fileEntries, f, t, disk', met)
      BY <1>1, <1>4, <1>8 DEF Durable, DurableOf, f, w
    <2> QED
      BY <1>3, <1>4, <2>1, DurablePrimed
  <1> QED
    BY <1>7, <1>9, <1>10, <1>11 DEF Invariant

-----------------------------------------------------------------------------
(* An entry is appended.                                                   *)

LEMMA AssistantCat ==
    ASSUME NEW S, NEW c \in Seq(S), NEW d \in Seq(S), HasAssistant(c)
    PROVE  HasAssistant(Cat(c, d))
  <1> DEFINE e == Cat(c, d)
  <1>1. Joins(e, c, d)
    BY CatParts
  <1> HIDE DEF e
  <1>2. HasAssistant(e)
    BY <1>1 DEF Joins, HasAssistant
  <1> QED
    BY <1>2 DEF e

(* No line there is has the next id.                                       *)
LEMMA NewIdApart ==
    ASSUME NEW k \in Nat, k # 0, NEW c \in Seq(Sound(k)), NEW e, e.id = k
    PROVE  Apart(c, <<e>>) /\ Distinct(<<e>>)
  <1> DEFINE one == <<e>>
  <1>1. DOMAIN one = {1} /\ one[1] = e
    OBVIOUS
  <1> HIDE DEF one
  <1>2. \A n \in DOMAIN c : c[n].id # k
    <2>1. ASSUME NEW n \in DOMAIN c PROVE c[n].id # k
      <3>1. c[n] \in Sound(k) /\ c[n] \in Made(k)
        BY MadeLines
      <3>2. IsEntry(c[n]) => c[n].id \in Nat /\ c[n].id < k
        BY <3>1, MadeLines, IdRange
      <3>3. ~IsEntry(c[n]) => c[n].id = 0
        BY <3>1, MadeLines, IdRange
      <3> QED
        BY <3>2, <3>3
    <2> QED
      BY <2>1
  <1>3. Apart(c, one) /\ Distinct(one)
    BY <1>1, <1>2 DEF Apart, Distinct
  <1> QED
    BY <1>3 DEF one

(* What may be appended to the session.                                    *)
Fits(e) ==
    /\ e \in Sound(nextId + 1) /\ IsEntry(e) /\ e.id = nextId
    /\ met \cap {"torn", "labelled"} = {} => e.parent \in EntryIds(fileEntries) \cup {Root}
    /\ labelsById' \in [Ids -> Labels \cup {NoLabel}]

LEMMA AppendKeeps ==
    ASSUME Invariant, Ready, nextId \in Ids, NEW e, Fits(e), AppendEntry(e)
    PROVE  Invariant'
  <1> DEFINE k == nextId
             f == sessionFile
             one == <<e>>
             old == fileEntries
             new == Cat(old, one)
             w == writing'
             P == Parsed(ContentOf(disk, f))
  <1>1. Typed /\ Rooted /\ Numbered /\ Durable
    BY DEF Invariant
  <1>2. /\ fileEntries' = new /\ leafId' = k /\ flushed' = HasAssistant(new)
        /\ w = IF ~HasAssistant(new) THEN <<>> ELSE IF flushed THEN one ELSE new
        /\ nextId' = k + 1 /\ sessionFile' = f /\ disk' = disk /\ met' = met
        /\ writing = <<>> /\ f # NoFile
    <2>1. Append(fileEntries, e) = new
      BY <1>1 DEF Typed, TypedOf, Cat
    <2> HIDE DEF new
    <2> QED
      BY <2>1 DEF AppendEntry, Ready, Fits
  <1>3. /\ k \in Nat /\ k # 0 /\ k \in Ids /\ k + 1 \in 1..(MaxEntries + 1) /\ k + 1 \in Nat
        /\ Sound(k) \subseteq Sound(k + 1) /\ Made(k) \subseteq Made(k + 1)
    <2>1. k \in Nat /\ k # 0 /\ k + 1 \in 1..(MaxEntries + 1) /\ k + 1 \in Nat /\ k <= k + 1
      BY IdRange DEF Ids
    <2> QED
      BY <2>1, MadeLines
  <1>4. /\ old \in Seq(Sound(k)) /\ old \in Seq(Sound(k + 1))
        /\ one \in Seq(Sound(k + 1)) /\ one # <<>> /\ new \in Seq(Sound(k + 1))
    <2>1. old \in Seq(Sound(k)) /\ old \in Seq(Sound(k + 1))
      BY <1>1, <1>3, SeqGrows DEF Typed, TypedOf
    <2>2. one \in Seq(Sound(k + 1)) /\ one # <<>>
      BY DEF Fits
    <2> HIDE DEF one
    <2> QED
      BY <2>1, <2>2, CatType
  <1>5. /\ P \in Seq(Sound(k)) /\ P \in Seq(Sound(k + 1))
        /\ f \notin DOMAIN disk => P = <<>>
    <2>1. \A g \in DOMAIN disk : disk[g] \in Seq(Made(k))
      BY <1>1 DEF Typed, TypedOf
    <2>2. P \in Seq(Sound(k)) /\ (f \notin DOMAIN disk => P = <<>>)
      BY <1>3, <2>1, ContentFacts
    <2> HIDE DEF P
    <2> QED
      BY <1>3, <2>2, SeqGrows
  <1>6. OnFile(disk, f, writing) = P /\ OnFile(disk, f, w) = Cat(P, w)
    <2>1. Cat(P, <<>>) = P
      BY <1>5, CatNone
    <2> HIDE DEF w
    <2> QED
      BY <1>2, <2>1 DEF OnFile
  <1>7. Distinct(one) /\ Apart(old, one) /\ Apart(P, one)
    BY <1>3, <1>4, <1>5, NewIdApart DEF Fits
  <1>8. EntryIds(one) = {k} /\ EntryIds(new) = EntryIds(old) \cup {k}
    <2>1. EntryIds(one) = {k}
      BY EntryIdsOf DEF Fits
    <2> HIDE DEF one
    <2> QED
      BY <1>4, <2>1, EntryIdsOf
  <1>9. HasAssistant(old) => HasAssistant(new)
    BY <1>4, AssistantCat
  <1>10. \A known : EntryIds(old) \subseteq known /\ met \cap {"torn", "labelled"} = {} => RootedAfter(one, known)
    BY RootedOne DEF Fits
  <1>11. \A x \in Seq(Sound(k + 1)) : EntryIds(Cat(P, x)) = EntryIds(P) \cup EntryIds(x)
    BY <1>5, EntryIdsOf
  <1>12. labelsById' \in [Ids -> Labels \cup {NoLabel}]
    BY DEF Fits
  <1>13. w \in Seq(Sound(k + 1))
    BY <1>2, <1>4, EmptyFacts
  <1> HIDE DEF one, P, k, f, w, new, old
  <1>14. Typed'
    <2>1. /\ leafId \in Ids \cup {Root} /\ f \in Files \cup {NoFile} /\ DOMAIN disk \subseteq Files
          /\ \A g \in DOMAIN disk : disk[g] \in Seq(Made(k))
          /\ "torn" \notin met => \A g \in DOMAIN disk : disk[g] \in Seq(Sound(k))
      BY <1>1 DEF Typed, TypedOf, k, f
    <2>2. /\ \A g \in DOMAIN disk : disk[g] \in Seq(Made(k + 1))
          /\ "torn" \notin met => \A g \in DOMAIN disk : disk[g] \in Seq(Sound(k + 1))
      BY <1>3, <2>1, SeqGrows
    <2>3. HasAssistant(new) \in BOOLEAN
      BY DEF HasAssistant
    <2>4. TypedOf(new, k, labelsById', HasAssistant(new), f, w, disk, k + 1, met)
      BY <1>2, <1>3, <1>4, <1>12, <1>13, <2>1, <2>2, <2>3 DEF TypedOf
    <2> QED
      BY <1>2, <2>4, TypedPrimed DEF w
  <1>15. Rooted'
    <2>1. ASSUME met \cap {"torn", "labelled"} = {}
          PROVE  /\ k \in EntryIds(new) \cup {Root}
                 /\ RootedAfter(new, {})
                 /\ \A g \in DOMAIN disk : RootedAfter(Parsed(disk[g]), {})
                 /\ RootedAfter(OnFile(disk, f, w), {})
                 /\ HasAssistant(new) => EntryIds(new) \subseteq EntryIds(OnFile(disk, f, w))
      <3>1. /\ RootedAfter(old, {})
            /\ \A g \in DOMAIN disk : RootedAfter(Parsed(disk[g]), {})
            /\ RootedAfter(P, {})
            /\ flushed => EntryIds(old) \subseteq EntryIds(P)
        BY <1>1, <1>6, <2>1 DEF Rooted, RootedOf, f, old
      <3>2. RootedAfter(new, {})
        <4>1. RootedAfter(one, {} \cup EntryIds(old))
          BY <1>10, <2>1
        <4> QED
          BY <1>4, <3>1, <4>1, RootedCat DEF new
      <3>3. CASE ~HasAssistant(new)
        <4>1. OnFile(disk, f, w) = P
          BY <1>2, <1>5, <1>6, <3>3, CatNone
        <4> QED
          BY <1>8, <3>1, <3>2, <3>3, <4>1
      <3>4. CASE HasAssistant(new) /\ flushed
        <4>1. w = one
          BY <1>2, <3>4
        <4>2. RootedAfter(one, {} \cup EntryIds(P))
          BY <1>10, <2>1, <3>1, <3>4
        <4>3. RootedAfter(Cat(P, w), {})
          BY <1>4, <1>5, <3>1, <4>1, <4>2, RootedCat
        <4>4. EntryIds(Cat(P, w)) = EntryIds(P) \cup {k}
          BY <1>4, <1>8, <1>11, <4>1
        <4> QED
          BY <1>6, <1>8, <3>1, <3>2, <3>4, <4>3, <4>4
      <3>5. CASE HasAssistant(new) /\ ~flushed
        <4>1. w = new
          BY <1>2, <3>5
        <4>2. RootedAfter(new, {} \cup EntryIds(P))
          BY <3>2, RootedGrows
        <4>3. RootedAfter(Cat(P, w), {})
          BY <1>4, <1>5, <3>1, <4>1, <4>2, RootedCat
        <4>4. EntryIds(Cat(P, w)) = EntryIds(P) \cup EntryIds(new)
          BY <1>4, <1>11, <4>1
        <4> QED
          BY <1>6, <1>8, <3>1, <3>2, <3>5, <4>3, <4>4
      <3> QED
        BY <3>3, <3>4, <3>5
    <2>2. RootedOf(new, k, HasAssistant(new), f, w, disk, met)
      BY <2>1 DEF RootedOf
    <2> QED
      BY <1>2, <2>2, RootedPrimed DEF w
  <1>16. Numbered'
    <2>1. ASSUME "unanswered" \notin met
          PROVE  /\ Distinct(new) /\ Headed(new) /\ new # <<>>
                 /\ \A g \in DOMAIN disk : Distinct(Parsed(disk[g])) /\ Headed(Parsed(disk[g]))
                 /\ Distinct(OnFile(disk, f, w)) /\ Headed(OnFile(disk, f, w))
                 /\ ~HasAssistant(new) => w = <<>> /\ f \notin DOMAIN disk
                 /\ HasAssistant(new) => OnFile(disk, f, w) # <<>>
                 /\ ContentOf(disk, f) # <<>> => Parsed(ContentOf(disk, f)) # <<>>
      <3>1. /\ Distinct(old) /\ Headed(old)
            /\ \A g \in DOMAIN disk : Distinct(Parsed(disk[g])) /\ Headed(Parsed(disk[g]))
            /\ Distinct(P) /\ Headed(P)
            /\ old # <<>> /\ (flushed <=> HasAssistant(old))
            /\ ~flushed => f \notin DOMAIN disk
            /\ flushed => P # <<>>
            /\ ContentOf(disk, f) # <<>> => Parsed(ContentOf(disk, f)) # <<>>
        BY <1>1, <1>2, <1>6, <2>1 DEF Numbered, NumberedOf, f, old
      <3>2. Distinct(new) /\ Headed(new) /\ new # <<>>
        BY <1>4, <1>7, <3>1, DistinctCat, HeadedCat DEF new
      <3>3. CASE ~HasAssistant(new)
        <4>1. OnFile(disk, f, w) = P /\ ~flushed /\ w = <<>>
          BY <1>2, <1>5, <1>6, <1>9, <3>1, <3>3, CatNone
        <4> QED
          BY <3>1, <3>2, <3>3, <4>1
      <3>4. CASE HasAssistant(new) /\ flushed
        <4>1. w = one
          BY <1>2, <3>4
        <4>2. Distinct(Cat(P, one))
          BY <1>4, <1>5, <1>7, <3>1, DistinctCat
        <4>4. Headed(Cat(P, one)) /\ Cat(P, one) # <<>>
          BY <1>4, <1>5, <3>1, <3>4, HeadedCat
        <4> QED
          BY <1>6, <3>1, <3>2, <3>4, <4>1, <4>2, <4>4
      <3>5. CASE HasAssistant(new) /\ ~flushed
        <4>1. w = new /\ P = <<>>
          BY <1>2, <1>5, <3>1, <3>5
        <4>2. Cat(P, w) = new
          BY <1>4, <4>1, CatNone
        <4> QED
          BY <1>6, <3>1, <3>2, <3>5, <4>2
      <3> QED
        BY <3>3, <3>4, <3>5
    <2>2. NumberedOf(new, HasAssistant(new), f, w, disk, met)
      BY <2>1 DEF NumberedOf
    <2> QED
      BY <1>2, <2>2, NumberedPrimed DEF w
  <1>17. Durable'
    <2>1. ASSUME met \cap {"torn", "unanswered"} = {}, HasAssistant(new)
          PROVE  OnFile(disk, f, w) = new
      <3>1. /\ flushed <=> HasAssistant(old)
            /\ ~flushed => f \notin DOMAIN disk
        BY <1>1, <1>2, <2>1 DEF Numbered, NumberedOf, f, old
      <3>2. CASE flushed
        <4>1. P = old
          BY <1>1, <1>2, <1>6, <2>1, <3>1, <3>2 DEF Durable, DurableOf, f, old
        <4> QED
          BY <1>2, <1>6, <2>1, <3>2, <4>1 DEF new
      <3>3. CASE ~flushed
        BY <1>2, <1>4, <1>5, <1>6, <2>1, <3>1, <3>3, CatNone
      <3> QED
        BY <3>2, <3>3
    <2>2. DurableOf(new, f, w, disk, met)
      BY <2>1 DEF DurableOf
    <2> QED
      BY <1>2, <2>2, DurablePrimed DEF w
  <1> QED
    BY <1>14, <1>15, <1>16, <1>17 DEF Invariant

-----------------------------------------------------------------------------
(* The leaf moves; the process ends.                                       *)

LEMMA BranchKeeps ==
    ASSUME Invariant, NEW id \in Ids \cup {Root}, Branch(id)
    PROVE  Invariant'
  <1>1. Typed /\ Rooted /\ Numbered /\ Durable
    BY DEF Invariant
  <1>2. /\ fileEntries' = fileEntries /\ leafId' = id /\ labelsById' = labelsById
        /\ flushed' = flushed /\ sessionFile' = sessionFile /\ nextId' = nextId /\ met' = met
        /\ writing' = writing /\ disk' = disk /\ id \in EntryIds(fileEntries) \cup {Root}
    BY DEF Branch
  <1>3. id \in Ids \cup {Root} /\ id < nextId
    <2>1. nextId \in Nat /\ nextId # 0 /\ fileEntries \in Seq(Made(nextId))
      BY <1>1, IdRange, MadeLines, SeqGrows DEF Typed, TypedOf
    <2> QED
      BY <1>2, <2>1, EntryOfFacts, IdRange
  <1>4. Typed'
    <2>1. TypedOf(fileEntries, id, labelsById, flushed, sessionFile, writing, disk, nextId, met)
      BY <1>1, <1>3 DEF Typed, TypedOf
    <2> QED
      BY <1>2, <2>1, TypedPrimed
  <1>5. Rooted'
    <2>1. RootedOf(fileEntries, id, flushed, sessionFile, writing, disk, met)
      BY <1>1, <1>2 DEF Rooted, RootedOf
    <2> QED
      BY <1>2, <2>1, RootedPrimed
  <1>6. Numbered' /\ Durable'
    BY <1>1, <1>2, NumberedPrimed, DurablePrimed DEF Numbered, Durable
  <1> QED
    BY <1>4, <1>5, <1>6 DEF Invariant

LEMMA NoEntries == LastId(<<>>) = Root
  <1>1. EntryAt(<<>>) = {}
    BY DEF EntryAt
  <1> QED
    BY <1>1 DEF LastId

LEMMA CrashKeeps ==
    ASSUME Invariant, Crash
    PROVE  Invariant'
  <1> DEFINE k == nextId
             c == ContentOf(disk, sessionFile)
             torn == Plain("torn", Root, Root)
             e == Extended(c, torn)
  <1>1. Typed /\ Numbered
    BY DEF Invariant
  <1>2. /\ fileEntries' = <<>> /\ leafId' = Root /\ labelsById' = LabelsOf(<<>>)
        /\ flushed' = FALSE /\ sessionFile' = NoFile /\ nextId' = k /\ writing' = <<>>
    BY NoEntries DEF Crash, IndexSession
  <1>3. \/ disk' = disk /\ met' = met
        \/ disk' = Put(sessionFile, e) /\ met' = met \cup {"torn"} /\ writing # <<>>
    BY DEF Crash, Meet, Content, Exists, ContentOf
  <1>4. /\ k \in 1..(MaxEntries + 1) /\ k \in Nat /\ k # 0 /\ sessionFile \in Files
        /\ DOMAIN disk \subseteq Files /\ NoFile \notin Files
        /\ \A g \in DOMAIN disk : disk[g] \in Seq(Made(k))
        /\ "torn" \notin met => \A g \in DOMAIN disk : disk[g] \in Seq(Sound(k))
    BY <1>1, IdRange, SessionAssumption DEF Typed, TypedOf, Crash
  <1>5. c \in Seq(Made(k))
    BY <1>4, ContentFacts
  <1>6. torn \in Made(k) /\ ~Parses(torn)
    BY <1>4, MadeLines
  <1>7. e \in Seq(Made(k)) /\ Parsed(e) = Parsed(c)
    <2> HIDE DEF c, torn
    <2> QED
      BY <1>4, <1>5, <1>6, ExtendedReads
  <1> HIDE DEF e, torn
  <1>8. /\ disk' = Put(sessionFile, e) =>
             /\ DOMAIN disk' = DOMAIN disk \cup {sessionFile} /\ disk'[sessionFile] = e
             /\ \A g \in DOMAIN disk : g # sessionFile => disk'[g] = disk[g]
    BY PutFacts
  <1>9. LabelsOf(<<>>) \in [Ids -> Labels \cup {NoLabel}]
    <2>1. <<>> \in Seq(Made(0))
      OBVIOUS
    <2> QED
      BY <2>1, LabelsOfType
  <1>10. /\ DOMAIN disk' \subseteq Files /\ NoFile \notin DOMAIN disk'
         /\ \A g \in DOMAIN disk' : disk'[g] \in Seq(Made(k))
         /\ "torn" \notin met' => disk' = disk /\ met' = met
    BY <1>3, <1>4, <1>7, <1>8
  <1>11. OnFile(disk', NoFile, <<>>) = <<>>
    BY <1>10, EmptyFacts, CatNone DEF OnFile
  <1>12. Typed'
    <2>1. TypedOf(<<>>, Root, LabelsOf(<<>>), FALSE, NoFile, <<>>, disk', k, met')
      BY <1>4, <1>9, <1>10, EmptyFacts, IdRange DEF TypedOf
    <2> QED
      BY <1>2, <2>1, TypedPrimed
  <1>13. Rooted'
    <2>1. ASSUME met' \cap {"torn", "labelled"} = {}
          PROVE  \A g \in DOMAIN disk' : RootedAfter(Parsed(disk'[g]), {})
      BY <1>10, <2>1 DEF Invariant, Rooted, RootedOf
    <2>2. RootedOf(<<>>, Root, FALSE, NoFile, <<>>, disk', met')
      BY <1>11, <2>1, RootedNone DEF RootedOf
    <2> QED
      BY <1>2, <2>2, RootedPrimed
  <1>14. Numbered'
    <2>1. ASSUME "unanswered" \notin met', NEW g \in DOMAIN disk'
          PROVE  Distinct(Parsed(disk'[g])) /\ Headed(Parsed(disk'[g]))
      <3>1. /\ \A h \in DOMAIN disk : Distinct(Parsed(disk[h])) /\ Headed(Parsed(disk[h]))
        BY <1>1, <1>3, <2>1 DEF Numbered, NumberedOf
      <3>2. Distinct(Parsed(c)) /\ Headed(Parsed(c))
        BY <3>1, EmptyFacts DEF ContentOf
      <3> HIDE DEF c
      <3>3. CASE disk' = disk
        BY <2>1, <3>1, <3>3
      <3>4. CASE disk' = Put(sessionFile, e)
        BY <1>7, <1>8, <2>1, <3>1, <3>2, <3>4
      <3> QED
        BY <1>3, <3>3, <3>4
    <2>2. NumberedOf(<<>>, FALSE, NoFile, <<>>, disk', met')
      BY <1>11, <2>1, EmptyFacts DEF NumberedOf
    <2> QED
      BY <1>2, <2>2, NumberedPrimed
  <1>15. Durable'
    <2>1. DurableOf(<<>>, NoFile, <<>>, disk', met')
      BY DEF DurableOf
    <2> QED
      BY <1>2, <2>1, DurablePrimed
  <1> QED
    BY <1>12, <1>13, <1>14, <1>15 DEF Invariant

-----------------------------------------------------------------------------
(* Another session becomes the current one: one not yet written, one to be *)
(* written, or one that was read.                                          *)

Starts(lines, f) ==
    /\ fileEntries' = lines /\ leafId' = LastId(lines) /\ labelsById' = LabelsOf(lines)
    /\ sessionFile' = f /\ f \in Files
    /\ nextId' \in 1..(MaxEntries + 1) /\ nextId <= nextId' /\ met \subseteq met'
    /\ lines \in Seq(Sound(nextId')) /\ lines # <<>> /\ lines[1].kind = "session"
    /\ "unanswered" \notin met' => Distinct(lines)
    /\ met' \cap {"torn", "labelled"} = {} => RootedAfter(lines, {})
    /\ \/ disk' = disk /\ f \notin DOMAIN disk /\ writing' = <<>> /\ flushed' = FALSE /\ ~HasAssistant(lines)
       \/ /\ disk' = Put(f, <<>>) /\ writing' = lines /\ flushed' = TRUE
          /\ HasAssistant(lines) \/ "unanswered" \in met'
       \/ /\ disk' = disk /\ f \in DOMAIN disk /\ lines = Parsed(disk[f]) /\ writing' = <<>> /\ flushed' = TRUE
          /\ HasAssistant(lines) \/ "unanswered" \in met'

LEMMA StartKeeps ==
    ASSUME Invariant, NEW lines, NEW f, Starts(lines, f)
    PROVE  Invariant'
  <1> DEFINE k == nextId'
             w == writing'
             P == Parsed(ContentOf(disk', f))
  <1>1. Typed /\ Rooted /\ Numbered /\ Durable
    BY DEF Invariant
  <1>2. /\ fileEntries' = lines /\ leafId' = LastId(lines) /\ labelsById' = LabelsOf(lines)
        /\ sessionFile' = f /\ f \in Files /\ f # NoFile
        /\ k \in 1..(MaxEntries + 1) /\ k \in Nat /\ k # 0 /\ nextId \in Nat /\ nextId <= k /\ met \subseteq met'
        /\ lines \in Seq(Sound(k)) /\ lines # <<>> /\ lines[1].kind = "session"
    BY <1>1, IdRange, SessionAssumption DEF Starts, Typed, TypedOf
  <1>3. \/ /\ disk' = disk /\ f \notin DOMAIN disk /\ w = <<>> /\ flushed' = FALSE /\ ~HasAssistant(lines)
        \/ /\ disk' = Put(f, <<>>) /\ w = lines /\ flushed' = TRUE
           /\ HasAssistant(lines) \/ "unanswered" \in met'
        \/ /\ disk' = disk /\ f \in DOMAIN disk /\ lines = Parsed(disk[f]) /\ w = <<>> /\ flushed' = TRUE
           /\ HasAssistant(lines) \/ "unanswered" \in met'
    BY DEF Starts
  <1>4. /\ lines \in Seq(Made(k)) /\ Made(nextId) \subseteq Made(k) /\ Sound(nextId) \subseteq Sound(k)
    BY <1>2, MadeLines, SeqGrows
  <1>5. LastId(lines) \in EntryIds(lines) \cup {Root} /\ LastId(lines) \in Ids \cup {Root} /\ LastId(lines) < k
    BY <1>2, <1>4, LastIdFacts, EntryOfFacts, IdRange
  <1>6. LabelsOf(lines) \in [Ids -> Labels \cup {NoLabel}]
    BY <1>2, <1>4, LabelsOfType
  <1>7. disk' = Put(f, <<>>) => /\ DOMAIN disk' = DOMAIN disk \cup {f} /\ disk'[f] = <<>>
                                /\ \A g \in DOMAIN disk : g # f => disk'[g] = disk[g]
    BY PutFacts
  <1>8. /\ DOMAIN disk' \subseteq Files
        /\ \A g \in DOMAIN disk' : disk'[g] = <<>> \/ (g \in DOMAIN disk /\ disk'[g] = disk[g])
    BY <1>1, <1>2, <1>3, <1>7 DEF Typed, TypedOf
  <1>9. /\ f \notin DOMAIN disk' => P = <<>>
        /\ f \in DOMAIN disk' => P = Parsed(disk'[f])
    BY EmptyFacts DEF ContentOf
  <1>10. OnFile(disk', f, w) = Cat(P, w)
    BY DEF OnFile
  <1> HIDE DEF k, w, P
  <1>11. Cat(P, w) = IF disk' = disk /\ f \notin DOMAIN disk /\ flushed' = FALSE THEN <<>> ELSE lines
    <2>1. CASE disk' = disk /\ f \notin DOMAIN disk /\ w = <<>> /\ flushed' = FALSE
      BY <1>9, <2>1, EmptyFacts, CatNone
    <2>2. CASE disk' = Put(f, <<>>) /\ w = lines /\ flushed' = TRUE
      <3>1. P = <<>>
        BY <1>7, <1>9, <2>2, EmptyFacts
      <3> QED
        BY <1>2, <2>2, <3>1, CatNone
    <2>3. CASE disk' = disk /\ f \in DOMAIN disk /\ lines = Parsed(disk[f]) /\ w = <<>> /\ flushed' = TRUE
      <3>1. P = lines
        BY <1>9, <2>3
      <3> QED
        BY <1>2, <2>3, <3>1, CatNone
    <2> QED
      BY <1>3, <2>1, <2>2, <2>3
  <1>12. Typed'
    <2>1. /\ \A g \in DOMAIN disk' : disk'[g] \in Seq(Made(k))
          /\ "torn" \notin met' => \A g \in DOMAIN disk' : disk'[g] \in Seq(Sound(k))
      <3>1. /\ \A g \in DOMAIN disk : disk[g] \in Seq(Made(nextId))
            /\ "torn" \notin met => \A g \in DOMAIN disk : disk[g] \in Seq(Sound(nextId))
        BY <1>1 DEF Typed, TypedOf
      <3>2. /\ \A g \in DOMAIN disk : disk[g] \in Seq(Made(k))
            /\ "torn" \notin met => \A g \in DOMAIN disk : disk[g] \in Seq(Sound(k))
        BY <1>4, <3>1, SeqGrows
      <3> QED
        BY <1>2, <1>8, <3>2, EmptyFacts
    <2>2. w \in Seq(Sound(k)) /\ flushed' \in BOOLEAN
      BY <1>2, <1>3, EmptyFacts
    <2>3. TypedOf(lines, LastId(lines), LabelsOf(lines), flushed', f, w, disk', k, met')
      BY <1>2, <1>5, <1>6, <1>8, <2>1, <2>2 DEF TypedOf
    <2> QED
      BY <1>2, <2>3, TypedPrimed DEF k, w
  <1>13. Rooted'
    <2>1. ASSUME met' \cap {"torn", "labelled"} = {}
          PROVE  /\ RootedAfter(lines, {})
                 /\ \A g \in DOMAIN disk' : RootedAfter(Parsed(disk'[g]), {})
                 /\ RootedAfter(OnFile(disk', f, w), {})
                 /\ flushed' => EntryIds(lines) \subseteq EntryIds(OnFile(disk', f, w))
      <3>1. RootedAfter(lines, {})
        BY <2>1 DEF Starts
      <3>2. \A g \in DOMAIN disk : RootedAfter(Parsed(disk[g]), {})
        BY <1>1, <1>2, <2>1 DEF Rooted, RootedOf
      <3>3. \A g \in DOMAIN disk' : RootedAfter(Parsed(disk'[g]), {})
        BY <1>8, <3>2, EmptyFacts, RootedNone
      <3> QED
        BY <1>10, <1>11, <3>1, <3>3, RootedNone
    <2>2. RootedOf(lines, LastId(lines), flushed', f, w, disk', met')
      BY <1>5, <2>1 DEF RootedOf
    <2> QED
      BY <1>2, <2>2, RootedPrimed DEF w
  <1>14. Numbered'
    <2>1. ASSUME "unanswered" \notin met'
          PROVE  /\ Distinct(lines) /\ Headed(lines)
                 /\ \A g \in DOMAIN disk' : Distinct(Parsed(disk'[g])) /\ Headed(Parsed(disk'[g]))
                 /\ Distinct(OnFile(disk', f, w)) /\ Headed(OnFile(disk', f, w))
                 /\ flushed' <=> HasAssistant(lines)
                 /\ ~flushed' => w = <<>> /\ f \notin DOMAIN disk'
                 /\ flushed' => OnFile(disk', f, w) # <<>>
                 /\ ContentOf(disk', f) # <<>> => P # <<>>
      <3>1. Distinct(lines) /\ Headed(lines)
        BY <1>2, <2>1 DEF Starts, Headed
      <3>2. \A g \in DOMAIN disk : Distinct(Parsed(disk[g])) /\ Headed(Parsed(disk[g]))
        BY <1>1, <1>2, <2>1 DEF Numbered, NumberedOf
      <3>3. \A g \in DOMAIN disk' : Distinct(Parsed(disk'[g])) /\ Headed(Parsed(disk'[g]))
        BY <1>8, <3>2, EmptyFacts
      <3>4. Distinct(OnFile(disk', f, w)) /\ Headed(OnFile(disk', f, w))
        BY <1>10, <1>11, <3>1, EmptyFacts
      <3>5. /\ flushed' <=> HasAssistant(lines)
            /\ ~flushed' => w = <<>> /\ f \notin DOMAIN disk'
        BY <1>3, <2>1
      <3>6. flushed' => OnFile(disk', f, w) # <<>>
        BY <1>2, <1>10, <1>11
      <3>7. ContentOf(disk', f) # <<>> => P # <<>>
        <4>1. f \notin DOMAIN disk' \/ disk'[f] = <<>> => ContentOf(disk', f) = <<>>
          BY DEF ContentOf
        <4>2. CASE disk' = disk /\ f \in DOMAIN disk /\ lines = Parsed(disk[f])
          BY <1>2, <1>9, <4>2
        <4> QED
          BY <1>3, <1>7, <4>1, <4>2
      <3> QED
        BY <3>1, <3>3, <3>4, <3>5, <3>6, <3>7
    <2>2. NumberedOf(lines, flushed', f, w, disk', met')
      BY <1>2, <2>1 DEF NumberedOf, P
    <2> QED
      BY <1>2, <2>2, NumberedPrimed DEF w
  <1>15. Durable'
    <2>1. ASSUME met' \cap {"torn", "unanswered"} = {}, HasAssistant(lines)
          PROVE  OnFile(disk', f, w) = lines
      BY <1>3, <1>10, <1>11, <2>1
    <2>2. DurableOf(lines, f, w, disk', met')
      BY <2>1 DEF DurableOf
    <2> QED
      BY <1>2, <2>2, DurablePrimed DEF w
  <1> QED
    BY <1>12, <1>13, <1>14, <1>15 DEF Invariant

-----------------------------------------------------------------------------
(* Each way to another session starts one.                                 *)

(* A header, and entries with ids of their own.                            *)
LEMMA HeaderThen ==
    ASSUME NEW k \in Nat, NEW d \in Seq(Sound(k)), \A n \in DOMAIN d : IsEntry(d[n])
    PROVE  LET lines == Cat(<<Header>>, d) IN
           /\ lines \in Seq(Sound(k)) /\ lines # <<>> /\ lines[1].kind = "session"
           /\ Distinct(d) => Distinct(lines)
           /\ RootedAfter(d, {}) => RootedAfter(lines, {})
  <1> DEFINE one == <<Header>>
             lines == Cat(one, d)
  <1>1. /\ Header \in Sound(k) /\ Header.kind = "session" /\ Header.id = Root /\ ~IsEntry(Header)
    BY MadeLines, LineTypes DEF IsEntry, EntryKinds
  <1>2. one \in Seq(Sound(k)) /\ DOMAIN one = {1} /\ one[1] = Header /\ one # <<>> /\ Len(one) = 1
    BY <1>1
  <1>3. EntryIds(one) = {} /\ RootedAfter(one, {}) /\ Distinct(one)
    <2>1. EntryIds(one) = {} /\ RootedAfter(one, {})
      BY <1>1, EntryIdsOf, RootedOne
    <2>2. Distinct(one)
      BY <1>2 DEF Distinct
    <2> QED
      BY <2>1, <2>2
  <1> HIDE DEF one
  <1>4. lines \in Seq(Sound(k)) /\ Joins(lines, one, d)
    BY <1>2, CatParts
  <1>5. lines # <<>> /\ lines[1].kind = "session"
    BY <1>1, <1>2, <1>4 DEF Joins
  <1>6. Apart(one, d)
    <2>1. \A n \in DOMAIN d : d[n].id # Root
      BY MadeLines, IdRange
    <2> QED
      BY <1>1, <1>2, <2>1 DEF Apart
  <1>7. Distinct(d) => Distinct(lines)
    BY <1>2, <1>3, <1>6, DistinctCat
  <1>8. RootedAfter(d, {}) => RootedAfter(lines, {})
    BY <1>2, <1>3, RootedCat
  <1> QED
    BY <1>4, <1>5, <1>7, <1>8 DEF one

(* A new session.                                                          *)
LEMMA JustHeader ==
    ASSUME NEW k \in Nat
    PROVE  LET lines == <<Header>> IN
           /\ lines \in Seq(Sound(k)) /\ lines # <<>> /\ lines[1].kind = "session"
           /\ Distinct(lines) /\ RootedAfter(lines, {}) /\ ~HasAssistant(lines)
  <1> DEFINE one == <<Header>>
  <1>1. /\ Header \in Sound(k) /\ Header.kind = "session" /\ ~IsEntry(Header)
    BY MadeLines, LineTypes DEF IsEntry, EntryKinds
  <1>2. one \in Seq(Sound(k)) /\ DOMAIN one = {1} /\ one[1] = Header /\ one # <<>>
    BY <1>1
  <1>3. RootedAfter(one, {})
    BY <1>1, RootedOne
  <1> HIDE DEF one
  <1>4. Distinct(one) /\ ~HasAssistant(one)
    BY <1>1, <1>2 DEF Distinct, HasAssistant
  <1> QED
    BY <1>1, <1>2, <1>3, <1>4 DEF one

LEMMA NumberRange ==
    ASSUME Typed
    PROVE  nextId \in Nat /\ nextId # 0 /\ nextId \in 1..(MaxEntries + 1) /\ nextId <= nextId
  BY IdRange DEF Typed, TypedOf

LEMMA NewStarts ==
    ASSUME Typed, NEW f \in Files,
           \/ NewSession(f) \/ OpenAbsent(f)
           \/ OpenInvalid(f)
    PROVE  \E lines : Starts(lines, f)
  <1> DEFINE lines == <<Header>>
  <1>1. nextId \in Nat /\ nextId \in 1..(MaxEntries + 1) /\ nextId <= nextId
    BY NumberRange
  <1>2. /\ lines \in Seq(Sound(nextId)) /\ lines # <<>> /\ lines[1].kind = "session"
        /\ Distinct(lines) /\ RootedAfter(lines, {}) /\ ~HasAssistant(lines)
    BY <1>1, JustHeader
  <1>3. fileEntries' = lines /\ leafId' = LastId(lines) /\ labelsById' = LabelsOf(lines) /\ sessionFile' = f /\ nextId' = nextId
    BY DEF NewSession, OpenAbsent, OpenInvalid, StartSession, IndexSession
  <1>4. CASE NewSession(f) \/ OpenAbsent(f)
    <2>1. disk' = disk /\ writing' = <<>> /\ flushed' = FALSE /\ met' = met /\ f \notin DOMAIN disk
      BY <1>4 DEF NewSession, OpenAbsent, Fresh
    <2> HIDE DEF lines
    <2> QED
      BY <1>1, <1>2, <1>3, <2>1 DEF Starts
  <1>5. CASE OpenInvalid(f)
    <2>1. disk' = Put(f, <<>>) /\ writing' = lines /\ flushed' = TRUE /\ met' = met \cup {"unanswered"}
      BY <1>5 DEF OpenInvalid, Meet
    <2> HIDE DEF lines
    <2> QED
      BY <1>1, <1>2, <1>3, <2>1 DEF Starts
  <1> QED
    BY <1>4, <1>5

LEMMA OpenStarts ==
    ASSUME Typed, Rooted, Numbered, NEW f \in Files, OpenSession(f)
    PROVE  \E lines : Starts(lines, f)
  <1> DEFINE lines == Parsed(disk[f])
  <1>1. nextId \in Nat /\ nextId \in 1..(MaxEntries + 1) /\ nextId <= nextId
    BY NumberRange
  <1>2. f \in DOMAIN disk /\ disk[f] \in Seq(Made(nextId)) /\ HasHeader(disk[f]) /\ Loaded(disk[f]) = lines
    BY DEF OpenSession, Exists, Loaded, Typed, TypedOf
  <1>3. lines \in Seq(Sound(nextId)) /\ lines # <<>> /\ lines[1].kind = "session"
    BY <1>1, <1>2, ParsedReads, HeaderRead
  <1>4. /\ "unanswered" \notin met => Distinct(lines)
        /\ met \cap {"torn", "labelled"} = {} => RootedAfter(lines, {})
    BY <1>2 DEF Numbered, NumberedOf, Rooted, RootedOf
  <1> HIDE DEF lines
  <1>5. /\ fileEntries' = lines /\ leafId' = LastId(lines) /\ labelsById' = LabelsOf(lines)
        /\ sessionFile' = f /\ nextId' = nextId /\ disk' = disk /\ writing' = <<>> /\ flushed' = TRUE
        /\ met' = IF ~HasAssistant(lines) THEN met \cup {"unanswered"} ELSE met
    BY <1>2 DEF OpenSession, IndexSession, Meet
  <1>6. Starts(lines, f)
    BY <1>1, <1>2, <1>3, <1>4, <1>5 DEF Starts, lines
  <1> QED
    BY <1>6

LEMMA ForkStarts ==
    ASSUME Typed, Rooted, Numbered, NEW source \in Files, NEW f \in Files, ForkFrom(source, f)
    PROVE  \E lines : Starts(lines, f)
  <1> DEFINE read == Parsed(disk[source])
             kept == EntriesOf(read)
             lines == Cat(<<Header>>, kept)
  <1>1. nextId \in Nat /\ nextId \in 1..(MaxEntries + 1) /\ nextId <= nextId
    BY NumberRange
  <1>2. source \in DOMAIN disk /\ disk[source] \in Seq(Made(nextId)) /\ Loaded(disk[source]) = read
    BY DEF ForkFrom, Exists, Loaded, Typed, TypedOf
  <1>3. read \in Seq(Sound(nextId))
    BY <1>2, ParsedReads
  <1>4. /\ "unanswered" \notin met => Distinct(read)
        /\ met \cap {"torn", "labelled"} = {} => RootedAfter(read, {})
    BY <1>2 DEF Numbered, NumberedOf, Rooted, RootedOf
  <1>5. <<Header>> \o EntriesOf(Loaded(disk[source])) = lines
    BY <1>2 DEF Cat
  <1> HIDE DEF read
  <1>6. /\ kept \in Seq(Sound(nextId)) /\ \A n \in DOMAIN kept : IsEntry(kept[n])
        /\ Distinct(read) => Distinct(kept)
        /\ RootedAfter(read, {}) => RootedAfter(kept, {})
    BY <1>1, <1>3, EntriesFacts
  <1> HIDE DEF kept
  <1>7. /\ lines \in Seq(Sound(nextId)) /\ lines # <<>> /\ lines[1].kind = "session"
        /\ Distinct(kept) => Distinct(lines)
        /\ RootedAfter(kept, {}) => RootedAfter(lines, {})
    BY <1>1, <1>6, HeaderThen
  <1> HIDE DEF lines
  <1>8. /\ fileEntries' = lines /\ leafId' = LastId(lines) /\ labelsById' = LabelsOf(lines)
        /\ sessionFile' = f /\ nextId' = nextId /\ disk' = Put(f, <<>>) /\ writing' = lines /\ flushed' = TRUE
        /\ met' = IF ~HasAssistant(lines) THEN met \cup {"unanswered"} ELSE met
    BY <1>5 DEF ForkFrom, IndexSession, Meet
  <1>9. Starts(lines, f)
    BY <1>1, <1>4, <1>6, <1>7, <1>8 DEF Starts
  <1> QED
    BY <1>9

LEMMA BranchedStarts ==
    ASSUME Typed, Rooted, Numbered, NEW id \in Ids, NEW f \in Files, CreateBranchedSession(id, f)
    PROVE  \E lines : Starts(lines, f)
  <1> DEFINE k == nextId
             path == Conversation(fileEntries, id)
             labels == LabelEntries(path)
             j == k + Len(labels)
             both == Cat(path, labels)
             lines == Cat(<<Header>>, both)
             last == IF path = <<>> THEN Root ELSE path[Len(path)].id
  <1>1. k \in Nat /\ k # 0 /\ k \in 1..(MaxEntries + 1) /\ MaxEntries \in Nat
    BY NumberRange, IdRange
  <1>2. /\ fileEntries \in Seq(Sound(k)) /\ labelsById \in [Ids -> Labels \cup {NoLabel}]
        /\ k + Len(LabelEntries(path)) <= MaxEntries + 1
    BY DEF Typed, TypedOf, CreateBranchedSession
  <1>3. path \in Seq(Sound(k)) /\ Tells(path, fileEntries, {x \in Ancestors(fileEntries)[id] : EntryOf(fileEntries, x).kind # "label"})
    BY <1>1, <1>2, ConversationFacts
  <1>4. (\A n \in DOMAIN path : IsEntry(path[n])) /\ Distinct(path)
    <2> HIDE DEF path
    <2>1. /\ \A n \in DOMAIN path : IsEntry(path[n]) /\ path[n].id \in Nat
          /\ \A n, m \in DOMAIN path : n < m => path[n].id < path[m].id
          /\ DOMAIN path \subseteq Nat
      BY <1>1, <1>3, MadeLines, IdRange DEF Tells
    <2>2. ASSUME NEW n \in DOMAIN path, NEW m \in DOMAIN path, path[n].id = path[m].id PROVE n = m
      <3>1. ~(n < m) /\ ~(m < n)
        BY <2>1, <2>2
      <3> QED
        BY <2>1, <3>1
    <2> QED
      BY <2>1, <2>2 DEF Distinct
  <1>5. met' \cap {"torn", "labelled"} = {} => RootedAfter(path, {})
    <2>1. ASSUME met' \cap {"torn", "labelled"} = {} PROVE RootedAfter(path, {})
      <3>1. /\ met \cap {"torn", "labelled"} = {}
            /\ \A n \in DOMAIN path : ~FollowsLabel(path[n])
        BY <2>1 DEF CreateBranchedSession, Meet
      <3>2. RootedAfter(fileEntries, {})
        BY <3>1 DEF Rooted, RootedOf
      <3>3. Closed(fileEntries)
        BY <3>2, RootedCloses
      <3> QED
        BY <1>1, <1>2, <3>1, <3>3, ConversationRooted DEF FollowsLabel
    <2> QED
      BY <2>1
  <1> HIDE DEF path
  <1>6. labels \in Seq(Sound(j)) /\ Len(labels) \in Nat /\ Chain(labels, k, last)
    BY <1>1, <1>2, <1>3, <1>4, LabelFacts
  <1>7. j \in 1..(MaxEntries + 1) /\ j \in Nat /\ k <= j
    BY <1>1, <1>2, <1>6
  <1>8. last \in EntryIds(path) \cup {Root}
    <2>1. path # <<>> => Len(path) \in DOMAIN path
      BY <1>3
    <2> QED
      BY <1>4, <2>1 DEF EntryIds, EntryAt
  <1> HIDE DEF labels
  <1>9. Distinct(labels) /\ RootedAfter(labels, EntryIds(path))
    BY <1>1, <1>6, <1>8, ChainFacts
  <1>10. Apart(path, labels)
    <2>1. \A n \in DOMAIN path : path[n].id \in Nat /\ path[n].id < k
      BY <1>1, <1>3, <1>4, MadeLines, IdRange
    <2>2. \A n \in DOMAIN labels : labels[n].id = k + n - 1 /\ n \in Nat /\ n >= 1
      BY <1>6 DEF Chain
    <2> QED
      BY <1>1, <2>1, <2>2 DEF Apart
  <1> HIDE DEF j, last
  <1>11. path \in Seq(Sound(j))
    BY <1>1, <1>3, <1>7, MadeLines, SeqGrows
  <1>12. /\ both \in Seq(Sound(j)) /\ Distinct(both)
         /\ RootedAfter(path, {}) => RootedAfter(both, {})
    <2>1. both \in Seq(Sound(j))
      BY <1>6, <1>11, CatType
    <2>2. Distinct(both)
      BY <1>4, <1>6, <1>9, <1>10, <1>11, DistinctCat
    <2>3. ASSUME RootedAfter(path, {}) PROVE RootedAfter(both, {})
      <3>1. RootedAfter(labels, {} \cup EntryIds(path))
        BY <1>9
      <3> QED
        BY <1>6, <1>11, <2>3, <3>1, RootedCat
    <2> QED
      BY <2>1, <2>2, <2>3
  <1>13. \A n \in DOMAIN both : IsEntry(both[n])
    <2>1. Joins(both, path, labels)
      BY <1>6, <1>11, CatParts
    <2> HIDE DEF both
    <2>2. \A n \in DOMAIN labels : IsEntry(labels[n])
      BY <1>6 DEF Chain
    <2> QED
      BY <1>4, <2>1, <2>2 DEF Joins
  <1>14. (<<Header>> \o path) \o labels = lines
    <2> DEFINE one == <<Header>>
    <2>1. one \in Seq(Sound(j))
      BY <1>7, MadeLines
    <2> HIDE DEF one
    <2>2. Cat(Cat(one, path), labels) = Cat(one, Cat(path, labels))
      BY <1>6, <1>11, <2>1, CatAssoc
    <2> QED
      BY <2>2 DEF Cat, one
  <1> HIDE DEF both
  <1>15. /\ lines \in Seq(Sound(j)) /\ lines # <<>> /\ lines[1].kind = "session"
         /\ Distinct(both) => Distinct(lines)
         /\ RootedAfter(both, {}) => RootedAfter(lines, {})
    BY <1>7, <1>12, <1>13, HeaderThen
  <1>16. /\ Fresh(f) /\ IndexSession(<<Header>> \o path \o labels) /\ sessionFile' = f /\ nextId' = j
         /\ flushed' = HasAssistant(<<Header>> \o path \o labels)
         /\ IF HasAssistant(<<Header>> \o path \o labels)
            THEN disk' = Put(f, <<>>) /\ writing' = <<Header>> \o path \o labels
            ELSE disk' = disk /\ writing' = writing
         /\ Ready /\ met \subseteq met'
    BY DEF CreateBranchedSession, Meet, path, labels, j
  <1> HIDE DEF lines
  <1>17. /\ fileEntries' = lines /\ leafId' = LastId(lines) /\ labelsById' = LabelsOf(lines)
         /\ sessionFile' = f /\ nextId' = j /\ flushed' = HasAssistant(lines)
         /\ IF HasAssistant(lines) THEN disk' = Put(f, <<>>) /\ writing' = lines
                                   ELSE disk' = disk /\ writing' = <<>>
         /\ f \notin DOMAIN disk /\ met \subseteq met'
    BY <1>14, <1>16 DEF IndexSession, Ready, Fresh
  <1>18. nextId <= nextId' /\ nextId' \in 1..(MaxEntries + 1)
    BY <1>7, <1>17
  <1>19. HasAssistant(lines) \in BOOLEAN
    BY DEF HasAssistant
  <1>20. Starts(lines, f)
    BY <1>5, <1>12, <1>15, <1>17, <1>18, <1>19 DEF Starts
  <1> QED
    BY <1>20

-----------------------------------------------------------------------------
(* The invariant is inductive.                                             *)

LEMMA PlainFits ==
    ASSUME Typed, nextId \in Ids, NEW kind \in EntryKinds, NEW parent \in EntryIds(fileEntries) \cup {Root} \cup {leafId},
           met \cap {"torn", "labelled"} = {} => parent \in EntryIds(fileEntries) \cup {Root},
           UNCHANGED labelsById
    PROVE  Fits(Plain(kind, nextId, parent))
  <1> DEFINE e == Plain(kind, nextId, parent)
  <1>1. nextId \in Nat /\ nextId # 0 /\ fileEntries \in Seq(Made(nextId))
    BY NumberRange, MadeLines, SeqGrows DEF Typed, TypedOf
  <1>2. parent \in Ids \cup {Root} /\ parent < nextId
    BY <1>1, EntryOfFacts, IdRange DEF Typed, TypedOf
  <1>3. e \in Line /\ e.kind = kind /\ e.id = nextId /\ e.parent = parent
    BY <1>2, LineTypes
  <1> HIDE DEF e
  <1>4. IsEntry(e) /\ Parses(e)
    BY <1>3 DEF IsEntry, Parses, EntryKinds
  <1>5. e \in Sound(nextId + 1)
    BY <1>1, <1>2, <1>3, <1>4 DEF Sound, Made
  <1>6. labelsById' \in [Ids -> Labels \cup {NoLabel}]
    BY DEF Typed, TypedOf
  <1>7. Fits(e)
    BY <1>3, <1>4, <1>5, <1>6 DEF Fits
  <1> QED
    BY <1>7 DEF e

LEMMA LeafIsKnown ==
    ASSUME Rooted, met \cap {"torn", "labelled"} = {}
    PROVE  leafId \in EntryIds(fileEntries) \cup {Root}
  BY DEF Rooted, RootedOf

LEMMA AppendMessageKeeps ==
    ASSUME Invariant, NEW kind \in {"message", "assistant"}, AppendMessage(kind)
    PROVE  Invariant'
  <1>1. nextId \in Ids /\ Ready /\ AppendEntry(Plain(kind, nextId, leafId)) /\ UNCHANGED labelsById
    BY DEF AppendMessage
  <1>2. kind \in EntryKinds
    BY DEF EntryKinds
  <1>3. Fits(Plain(kind, nextId, leafId))
    BY <1>1, <1>2, PlainFits, LeafIsKnown DEF Invariant
  <1> QED
    BY <1>1, <1>3, AppendKeeps

LEMMA BranchWithSummaryKeeps ==
    ASSUME Invariant, NEW id \in Ids \cup {Root}, BranchWithSummary(id)
    PROVE  Invariant'
  <1>1. /\ nextId \in Ids /\ Ready /\ AppendEntry(Plain("message", nextId, id)) /\ UNCHANGED labelsById
        /\ id \in EntryIds(fileEntries) \cup {Root}
    BY DEF BranchWithSummary
  <1>2. "message" \in EntryKinds
    BY DEF EntryKinds
  <1>3. Fits(Plain("message", nextId, id))
    BY <1>1, <1>2, PlainFits DEF Invariant
  <1> QED
    BY <1>1, <1>3, AppendKeeps

LEMMA AppendLabelKeeps ==
    ASSUME Invariant, NEW target \in Ids, NEW label \in Labels \cup {NoLabel}, AppendLabelChange(target, label)
    PROVE  Invariant'
  <1> DEFINE e == Label(nextId, leafId, target, label)
  <1>1. /\ nextId \in Ids /\ Ready /\ AppendEntry(e)
        /\ labelsById' = [labelsById EXCEPT ![target] = label]
    BY DEF AppendLabelChange
  <1>2. Typed /\ Rooted
    BY DEF Invariant
  <1>3. nextId \in Nat /\ nextId # 0 /\ leafId \in Ids \cup {Root} /\ leafId < nextId
    BY <1>2, NumberRange DEF Typed, TypedOf
  <1>4. e \in Line /\ e.kind = "label" /\ e.id = nextId /\ e.parent = leafId
    BY <1>1, <1>3, LineTypes
  <1> HIDE DEF e
  <1>5. IsEntry(e) /\ Parses(e)
    BY <1>4 DEF IsEntry, Parses, EntryKinds
  <1>6. e \in Sound(nextId + 1)
    BY <1>1, <1>3, <1>4, <1>5 DEF Sound, Made
  <1>7. labelsById' \in [Ids -> Labels \cup {NoLabel}]
    BY <1>1, <1>2 DEF Typed, TypedOf
  <1>8. Fits(e)
    BY <1>2, <1>4, <1>5, <1>6, <1>7, LeafIsKnown DEF Fits
  <1> QED
    BY <1>1, <1>8, AppendKeeps

LEMMA InvariantStart == Init => Invariant
  <1> SUFFICES ASSUME Init PROVE Invariant
    OBVIOUS
  <1>1. /\ DOMAIN disk \subseteq Files /\ \A g \in DOMAIN disk : disk[g] = <<>>
        /\ NoFile \notin DOMAIN disk
    BY SessionAssumption DEF Init
  <1>2. OnFile(disk, NoFile, <<>>) = <<>>
    BY <1>1, EmptyFacts, CatNone DEF OnFile
  <1>3. Typed
    <2>1. nextId = 1 /\ nextId \in 1..(MaxEntries + 1)
      BY SessionAssumption DEF Init
    <2>2. fileEntries \in Seq(Sound(nextId)) /\ writing \in Seq(Sound(nextId))
      BY EmptyFacts DEF Init
    <2>3. leafId \in Ids \cup {Root} /\ leafId < nextId
      BY DEF Init, Root
    <2>4. labelsById \in [Ids -> Labels \cup {NoLabel}]
      BY DEF Init
    <2>5. flushed \in BOOLEAN /\ sessionFile \in Files \cup {NoFile} /\ writing = <<>>
      BY DEF Init
    <2>6. \A g \in DOMAIN disk : disk[g] \in Seq(Made(nextId)) /\ disk[g] \in Seq(Sound(nextId))
      BY <1>1, EmptyFacts
    <2> QED
      BY <1>1, <2>1, <2>2, <2>3, <2>4, <2>5, <2>6 DEF Typed, TypedOf
  <1>4. Rooted
    BY <1>1, <1>2, EmptyFacts, RootedNone DEF Rooted, RootedOf, Init
  <1>5. Numbered
    BY <1>1, <1>2, EmptyFacts DEF Numbered, NumberedOf, Init
  <1>6. Durable
    BY DEF Durable, DurableOf, Init
  <1> QED
    BY <1>3, <1>4, <1>5, <1>6 DEF Invariant

LEMMA InvariantStep == Invariant /\ [Next]_vars => Invariant'
  <1> SUFFICES ASSUME Invariant, [Next]_vars PROVE Invariant'
    OBVIOUS
  <1>0. Typed /\ Rooted /\ Numbered /\ Durable
    BY DEF Invariant
  <1>1. CASE WriteLine
    BY <1>1, WriteKeeps
  <1>2. ASSUME NEW kind \in {"message", "assistant"}, AppendMessage(kind) PROVE Invariant'
    BY <1>2, AppendMessageKeeps
  <1>3. ASSUME NEW target \in Ids, NEW label \in Labels \cup {NoLabel}, AppendLabelChange(target, label)
        PROVE  Invariant'
    BY <1>3, AppendLabelKeeps
  <1>4. ASSUME NEW id \in Ids \cup {Root}, Branch(id) PROVE Invariant'
    BY <1>4, BranchKeeps
  <1>5. ASSUME NEW id \in Ids \cup {Root}, BranchWithSummary(id) PROVE Invariant'
    BY <1>5, BranchWithSummaryKeeps
  <1>6. ASSUME NEW id \in Ids, NEW f \in Files, CreateBranchedSession(id, f) PROVE Invariant'
    BY <1>0, <1>6, BranchedStarts, StartKeeps
  <1>7. ASSUME NEW f \in Files, NewSession(f) \/ OpenAbsent(f) \/ OpenInvalid(f) PROVE Invariant'
    BY <1>0, <1>7, NewStarts, StartKeeps
  <1>8. ASSUME NEW f \in Files, OpenSession(f) PROVE Invariant'
    BY <1>0, <1>8, OpenStarts, StartKeeps
  <1>9. ASSUME NEW source \in Files, NEW f \in Files, ForkFrom(source, f) PROVE Invariant'
    BY <1>0, <1>9, ForkStarts, StartKeeps
  <1>10. CASE Crash
    BY <1>10, CrashKeeps
  <1>11. CASE UNCHANGED vars
    <2>1. /\ fileEntries' = fileEntries /\ leafId' = leafId /\ labelsById' = labelsById
          /\ flushed' = flushed /\ sessionFile' = sessionFile /\ nextId' = nextId /\ met' = met
          /\ writing' = writing /\ disk' = disk
      BY <1>11 DEF vars
    <2>2. Typed' /\ Rooted' /\ Numbered' /\ Durable'
      BY <1>0, <2>1, TypedPrimed, RootedPrimed, NumberedPrimed, DurablePrimed
      DEF Typed, Rooted, Numbered, Durable
    <2> QED
      BY <2>2 DEF Invariant
  <1> QED
    BY <1>1, <1>2, <1>3, <1>4, <1>5, <1>6, <1>7, <1>8, <1>9, <1>10, <1>11 DEF Next

LEMMA InvariantHolds == Spec => []Invariant
  BY InvariantStart, InvariantStep, PTL DEF Spec

-----------------------------------------------------------------------------
(* What follows from it.                                                   *)

(* Types.                                                                  *)
THEOREM TypeCorrect == Spec => []TypeOK
  <1>1. Invariant => TypeOK
    <2> SUFFICES ASSUME Invariant PROVE TypeOK
      OBVIOUS
    <2>1. Typed /\ nextId \in Nat
      BY NumberRange DEF Invariant
    <2>2. Sound(nextId) \subseteq Line /\ Made(nextId) \subseteq Line
      BY <2>1, MadeLines
    <2>3. fileEntries \in Seq(Line) /\ writing \in Seq(Line) /\ \A f \in DOMAIN disk : disk[f] \in Seq(Line)
      BY <2>1, <2>2, SeqGrows DEF Typed, TypedOf
    <2> QED
      BY <2>1, <2>3 DEF Typed, TypedOf, TypeOK
  <1> QED
    BY <1>1, InvariantHolds, PTL

(* The path of every entry and of the leaf leads back to a root.           *)
THEOREM EveryPathIsRooted == Spec => []PathsReachARoot
  <1>1. Invariant => PathsReachARoot
    <2> SUFFICES ASSUME Invariant, met \cap {"torn", "labelled"} = {}
                 PROVE  /\ leafId \in EntryIds(fileEntries) \cup {Root}
                        /\ \A n \in DOMAIN fileEntries : IsEntry(fileEntries[n]) =>
                             /\ fileEntries[n].parent \in EntryIds(fileEntries) \cup {Root}
                             /\ fileEntries[n].parent < fileEntries[n].id
      BY DEF PathsReachARoot
    <2>1. Typed /\ nextId \in Nat /\ RootedAfter(fileEntries, {}) /\ leafId \in EntryIds(fileEntries) \cup {Root}
      BY NumberRange DEF Invariant, Rooted, RootedOf
    <2>2. Closed(fileEntries)
      BY <2>1, RootedCloses
    <2>3. \A n \in DOMAIN fileEntries : fileEntries[n] \in Sound(nextId)
      BY <2>1 DEF Typed, TypedOf
    <2>4. \A n \in DOMAIN fileEntries : IsEntry(fileEntries[n]) => fileEntries[n].parent < fileEntries[n].id
      BY <2>1, <2>3, MadeLines
    <2> QED
      BY <2>1, <2>2, <2>4 DEF Closed
  <1> QED
    BY <1>1, InvariantHolds, PTL

(* A file has one header, its first line, and no id twice.                 *)
THEOREM FilesStayWellFormed == Spec => []FilesAreWellFormed
  <1>1. Invariant => FilesAreWellFormed
    <2> SUFFICES ASSUME Invariant, "unanswered" \notin met, NEW f \in DOMAIN disk PROVE WellFormed(disk[f])
      BY DEF FilesAreWellFormed
    <2>1. nextId \in Nat /\ disk[f] \in Seq(Made(nextId))
      BY NumberRange DEF Invariant, Typed, TypedOf
    <2>2. Distinct(Parsed(disk[f])) /\ Headed(Parsed(disk[f]))
      BY DEF Invariant, Numbered, NumberedOf
    <2> QED
      BY <2>1, <2>2, GoodFile
  <1> QED
    BY <1>1, InvariantHolds, PTL

(* Opening the file of an answered session gives the session in memory.    *)
THEOREM AnsweredSessionsSurvive == Spec => []AnsweredSessionsAreDurable
  <1>1. Invariant => AnsweredSessionsAreDurable
    <2> SUFFICES ASSUME Invariant, Ready, HasAssistant(fileEntries), met \cap {"torn", "unanswered"} = {}
                 PROVE  Loaded(Content(sessionFile)) = fileEntries
      BY DEF AnsweredSessionsAreDurable
    <2> DEFINE c == ContentOf(disk, sessionFile)
    <2>1. /\ Typed /\ nextId \in Nat /\ sessionFile # NoFile /\ writing = <<>>
          /\ \A g \in DOMAIN disk : disk[g] \in Seq(Made(nextId))
      BY NumberRange DEF Invariant, Typed, TypedOf, Ready
    <2>2. c \in Seq(Made(nextId)) /\ Parsed(c) \in Seq(Sound(nextId))
      BY <2>1, ContentFacts
    <2>3. OnFile(disk, sessionFile, writing) = Parsed(c)
      <3>1. OnFile(disk, sessionFile, writing) = Cat(Parsed(c), <<>>)
        BY <2>1 DEF OnFile
      <3> HIDE DEF c
      <3> QED
        BY <2>2, <3>1, CatNone
    <2>4. Parsed(c) = fileEntries
      BY <2>1, <2>3 DEF Invariant, Durable, DurableOf
    <2>5. fileEntries # <<>> /\ Headed(fileEntries)
      BY <2>1 DEF Invariant, Numbered, NumberedOf
    <2>6. Content(sessionFile) = c
      BY DEF Content, Exists, ContentOf
    <2> HIDE DEF c
    <2>7. HasHeader(c)
      BY <2>1, <2>2, <2>4, <2>5, HeaderRead DEF Headed
    <2> QED
      BY <2>4, <2>6, <2>7 DEF Loaded
  <1> QED
    BY <1>1, InvariantHolds, PTL


-----------------------------------------------------------------------------
(* Extraction.                                                             *)

(* On the way to an entry, the parent of an entry is the one before it.    *)
LEMMA AncestorOrder ==
    ASSUME NEW k \in Nat, NEW lines \in Seq(Made(k)), NEW id \in Ids \cup {Root}
    PROVE  \A x, y \in Ancestors(lines)[id] :
             x < y => EntryOf(lines, y).parent \in EntryIds(lines) /\ x <= EntryOf(lines, y).parent
  <1> DEFINE a == Ancestors(lines)
             parent(x) == EntryOf(lines, x).parent
             Good(i) == /\ \A x \in a[i] : x <= i
                        /\ \A x, y \in a[i] : x < y => parent(y) \in EntryIds(lines) /\ x <= parent(y)
  <1>1. PICK up : up = Walk(lines, up, MaxEntries)
    BY WalkExists, IdRange
  <1>2. a = Walk(lines, a, MaxEntries)
    BY <1>1, IdRange DEF Ancestors, Walk
  <1>3. \A i \in Ids \cup {Root} : a[i] = IF i \in EntryIds(lines) THEN a[parent(i)] \cup {i} ELSE {}
    BY <1>2, IdRange DEF Walk
  <1>4. \A i \in EntryIds(lines) : i \in Ids /\ parent(i) \in Ids \cup {Root} /\ parent(i) < i
    BY EntryOfFacts
  <1>5. \A i \in Ids \cup {Root} : a[i] \subseteq EntryIds(lines)
    BY AncestorFacts
  <1> HIDE DEF a, parent
  <1> DEFINE Bad == {i \in Ids \cup {Root} : ~Good(i)}
  <1>6. ASSUME Bad # {} PROVE FALSE
    <2>1. Bad \subseteq Nat
      BY IdRange
    <2>2. PICK i \in Bad : \A j \in Bad : i <= j
      BY <1>6, <2>1, LeastNatural
    <2>3. CASE i \in EntryIds(lines)
      <3> DEFINE p == parent(i)
      <3>1. p \in Ids \cup {Root} /\ p < i /\ p \in Nat /\ i \in Nat
        BY <1>4, <2>3, IdRange
      <3>2. p \notin Bad
        BY <2>1, <2>2, <3>1
      <3>3. Good(p)
        BY <3>1, <3>2
      <3>4. a[i] = a[p] \cup {i} /\ a[p] \subseteq Nat
        <4>1. a[p] \subseteq EntryIds(lines)
          BY <1>5, <3>1
        <4>2. a[i] = a[p] \cup {i}
          BY <1>3, <2>2, <2>3
        <4>3. EntryIds(lines) \subseteq Nat
          <5> HIDE DEF p, Bad
          <5> QED
            BY <1>4, IdRange DEF Ids
        <4> QED
          BY <4>1, <4>2, <4>3
      <3>5. a[p] # {} => p \in EntryIds(lines)
        BY <1>3, <3>1
      <3>6. \A x \in a[i] : x <= i
        BY <3>1, <3>3, <3>4
      <3>7. ASSUME NEW x \in a[i], NEW y \in a[i], x < y
            PROVE  parent(y) \in EntryIds(lines) /\ x <= parent(y)
        <4>1. x # i
          <5>1. x \in Nat /\ y \in Nat /\ y <= i
            BY <3>1, <3>4, <3>6
          <5> QED
            BY <3>1, <3>7, <5>1
        <4>2. x \in a[p]
          BY <3>4, <4>1
        <4>3. CASE y = i
          BY <3>3, <3>5, <4>2, <4>3
        <4>4. CASE y # i
          <5>1. y \in a[p]
            BY <3>4, <4>4
          <5> QED
            BY <3>3, <3>7, <4>2, <5>1
        <4> QED
          BY <4>3, <4>4
      <3> QED
        BY <2>2, <3>6, <3>7
    <2>4. CASE i \notin EntryIds(lines)
      <3>1. a[i] = {}
        BY <1>3, <2>2, <2>4
      <3> QED
        BY <2>2, <3>1
    <2> QED
      BY <2>3, <2>4
  <1>7. Good(id)
    BY <1>6
  <1> QED
    BY <1>7 DEF a, parent

(* Only one sequence tells the entries S.                                  *)
LEMMA TellsOnce ==
    ASSUME NEW X, NEW p \in Seq(X), NEW q \in Seq(X), NEW lines, NEW S \in SUBSET Ids,
           Tells(p, lines, S), Tells(q, lines, S)
    PROVE  p = q
  <1> DEFINE v == [id \in S |-> EntryOf(lines, id)]
             ids(path) == [i \in DOMAIN path |-> path[i].id]
  <1>1. ASSUME NEW path \in Seq(X), Tells(path, lines, S)
        PROVE  path = Picked(S, v)
    <2>1. /\ Len(path) \in Nat /\ DOMAIN path = 1..Len(path) /\ path = [i \in 1..Len(path) |-> path[i]]
          /\ DOMAIN ids(path) = DOMAIN path
          /\ \A i \in DOMAIN path : path[i].id \in S /\ path[i] = v[ids(path)[i]]
      BY <1>1 DEF Tells
    <2>2. Lists(ids(path), Len(path), S)
      BY <1>1, <2>1 DEF Tells, Lists
    <2>3. Below(S, MaxEntries) /\ MaxEntries \in Nat
      BY IdRange DEF Below, Ids
    <2> HIDE DEF ids, v
    <2>4. Picked(S, v) = Along(v, ids(path))
      BY <2>1, <2>2, <2>3, ListingPicks
    <2>5. Along(v, ids(path)) = [i \in 1..Len(path) |-> path[i]]
      <3>1. Along(v, ids(path)) = [i \in 1..Len(path) |-> v[ids(path)[i]]]
        BY <2>1 DEF Along
      <3> QED
        BY <2>1, <3>1
    <2> QED
      BY <2>1, <2>4, <2>5
  <1> HIDE DEF v
  <1> QED
    BY <1>1

(* Each entry's parent is the one before it, and the first one's none.     *)
Linear(s) ==
    /\ \A n \in DOMAIN s : IsEntry(s[n])
    /\ \A n, m \in DOMAIN s : n < m => s[n].id < s[m].id
    /\ \A n \in DOMAIN s : n > 1 => s[n].parent = s[n - 1].id
    /\ \A n, m \in DOMAIN s : n = 1 => s[n].parent # s[m].id

(* A path on which nothing follows a label is linear without its labels.   *)
LEMMA ConversationLinear ==
    ASSUME NEW k \in Nat, NEW lines \in Seq(Sound(k)), NEW id \in Ids \cup {Root},
           \A n \in DOMAIN Conversation(lines, id) :
              ~ /\ Conversation(lines, id)[n].parent \in EntryIds(lines)
                /\ EntryOf(lines, Conversation(lines, id)[n].parent).kind = "label"
    PROVE  Linear(Conversation(lines, id))
  <1> DEFINE path == Conversation(lines, id)
             A == Ancestors(lines)[id]
             U == {x \in A : EntryOf(lines, x).kind # "label"}
  <1>0. lines \in Seq(Made(k))
    BY MadeLines, SeqGrows
  <1>1. path \in Seq(Sound(k)) /\ Tells(path, lines, U)
    BY ConversationFacts
  <1>h. \A n \in DOMAIN path : ~ /\ path[n].parent \in EntryIds(lines)
                                  /\ EntryOf(lines, path[n].parent).kind = "label"
    OBVIOUS
  <1>a. /\ A \subseteq EntryIds(lines)
        /\ \A x \in A : EntryOf(lines, x).parent \in EntryIds(lines) => EntryOf(lines, x).parent \in A
    BY <1>0, AncestorFacts
  <1>b. \A x, y \in A : x < y => EntryOf(lines, y).parent \in EntryIds(lines) /\ x <= EntryOf(lines, y).parent
    BY <1>0, AncestorOrder
  <1> HIDE DEF path, A
  <1>2. /\ DOMAIN path = 1..Len(path) /\ Len(path) \in Nat
        /\ \A n \in DOMAIN path : /\ IsEntry(path[n]) /\ path[n].id \in A
                                  /\ path[n] = EntryOf(lines, path[n].id)
        /\ \A n, m \in DOMAIN path : n < m => path[n].id < path[m].id
        /\ \A x \in U : \E m \in DOMAIN path : path[m].id = x
    BY <1>1 DEF Tells
  <1>3. \A n \in DOMAIN path : path[n].id \in Nat /\ path[n].parent \in Nat /\ path[n].parent < path[n].id
    <2>1. ASSUME NEW n \in DOMAIN path
          PROVE path[n].id \in Nat /\ path[n].parent \in Nat /\ path[n].parent < path[n].id
      <3>1. path[n].id \in EntryIds(lines) /\ path[n] = EntryOf(lines, path[n].id)
        BY <1>2, <1>a
      <3> QED
        BY <1>0, <3>1, EntryOfFacts, IdRange
    <2> QED
      BY <2>1
  <1>4. ASSUME NEW n \in DOMAIN path, path[n].parent \in EntryIds(lines)
        PROVE  \E m \in DOMAIN path : path[m].id = path[n].parent
    <2>1. path[n].parent \in A
      BY <1>2, <1>4, <1>a
    <2>2. path[n].parent \in U
      BY <1>4, <1>h, <2>1
    <2> QED
      BY <1>2, <2>2
  <1>5. ASSUME NEW n \in DOMAIN path, n > 1 PROVE path[n].parent = path[n - 1].id
    <2>1. n - 1 \in DOMAIN path /\ n - 1 < n
      BY <1>2, <1>5
    <2>2. path[n - 1].id < path[n].id
      BY <1>2, <2>1
    <2>3. path[n].parent \in EntryIds(lines) /\ path[n - 1].id <= path[n].parent
      BY <1>2, <1>b, <2>1, <2>2
    <2>4. PICK m \in DOMAIN path : path[m].id = path[n].parent
      BY <1>4, <2>3
    <2>5. ~(n < m) /\ n # m /\ ~(m < n - 1)
      <3>1. path[m].id < path[n].id /\ path[n - 1].id <= path[m].id
        BY <1>3, <2>3, <2>4
      <3>2. n < m => path[n].id < path[m].id
        BY <1>2
      <3>3. m < n - 1 => path[m].id < path[n - 1].id
        BY <1>2, <2>1
      <3> QED
        BY <1>3, <2>1, <3>1, <3>2, <3>3
    <2>6. m = n - 1
      BY <1>2, <2>5
    <2> QED
      BY <2>4, <2>6
  <1>6. ASSUME NEW n \in DOMAIN path, NEW m \in DOMAIN path, n = 1 PROVE path[n].parent # path[m].id
    <2>1. n < m => path[n].id < path[m].id
      BY <1>2
    <2>2. n <= m
      BY <1>2, <1>6
    <2> QED
      BY <1>2, <1>3, <2>1, <2>2
  <1>7. Linear(path)
    BY <1>2, <1>5, <1>6 DEF Linear
  <1> QED
    BY <1>7 DEF path

(* The labels of a path go on from its end.                                *)
LEMMA LinearCat ==
    ASSUME NEW k \in Nat, NEW X, NEW path \in Seq(X), NEW labels \in Seq(X), Linear(path),
           \A n \in DOMAIN path : path[n].id \in Nat /\ path[n].id < k /\ path[n].parent \in Nat
                                  /\ path[n].parent < path[n].id,
           path = <<>> => labels = <<>>,
           Chain(labels, k, IF path = <<>> THEN Root ELSE path[Len(path)].id)
    PROVE  Linear(Cat(path, labels))
  <1> DEFINE b == Cat(path, labels)
             l == Len(path)
             last == IF path = <<>> THEN Root ELSE path[Len(path)].id
  <1>1. Joins(b, path, labels)
    BY CatParts
  <1>2. Chain(labels, k, last)
    OBVIOUS
  <1>3. /\ \A n \in DOMAIN path : IsEntry(path[n])
        /\ \A n, m \in DOMAIN path : n < m => path[n].id < path[m].id
        /\ \A n \in DOMAIN path : n > 1 => path[n].parent = path[n - 1].id
        /\ \A n, m \in DOMAIN path : n = 1 => path[n].parent # path[m].id
    BY DEF Linear
  <1>4. labels # <<>> => path # <<>> /\ last = path[l].id
    OBVIOUS
  <1> HIDE DEF b, last
  <1>5. /\ l \in Nat /\ Len(labels) \in Nat
        /\ DOMAIN path = 1..l /\ DOMAIN labels = 1..Len(labels) /\ DOMAIN b = 1..(l + Len(labels))
        /\ \A n \in DOMAIN path : n \in DOMAIN b /\ b[n] = path[n]
        /\ \A n \in DOMAIN labels : l + n \in DOMAIN b /\ b[l + n] = labels[n]
        /\ \A n \in DOMAIN b : n \in DOMAIN path \/ \E j \in DOMAIN labels : n = l + j
    BY <1>1 DEF Joins
  <1>6. \A n \in DOMAIN labels :
          /\ IsEntry(labels[n]) /\ labels[n].id = k + n - 1
          /\ labels[n].parent = IF n > 1 THEN k + n - 2 ELSE last
    BY <1>2 DEF Chain
  <1>7. labels # <<>> => l \in DOMAIN path /\ l >= 1
    BY <1>4, <1>5
  <1> HIDE DEF l
  <1>8. \A n \in DOMAIN b : \/ n \in DOMAIN path /\ b[n] = path[n]
                            \/ \E j \in DOMAIN labels : n = l + j /\ b[n] = labels[j]
    BY <1>5
  <1>9. \A n \in DOMAIN b : IsEntry(b[n])
    BY <1>3, <1>6, <1>8
  <1>10. ASSUME NEW n \in DOMAIN b, NEW m \in DOMAIN b, n < m PROVE b[n].id < b[m].id
    <2>1. CASE m \in DOMAIN path
      <3>1. n \in DOMAIN path
        BY <1>5, <1>10, <2>1
      <3> QED
        BY <1>3, <1>5, <1>10, <2>1, <3>1
    <2>2. ASSUME NEW j \in DOMAIN labels, m = l + j PROVE b[n].id < b[m].id
      <3>1. b[m].id = k + j - 1 /\ j \in Nat /\ j >= 1
        BY <1>5, <1>6, <2>2
      <3>2. CASE n \in DOMAIN path
        <4>1. b[n].id \in Nat /\ b[n].id < k
          BY <1>5, <3>2
        <4> QED
          BY <3>1, <4>1
      <3>3. ASSUME NEW i \in DOMAIN labels, n = l + i PROVE b[n].id < b[m].id
        <4>1. b[n] = labels[i] /\ i \in Nat
          BY <1>5, <3>3
        <4>2. b[n].id = k + i - 1
          BY <1>6, <4>1
        <4>3. i < j
          BY <1>5, <1>10, <2>2, <3>1, <3>3, <4>1
        <4>4. k + i - 1 < k + j - 1
          BY ONLY <3>1, <4>1, <4>3, k \in Nat
        <4> QED
          BY <3>1, <4>2, <4>4
      <3> QED
        BY <1>8, <3>2, <3>3
    <2> QED
      BY <1>8, <2>1, <2>2
  <1>11. ASSUME NEW n \in DOMAIN b, n > 1 PROVE b[n].parent = b[n - 1].id
    <2>1. CASE n \in DOMAIN path
      <3>1. n - 1 \in DOMAIN path
        BY <1>5, <1>11, <2>1
      <3> QED
        BY <1>3, <1>5, <1>11, <2>1, <3>1
    <2>2. ASSUME NEW j \in DOMAIN labels, n = l + j PROVE b[n].parent = b[n - 1].id
      <3>1. j \in Nat /\ j >= 1 /\ b[n] = labels[j]
        BY <1>5, <2>2
      <3>2. CASE j > 1
        <4>1. j - 1 \in DOMAIN labels /\ n - 1 = l + (j - 1)
          BY <1>5, <2>2, <3>1, <3>2
        <4>2. b[n - 1] = labels[j - 1]
          BY <1>5, <4>1
        <4>3. labels[j - 1].id = k + (j - 1) - 1 /\ labels[j].parent = k + j - 2
          BY <1>6, <3>2, <4>1
        <4> QED
          BY <3>1, <4>2, <4>3
      <3>3. CASE j = 1
        <4>1. n - 1 = l /\ l \in DOMAIN path /\ last = path[l].id
          BY <1>4, <1>5, <1>7, <2>2, <3>3 DEF l
        <4>2. b[n - 1] = path[l]
          BY <1>5, <4>1
        <4>3. labels[j].parent = last
          BY <1>6, <3>3
        <4> QED
          BY <3>1, <4>1, <4>2, <4>3
      <3> QED
        BY <3>1, <3>2, <3>3
    <2> QED
      BY <1>8, <2>1, <2>2
  <1>12. ASSUME NEW n \in DOMAIN b, NEW m \in DOMAIN b, n = 1 PROVE b[n].parent # b[m].id
    <2>1. n \in DOMAIN path /\ b[n] = path[n]
      <3>1. path # <<>>
        BY <1>4, <1>5, <1>12
      <3>2. l >= 1
        BY <3>1, <1>5 DEF l
      <3> QED
        BY <1>5, <1>12, <3>2
    <2>2. CASE m \in DOMAIN path
      BY <1>3, <1>5, <1>12, <2>1, <2>2
    <2>3. ASSUME NEW j \in DOMAIN labels, m = l + j PROVE b[n].parent # b[m].id
      <3>1. b[m].id = k + j - 1 /\ j \in Nat /\ j >= 1
        BY <1>5, <1>6, <2>3
      <3>2. b[n].parent \in Nat /\ b[n].parent < k
        BY <2>1
      <3> QED
        BY <3>1, <3>2
    <2> QED
      BY <1>8, <2>2, <2>3
  <1> QED
    BY <1>9, <1>10, <1>11, <1>12 DEF Linear, b

(* The walk from the end of a linear session meets all of its entries.     *)
LEMMA LinearWalk ==
    ASSUME NEW k \in Nat, NEW b \in Seq(Made(k)), Linear(b), NEW lines \in Seq(Made(k)),
           lines = Cat(<<Header>>, b)
    PROVE  /\ EntryIds(lines) = {b[n].id : n \in DOMAIN b}
           /\ \A n \in DOMAIN b : EntryOf(lines, b[n].id) = b[n]
           /\ Ancestors(lines)[LastId(lines)] = EntryIds(lines)
           /\ LastId(lines) \in Ids \cup {Root}
  <1> DEFINE one == <<Header>>
  <1>1. Joins(lines, one, b) /\ Len(one) = 1 /\ one[1] = Header /\ DOMAIN one = {1}
    <2>1. one \in Seq(Made(k))
      BY MadeLines
    <2>2. Len(one) = 1 /\ one[1] = Header /\ DOMAIN one = {1}
      OBVIOUS
    <2> HIDE DEF one
    <2>3. Joins(Cat(one, b), one, b)
      BY <2>1, CatParts
    <2>4. lines = Cat(one, b)
      BY DEF one
    <2> QED
      BY <2>2, <2>3, <2>4
  <1> HIDE DEF one
  <1>2. /\ DOMAIN lines = 1..(1 + Len(b)) /\ DOMAIN b = 1..Len(b) /\ Len(b) \in Nat
        /\ lines[1] = Header /\ \A n \in DOMAIN b : n + 1 \in DOMAIN lines /\ lines[n + 1] = b[n]
        /\ \A n \in DOMAIN lines : n > 1 => n - 1 \in DOMAIN b /\ lines[n] = b[n - 1]
    <2>1. \A n \in DOMAIN b : n + 1 = 1 + n
      OBVIOUS
    <2>2. /\ DOMAIN lines = 1..(1 + Len(b)) /\ DOMAIN b = 1..Len(b) /\ Len(b) \in Nat
          /\ lines[1] = Header /\ \A n \in DOMAIN b : n + 1 \in DOMAIN lines /\ lines[n + 1] = b[n]
      BY <1>1, <2>1 DEF Joins
    <2>3. ASSUME NEW n \in DOMAIN lines, n > 1 PROVE n - 1 \in DOMAIN b /\ lines[n] = b[n - 1]
      <3>1. n - 1 \in DOMAIN b /\ (n - 1) + 1 = n
        BY <2>2, <2>3
      <3> QED
        BY <2>2, <3>1
    <2> QED
      BY <2>2, <2>3
  <1>3. ~IsEntry(Header)
    BY DEF Header, Plain, IsEntry, EntryKinds
  <1>4. /\ \A n \in DOMAIN b : IsEntry(b[n]) /\ b[n].id \in Nat
        /\ \A n, m \in DOMAIN b : n < m => b[n].id < b[m].id
        /\ \A n \in DOMAIN b : n > 1 => b[n].parent = b[n - 1].id
    BY MadeLines, IdRange DEF Linear
  <1>5. \A n, m \in DOMAIN b : b[n].id = b[m].id => n = m
    <2>1. ASSUME NEW n \in DOMAIN b, NEW m \in DOMAIN b, b[n].id = b[m].id PROVE n = m
      <3>1. ~(n < m) /\ ~(m < n)
        BY <1>4, <2>1
      <3> QED
        BY <1>2, <3>1
    <2> QED
      BY <2>1
  <1>6. EntryAt(lines) = {n \in DOMAIN lines : n > 1}
    <2>1. ASSUME NEW n \in DOMAIN lines PROVE IsEntry(lines[n]) <=> n > 1
      <3>1. n = 1 \/ n > 1
        BY <1>2
      <3>2. n > 1 => IsEntry(lines[n])
        BY <1>2, <1>4
      <3>3. n = 1 => ~IsEntry(lines[n])
        BY <1>2, <1>3
      <3> QED
        BY <3>1, <3>2, <3>3
    <2> QED
      BY <2>1 DEF EntryAt
  <1>7. EntryIds(lines) = {b[n].id : n \in DOMAIN b}
    <2>1. \A n \in EntryAt(lines) : \E j \in DOMAIN b : lines[n].id = b[j].id
      BY <1>2, <1>6
    <2>2. \A j \in DOMAIN b : j + 1 \in EntryAt(lines) /\ lines[j + 1].id = b[j].id
      BY <1>2, <1>6
    <2>3. EntryIds(lines) = {lines[n].id : n \in EntryAt(lines)}
      BY DEF EntryIds
    <2>4. ASSUME NEW x \in EntryIds(lines) PROVE x \in {b[n].id : n \in DOMAIN b}
      <3>1. PICK n \in EntryAt(lines) : x = lines[n].id
        BY <2>3
      <3> QED
        BY <2>1, <3>1
    <2>5. ASSUME NEW n \in DOMAIN b PROVE b[n].id \in EntryIds(lines)
      BY <2>2, <2>3
    <2> QED
      BY <2>4, <2>5
  <1>8. ASSUME NEW n \in DOMAIN b PROVE EntryOf(lines, b[n].id) = b[n]
    <2>1. b[n].id \in EntryIds(lines)
      BY <1>7
    <2>2. /\ EntryOf(lines, b[n].id).id = b[n].id /\ IsEntry(EntryOf(lines, b[n].id))
          /\ \E i \in DOMAIN lines : EntryOf(lines, b[n].id) = lines[i]
      BY <2>1, EntryOfFacts
    <2>3. PICK i \in DOMAIN lines : EntryOf(lines, b[n].id) = lines[i]
      BY <2>2
    <2>4. i > 1
      <3>1. i = 1 \/ i > 1
        BY <1>2
      <3> QED
        BY <1>2, <1>3, <2>2, <2>3, <3>1
    <2>5. PICK j \in DOMAIN b : lines[i] = b[j]
      BY <1>2, <2>4
    <2>6. j = n
      BY <1>5, <2>2, <2>3, <2>5
    <2> QED
      BY <2>3, <2>5, <2>6
  <1> DEFINE leaf == LastId(lines)
             a == Ancestors(lines)[leaf]
  <1>9. leaf \in EntryIds(lines) \cup {Root} /\ EntryIds(lines) \subseteq Ids
    BY LastIdFacts, EntryOfFacts
  <1>10. /\ a \subseteq EntryIds(lines)
         /\ leaf \in EntryIds(lines) => leaf \in a
         /\ \A x \in a : EntryOf(lines, x).parent \in EntryIds(lines) => EntryOf(lines, x).parent \in a
    BY <1>9, AncestorFacts
  <1>11. b # <<>> => leaf = b[Len(b)].id /\ Len(b) \in DOMAIN b
    <2>1. ASSUME b # <<>> PROVE leaf = b[Len(b)].id /\ Len(b) \in DOMAIN b
      <3>1. Len(b) \in DOMAIN b /\ Len(b) + 1 \in EntryAt(lines)
        BY <1>2, <1>6, <2>1
      <3>2. \A n \in EntryAt(lines) : n <= Len(b) + 1
        BY <1>2, <1>6
      <3>3. EntryAt(lines) \subseteq Nat
        BY <1>2, <1>6
      <3>4. (CHOOSE n \in EntryAt(lines) : \A m \in EntryAt(lines) : m <= n) = Len(b) + 1
        <4> DEFINE S == EntryAt(lines)
                   c == CHOOSE n \in S : \A m \in S : m <= n
        <4>1. S \subseteq Nat /\ Len(b) + 1 \in S /\ \A n \in S : n <= Len(b) + 1
          BY <3>1, <3>2, <3>3
        <4> HIDE DEF S
        <4>2. c \in S /\ \A m \in S : m <= c
          BY <4>1
        <4> HIDE DEF c
        <4>3. c = Len(b) + 1
          BY <4>1, <4>2
        <4> QED
          BY <4>3 DEF c, S
      <3>5. leaf = lines[Len(b) + 1].id
        BY <3>1, <3>4 DEF LastId
      <3> QED
        BY <1>2, <3>1, <3>5
    <2> QED
      BY <2>1
  <1> HIDE DEF leaf, a
  <1>12. ASSUME NEW i \in DOMAIN b PROVE b[i].id \in a
    <2> DEFINE Bad == {n \in DOMAIN b : b[n].id \notin a}
    <2>1. ASSUME Bad # {} PROVE FALSE
      <3>1. PICK n \in Bad : \A m \in Bad : m <= n
        <4>1. Bad \subseteq 1..Len(b)
          BY <1>2
        <4> HIDE DEF Bad
        <4> QED
          BY <1>2, <2>1, <4>1, GreatestNatural
      <3>2. b # <<>> /\ b[Len(b)].id \in a
        <4>1. b # <<>>
          BY <1>2
        <4>2. leaf = b[Len(b)].id /\ Len(b) \in DOMAIN b
          BY <1>11, <4>1
        <4>3. leaf \in EntryIds(lines)
          BY <1>7, <4>2
        <4> QED
          BY <1>10, <4>1, <4>2, <4>3
      <3>3. n + 1 \in DOMAIN b /\ n + 1 \notin Bad
        <4>1. n \in 1..Len(b) /\ n # Len(b)
          BY <1>2, <3>1, <3>2
        <4>2. n + 1 \in 1..Len(b) /\ ~(n + 1 <= n)
          BY <1>2, <4>1
        <4> QED
          BY <1>2, <3>1, <4>2
      <3>4. b[n + 1].id \in a /\ b[n + 1].parent = b[n].id
        <4>1. (n + 1) - 1 = n /\ n + 1 > 1
          BY <1>2, <3>1
        <4> QED
          BY <1>4, <3>3, <4>1
      <3>5. EntryOf(lines, b[n + 1].id) = b[n + 1] /\ b[n].id \in EntryIds(lines)
        BY <1>7, <1>8, <3>1, <3>3
      <3> QED
        BY <1>10, <3>1, <3>4, <3>5
    <2> QED
      BY <2>1
  <1>13. a = EntryIds(lines)
    <2>1. \A x \in EntryIds(lines) : \E n \in DOMAIN b : x = b[n].id
      BY <1>7
    <2>2. \A x \in EntryIds(lines) : x \in a
      BY <1>12, <2>1
    <2>3. a \subseteq EntryIds(lines)
      BY <1>10
    <2> QED
      BY <2>2, <2>3
  <1> QED
    BY <1>7, <1>8, <1>9, <1>13 DEF a, leaf

(* labels hold the labels of the entries of path.                          *)
Tagged(labels, path) ==
    /\ \A n \in DOMAIN labels : /\ labels[n].kind = "label"
                                /\ \E i \in DOMAIN path : labels[n].target = path[i].id
                                /\ labels[n].label = labelsById[labels[n].target]
    /\ \A i \in DOMAIN path : labelsById[path[i].id] # NoLabel =>
          \E n \in DOMAIN labels : labels[n].target = path[i].id

LEMMA LabelTags ==
    ASSUME NEW path, \A n \in DOMAIN path : path[n].id \in Ids
    PROVE  Tagged(LabelEntries(path), path)
  <1> DEFINE S == {id \in {path[n].id : n \in DOMAIN path} : labelsById[id] # NoLabel}
             targets == Ascending(S)
             before(n) == IF n > 1 THEN nextId + n - 2 ELSE IF path = <<>> THEN Root ELSE path[Len(path)].id
             labels == [n \in DOMAIN targets |->
                          Label(nextId + n - 1, before(n), targets[n], labelsById[targets[n]])]
  <1>1. LabelEntries(path) = labels
    BY DEF LabelEntries
  <1>2. S \subseteq Ids
    OBVIOUS
  <1>3. PICK m \in Nat : Lists(targets, m, S) /\ DOMAIN targets = 1..m
    BY <1>2, AscendingLists
  <1>4. /\ \A n \in DOMAIN targets : targets[n] \in S
        /\ \A x \in S : \E n \in DOMAIN targets : targets[n] = x
    BY <1>3 DEF Lists
  <1>5. \A x \in S : \E i \in DOMAIN path : x = path[i].id
    OBVIOUS
  <1>6. \A i \in DOMAIN path : labelsById[path[i].id] # NoLabel => path[i].id \in S
    OBVIOUS
  <1> HIDE DEF S, targets, before
  <1>7. /\ DOMAIN labels = DOMAIN targets
        /\ \A n \in DOMAIN labels : /\ labels[n].kind = "label" /\ labels[n].target = targets[n]
                                    /\ labels[n].label = labelsById[targets[n]]
    BY DEF Label
  <1> HIDE DEF labels
  <1>8. Tagged(labels, path)
    BY <1>4, <1>5, <1>6, <1>7 DEF Tagged
  <1> QED
    BY <1>1, <1>8

(* The lines of an extracted branch.                                       *)
Lead(lines, path, labels) ==
    /\ DOMAIN lines = 1..(1 + Len(path) + Len(labels)) /\ Len(path) \in Nat /\ Len(labels) \in Nat
    /\ lines[1].kind = "session"
    /\ \A n \in DOMAIN lines : \/ n = 1
                               \/ \E i \in DOMAIN path : lines[n] = path[i]
                               \/ \E j \in DOMAIN labels : lines[n] = labels[j]
    /\ \A j \in DOMAIN labels : \E n \in DOMAIN lines : lines[n] = labels[j]

(* Its label entries give the entries of the path their labels.            *)
LEMMA LabelsCarriedOver ==
    ASSUME NEW path, NEW labels, NEW lines, Lead(lines, path, labels), Tagged(labels, path),
           \A n \in DOMAIN path : path[n].id \in Ids /\ path[n].kind # "label"
    PROVE  \A n \in DOMAIN path : LabelsOf(lines)[path[n].id] = labelsById[path[n].id]
  <1> SUFFICES ASSUME NEW i \in DOMAIN path
               PROVE  LabelsOf(lines)[path[i].id] = labelsById[path[i].id]
    OBVIOUS
  <1> DEFINE id == path[i].id
             S == {n \in DOMAIN lines : lines[n].kind = "label" /\ lines[n].target = id}
             newest == CHOOSE n \in S : \A m \in S : m <= n
  <1>1. LabelsOf(lines)[id] = IF S = {} THEN NoLabel ELSE lines[newest].label
    BY DEF LabelsOf
  <1>2. ASSUME NEW n \in S PROVE lines[n].label = labelsById[id]
    <2>1. n \in DOMAIN lines /\ lines[n].kind = "label" /\ lines[n].target = id
      OBVIOUS
    <2>2. n # 1
      BY <2>1 DEF Lead
    <2>3. PICK j \in DOMAIN labels : lines[n] = labels[j]
      BY <2>1, <2>2 DEF Lead
    <2> QED
      BY <2>1, <2>3 DEF Tagged
  <1>3. S # {} => newest \in S
    <2>1. S \subseteq 1..(1 + Len(path) + Len(labels)) /\ 1 + Len(path) + Len(labels) \in Nat
      BY DEF Lead
    <2> HIDE DEF S
    <2>2. S # {} => \E n \in S : \A m \in S : m <= n
      BY <2>1, GreatestNatural
    <2> QED
      BY <2>2
  <1>4. S = {} => labelsById[id] = NoLabel
    <2>1. ASSUME labelsById[id] # NoLabel PROVE S # {}
      <3>1. PICK j \in DOMAIN labels : labels[j].target = id
        BY <2>1 DEF Tagged
      <3>2. PICK n \in DOMAIN lines : lines[n] = labels[j]
        BY DEF Lead
      <3>3. lines[n].kind = "label" /\ lines[n].target = id
        BY <3>1, <3>2 DEF Tagged
      <3> QED
        BY <3>3
    <2> QED
      BY <2>1
  <1> HIDE DEF S, newest
  <1> QED
    BY <1>1, <1>2, <1>3, <1>4

LEMMA BranchExtracts ==
    ASSUME Typed, NEW id \in Ids, NEW f, CreateBranchedSession(id, f), "labelled" \notin met'
    PROVE  Extracted(id)
  <1> DEFINE k == nextId
             path == Conversation(fileEntries, id)
             labels == LabelEntries(path)
             j == k + Len(labels)
             both == Cat(path, labels)
             new == fileEntries'
             leaf == LastId(new)
             U == {x \in Ancestors(fileEntries)[id] : EntryOf(fileEntries, x).kind # "label"}
             W == {x \in Ancestors(new)[leaf] : EntryOf(new, x).kind # "label"}
             last == IF path = <<>> THEN Root ELSE path[Len(path)].id
  <1>1. k \in Nat /\ k # 0 /\ k \in 1..(MaxEntries + 1) /\ MaxEntries \in Nat
    BY NumberRange, IdRange
  <1>2. /\ fileEntries \in Seq(Sound(k)) /\ labelsById \in [Ids -> Labels \cup {NoLabel}]
        /\ k + Len(LabelEntries(path)) <= MaxEntries + 1
        /\ new = <<Header>> \o path \o labels /\ leafId' = leaf /\ labelsById' = LabelsOf(new)
    BY DEF Typed, TypedOf, CreateBranchedSession, IndexSession
  <1>3. path \in Seq(Sound(k)) /\ Tells(path, fileEntries, U)
    BY <1>1, <1>2, ConversationFacts
  <1>4. \A n \in DOMAIN path : ~FollowsLabel(path[n])
    BY DEF CreateBranchedSession, Meet
  <1>5. Linear(path)
    BY <1>1, <1>2, <1>4, ConversationLinear DEF FollowsLabel
  <1> HIDE DEF path
  <1>6. \A n \in DOMAIN path : /\ IsEntry(path[n]) /\ path[n].kind # "label"
                               /\ path[n].id \in Ids /\ path[n].id \in Nat /\ path[n].id < k
                               /\ path[n].parent \in Nat /\ path[n].parent < path[n].id
    <2>1. ASSUME NEW n \in DOMAIN path
          PROVE  IsEntry(path[n]) /\ path[n].kind # "label" /\ path[n] \in Made(k)
      BY <1>1, <1>3, MadeLines DEF Tells
    <2> QED
      BY <1>1, <2>1, MadeLines, IdRange
  <1>7. labels \in Seq(Sound(j)) /\ Len(labels) \in Nat /\ Chain(labels, k, last)
    BY <1>1, <1>2, <1>3, <1>6, LabelFacts
  <1>8. Tagged(labels, path)
    BY <1>6, LabelTags
  <1> HIDE DEF labels
  <1>9. path = <<>> => labels = <<>>
    <2>1. ASSUME path = <<>>, labels # <<>> PROVE FALSE
      <3>1. 1 \in DOMAIN labels
        BY <1>7, <2>1
      <3> QED
        BY <1>8, <2>1, <3>1 DEF Tagged
    <2> QED
      BY <2>1
  <1>10. j \in Nat /\ k <= j /\ j \in 1..(MaxEntries + 1)
    BY <1>1, <1>2, <1>7 DEF labels
  <1> HIDE DEF j
  <1>11. path \in Seq(Sound(j)) /\ both \in Seq(Sound(j)) /\ both \in Seq(Made(j))
    <2>1. path \in Seq(Sound(j))
      BY <1>1, <1>3, <1>10, MadeLines, SeqGrows
    <2>2. both \in Seq(Sound(j))
      BY <1>7, <2>1, CatType
    <2> HIDE DEF both
    <2>3. both \in Seq(Made(j))
      BY <1>10, <2>2, MadeLines, SeqGrows
    <2> QED
      BY <2>1, <2>2, <2>3
  <1>12. Linear(both)
    BY <1>1, <1>5, <1>6, <1>7, <1>9, <1>11, LinearCat
  <1>13. Joins(both, path, labels)
    BY <1>7, <1>11, CatParts
  <1>14. new = Cat(<<Header>>, both) /\ new \in Seq(Sound(j)) /\ Joins(new, <<Header>>, both)
    <2> DEFINE one == <<Header>>
    <2>1. one \in Seq(Sound(j))
      BY <1>10, MadeLines
    <2> HIDE DEF one
    <2>2. Cat(Cat(one, path), labels) = Cat(one, both)
      BY <1>7, <1>11, <2>1, CatAssoc
    <2>3. new = Cat(one, both)
      BY <1>2, <2>2 DEF Cat, one
    <2> HIDE DEF both, new
    <2>4. Cat(one, both) \in Seq(Sound(j)) /\ Joins(Cat(one, both), one, both)
      BY <1>11, <2>1, CatParts
    <2> QED
      BY <2>3, <2>4 DEF one
  <1> HIDE DEF both, new
  <1>15. new \in Seq(Made(j))
    BY <1>10, <1>14, MadeLines, SeqGrows
  <1>16. /\ EntryIds(new) = {both[n].id : n \in DOMAIN both}
         /\ \A n \in DOMAIN both : EntryOf(new, both[n].id) = both[n]
         /\ Ancestors(new)[leaf] = EntryIds(new) /\ leaf \in Ids \cup {Root}
    BY <1>10, <1>11, <1>12, <1>14, <1>15, LinearWalk
  <1> HIDE DEF leaf
  <1>17. Conversation(new, leaf) \in Seq(Sound(j)) /\ Tells(Conversation(new, leaf), new, W)
    BY <1>10, <1>14, <1>16, ConversationFacts
  <1>18. /\ \A n \in DOMAIN path : n \in DOMAIN both /\ both[n] = path[n]
         /\ \A n \in DOMAIN both : \/ n \in DOMAIN path
                                   \/ \E i \in DOMAIN labels : both[n] = labels[i]
         /\ \A i \in DOMAIN labels : \E n \in DOMAIN both : both[n] = labels[i]
    BY <1>13 DEF Joins
  <1>19. \A i \in DOMAIN labels : labels[i].kind = "label"
    BY <1>8 DEF Tagged
  <1>20. Tells(path, new, W)
    <2>1. ASSUME NEW n \in DOMAIN path
          PROVE  path[n].id \in W /\ path[n] = EntryOf(new, path[n].id)
      <3>1. n \in DOMAIN both /\ both[n] = path[n]
        BY <1>18
      <3> QED
        BY <1>6, <1>16, <3>1
    <2>2. ASSUME NEW x \in W PROVE \E n \in DOMAIN path : path[n].id = x
      <3>1. PICK n \in DOMAIN both : both[n].id = x
        BY <1>16
      <3>2. both[n].kind # "label"
        BY <1>16, <3>1
      <3> QED
        BY <1>18, <1>19, <3>1, <3>2
    <2>3. \A n, m \in DOMAIN path : n < m => path[n].id < path[m].id
      BY <1>5 DEF Linear
    <2> HIDE DEF W
    <2> QED
      BY <1>6, <2>1, <2>2, <2>3 DEF Tells
  <1>21. W \subseteq Ids
    BY <1>15, <1>10, <1>16, EntryOfFacts
  <1>22. Conversation(new, leaf) = path
    <2> HIDE DEF W
    <2> QED
      BY <1>11, <1>17, <1>20, <1>21, TellsOnce
  <1>23. Lead(new, path, labels)
    <2> DEFINE one == <<Header>>
    <2>1. DOMAIN one = {1} /\ one[1] = Header /\ Len(one) = 1 /\ Header.kind = "session"
      BY DEF Header, Plain
    <2>2. Joins(new, one, both)
      BY <1>14
    <2> HIDE DEF one
    <2>3. /\ DOMAIN new = 1..(1 + Len(both)) /\ new[1] = Header /\ Len(both) \in Nat
          /\ \A n \in DOMAIN both : \E i \in DOMAIN new : new[i] = both[n]
          /\ \A n \in DOMAIN new : n = 1 \/ \E i \in DOMAIN both : new[n] = both[i]
      BY <2>1, <2>2 DEF Joins
    <2>4. Len(both) = Len(path) + Len(labels) /\ Len(path) \in Nat /\ Len(labels) \in Nat
      BY <1>13 DEF Joins
    <2>5. 1 + Len(both) = 1 + Len(path) + Len(labels)
      BY <2>4
    <2>6. ASSUME NEW n \in DOMAIN new
          PROVE  n = 1 \/ (\E i \in DOMAIN path : new[n] = path[i]) \/ (\E i \in DOMAIN labels : new[n] = labels[i])
      BY <1>18, <2>3
    <2>7. ASSUME NEW i \in DOMAIN labels PROVE \E n \in DOMAIN new : new[n] = labels[i]
      BY <1>18, <2>3
    <2> QED
      BY <2>1, <2>3, <2>4, <2>5, <2>6, <2>7 DEF Lead
  <1>24. \A n \in DOMAIN path : LabelsOf(new)[path[n].id] = labelsById[path[n].id]
    BY <1>6, <1>8, <1>23, LabelsCarriedOver
  <1> HIDE DEF U, W
  <1> QED
    BY <1>2, <1>22, <1>24 DEF Extracted, path, new, leaf

(* Extracting a path on which nothing follows a label keeps its            *)
(* conversation and its labels.                                            *)
THEOREM ExtractionKeepsThePath == Spec => UnlabelledBranchIsThePath
  <1>1. Invariant /\ [Next]_vars =>
          [\A id \in Ids :
             CreateBranchedSession(id, sessionFile') /\ "labelled" \notin met' => Extracted(id)]_sessionFile
    BY BranchExtracts DEF Invariant
  <1> QED
    BY <1>1, InvariantHolds, PTL DEF Spec, UnlabelledBranchIsThePath
=============================================================================
