---------------------------- MODULE SessionTree ----------------------------
(***************************************************************************)
(* Sessions: class SessionManager (packages/coding-agent/src/core/         *)
(* session-manager.ts) and the JSONL files it appends to.                  *)
(*                                                                         *)
(* A session is a tree of entries with a leaf; appending makes a child of  *)
(* the leaf.  The tree is in memory and in a file.  Nothing is written     *)
(* before the first assistant message, which writes the whole session; the *)
(* file is written line by line, and the process may die between two lines *)
(* or within one.  All methods are synchronous, so only a crash comes      *)
(* between the lines of one call.                                          *)
(***************************************************************************)
EXTENDS Integers, Sequences, Selection

CONSTANTS Files, NoFile,
          EmptyFiles,   \* the files that exist, empty, before the first process
          Labels, NoLabel,
          MaxEntries    \* bound: entries created

ASSUME SessionAssumption ==
    /\ NoFile \notin Files
    /\ EmptyFiles \subseteq Files
    /\ NoLabel \notin Labels
    /\ MaxEntries \in Nat

VARIABLES
    fileEntries,  \* the session in memory: its header and its entries
    leafId,
    labelsById,
    flushed,
    sessionFile,  \* NoFile while no process runs
    writing,      \* the lines the current call has still to append
    disk,         \* content of the files that exist
    nextId,       \* the next id generateId() returns
    met           \* history: the hardships met so far

memory == <<fileEntries, leafId, labelsById, flushed, sessionFile>>
vars == <<fileEntries, leafId, labelsById, flushed, sessionFile, writing, disk, nextId, met>>

(* "torn": a crash cut the line being written.  "unanswered": a file       *)
(* without an assistant message was opened or forked.  "labelled": a path  *)
(* where entries follow a label was extracted.                             *)
Hardships == {"torn", "unanswered", "labelled"}
Meet(hardship, happens) == met' = IF happens THEN met \cup {hardship} ELSE met

Root == 0
Ids == 1..MaxEntries

(* "message" stands for every entry that is neither an assistant message   *)
(* nor a label.  "torn" is a line cut before its end, "junk" the line it   *)
(* becomes when more is appended to it.                                    *)
EntryKinds == {"message", "assistant", "label"}
Kinds == EntryKinds \cup {"session", "torn", "junk"}
Line == [kind : Kinds, id : Ids \cup {Root}, parent : Ids \cup {Root},
         target : Ids \cup {Root}, label : Labels \cup {NoLabel}]

Ascending(S) == Picked(S, [n \in Ids |-> n])

Plain(kind, id, parent) ==
    [kind |-> kind, id |-> id, parent |-> parent, target |-> Root, label |-> NoLabel]
Label(id, parent, target, label) ==
    [kind |-> "label", id |-> id, parent |-> parent, target |-> target, label |-> label]
Header == Plain("session", Root, Root)

IsEntry(line) == line.kind \in EntryKinds
Parses(line) == line.kind \notin {"torn", "junk"}

(***************************************************************************)
(* Reading a session                                                       *)
(***************************************************************************)
HasAssistant(lines) == \E n \in DOMAIN lines : lines[n].kind = "assistant"

(* The first line that parses is a header.                                 *)
HasHeader(content) ==
    \E n \in DOMAIN content : /\ content[n].kind = "session"
                              /\ \A m \in 1..(n - 1) : ~Parses(content[m])

Parsed(content) == Picked({n \in DOMAIN content : Parses(content[n])}, content)
Loaded(content) == IF HasHeader(content) THEN Parsed(content) ELSE <<>>

EntryAt(lines) == {n \in DOMAIN lines : IsEntry(lines[n])}
EntriesOf(lines) == Picked(EntryAt(lines), lines)
EntryIds(lines) == {lines[n].id : n \in EntryAt(lines)}
EntryOf(lines, id) == lines[CHOOSE n \in DOMAIN lines : IsEntry(lines[n]) /\ lines[n].id = id]

(* Mutant of LastId: a session without entries has no leaf at all.         *)
LastIfAny(lines) ==
    LET S == EntryAt(lines) IN
    IF S = {} THEN NoLabel ELSE lines[CHOOSE n \in S : \A m \in S : m <= n].id

LastId(lines) ==
    LET S == EntryAt(lines) IN
    IF S = {} THEN Root ELSE lines[CHOOSE n \in S : \A m \in S : m <= n].id

(* The label an id has after all label entries of lines, in order.         *)
LabelsOf(lines) ==
    [id \in Ids |->
       LET S == {n \in DOMAIN lines : lines[n].kind = "label" /\ lines[n].target = id} IN
       IF S = {} THEN NoLabel ELSE lines[CHOOSE n \in S : \A m \in S : m <= n].label]

(* The ids from the root to id; the walk stops at a parent that is unknown.*)
Ancestors(lines) ==
    LET known == EntryIds(lines)
        up[id \in Ids \cup {Root}] ==
            IF id \in known THEN up[EntryOf(lines, id).parent] \cup {id} ELSE {}
    IN  up
Path(lines, id) ==
    LET ids == Ascending(Ancestors(lines)[id]) IN
    [n \in DOMAIN ids |-> EntryOf(lines, ids[n])]

Conversation(lines, id) ==
    LET path == Path(lines, id) IN
    Picked({n \in DOMAIN path : path[n].kind # "label"}, path)

(***************************************************************************)
(* Writing                                                                 *)
(***************************************************************************)
Exists(f) == f \in DOMAIN disk
Content(f) == IF Exists(f) THEN disk[f] ELSE <<>>
Put(f, content) == [g \in DOMAIN disk \cup {f} |-> IF g = f THEN content ELSE disk[g]]

(* Nothing separates a cut line from what is appended to it.               *)
Extended(content, line) ==
    IF content # <<>> /\ content[Len(content)].kind = "torn"
    THEN [content EXCEPT ![Len(content)] = Plain("junk", Root, Root)]
    ELSE Append(content, line)

Ready == sessionFile # NoFile /\ writing = <<>>
Fresh(f) == f \in Files \ (DOMAIN disk \cup {sessionFile})

WriteLine ==
    /\ writing # <<>>
    /\ disk' = Put(sessionFile, Extended(Content(sessionFile), Head(writing)))
    /\ writing' = Tail(writing)
    /\ UNCHANGED <<memory, nextId, met>>

(* Mutant: the entry alone is written, flushed or not.                     *)
AppendEntryAlone(entry) ==
    /\ fileEntries' = Append(fileEntries, entry)
    /\ leafId' = entry.id
    /\ flushed' = HasAssistant(fileEntries')
    /\ writing' = IF HasAssistant(fileEntries') THEN <<entry>> ELSE <<>>
    /\ nextId' = nextId + 1
    /\ UNCHANGED <<sessionFile, disk, met>>

(* flushed is set once the lines are written; a crash before that forgets  *)
(* it, so setting it with the first line makes no difference.              *)
AppendEntry(entry) ==
    /\ fileEntries' = Append(fileEntries, entry)
    /\ leafId' = entry.id
    /\ flushed' = HasAssistant(fileEntries')
    /\ writing' = IF ~HasAssistant(fileEntries') THEN <<>>
                  ELSE IF flushed THEN <<entry>> ELSE fileEntries'
    /\ nextId' = nextId + 1
    /\ UNCHANGED <<sessionFile, disk, met>>

AppendMessage(kind) ==
    /\ Ready /\ nextId \in Ids
    /\ AppendEntry(Plain(kind, nextId, leafId))
    /\ UNCHANGED labelsById

AppendLabelChange(target, label) ==
    /\ Ready /\ nextId \in Ids
    /\ target \in EntryIds(fileEntries)
    /\ AppendEntry(Label(nextId, leafId, target, label))
    /\ labelsById' = [labelsById EXCEPT ![target] = label]

(***************************************************************************)
(* Branching                                                               *)
(***************************************************************************)
(* Mutant: the entry need not exist.                                       *)
BranchUnchecked(id) ==
    /\ Ready
    /\ leafId' = id
    /\ UNCHANGED <<fileEntries, labelsById, flushed, sessionFile, writing, disk, nextId, met>>

(* branch(), and resetLeaf() for Root.                                     *)
Branch(id) ==
    /\ Ready
    /\ id \in EntryIds(fileEntries) \cup {Root}
    /\ leafId' = id
    /\ UNCHANGED <<fileEntries, labelsById, flushed, sessionFile, writing, disk, nextId, met>>

BranchWithSummary(id) ==
    /\ Ready /\ nextId \in Ids
    /\ id \in EntryIds(fileEntries) \cup {Root}
    /\ AppendEntry(Plain("message", nextId, id))
    /\ UNCHANGED labelsById

(* Mutant: the first label does not hang on the path.                      *)
LabelEntriesApart(path) ==
    LET targets == Ascending({id \in {path[n].id : n \in DOMAIN path} : labelsById[id] # NoLabel})
    IN  [n \in DOMAIN targets |-> Label(nextId + n - 1, IF n > 1 THEN nextId + n - 2 ELSE Root,
                                         targets[n], labelsById[targets[n]])]

(* The labels of the path become entries at its end.                       *)
LabelEntries(path) ==
    LET known == {path[n].id : n \in DOMAIN path}
        targets == Ascending({id \in known : labelsById[id] # NoLabel})
        before(n) == IF n > 1 THEN nextId + n - 2
                     ELSE IF path = <<>> THEN Root ELSE path[Len(path)].id
    IN  [n \in DOMAIN targets |->
           Label(nextId + n - 1, before(n), targets[n], labelsById[targets[n]])]

IndexSession(lines) ==
    /\ fileEntries' = lines
    /\ leafId' = LastId(lines)
    /\ labelsById' = LabelsOf(lines)

FollowsLabel(line) ==
    /\ line.parent \in EntryIds(fileEntries)
    /\ EntryOf(fileEntries, line.parent).kind = "label"

(* Mutant: the file is written before there is an assistant message.       *)
CreateBranchedSessionEarly(id, f) ==
    LET path == Conversation(fileEntries, id)
        lines == <<Header>> \o path \o LabelEntries(path) IN
    /\ Ready /\ Fresh(f)
    /\ id \in EntryIds(fileEntries)
    /\ nextId + Len(LabelEntries(path)) <= MaxEntries + 1
    /\ IndexSession(lines)
    /\ sessionFile' = f
    /\ nextId' = nextId + Len(LabelEntries(path))
    /\ flushed' = TRUE
    /\ disk' = Put(f, <<>>)
    /\ writing' = lines
    /\ Meet("labelled", \E n \in DOMAIN path : FollowsLabel(path[n]))

CreateBranchedSession(id, f) ==
    LET path == Conversation(fileEntries, id)
        labelEntries == LabelEntries(path)
        lines == <<Header>> \o path \o labelEntries IN
    /\ Ready /\ Fresh(f)
    /\ id \in EntryIds(fileEntries)
    /\ nextId + Len(labelEntries) <= MaxEntries + 1
    /\ IndexSession(lines)
    /\ sessionFile' = f
    /\ nextId' = nextId + Len(labelEntries)
    /\ flushed' = HasAssistant(lines)
    /\ IF HasAssistant(lines) THEN disk' = Put(f, <<>>) /\ writing' = lines
                              ELSE UNCHANGED <<disk, writing>>
    /\ Meet("labelled", \E n \in DOMAIN path : FollowsLabel(path[n]))

(***************************************************************************)
(* Opening sessions                                                        *)
(***************************************************************************)
StartSession(f) ==
    /\ IndexSession(<<Header>>)
    /\ sessionFile' = f

NewSession(f) ==
    /\ writing = <<>> /\ Fresh(f)
    /\ StartSession(f)
    /\ flushed' = FALSE
    /\ UNCHANGED <<writing, disk, nextId, met>>

(* setSessionFile(), also called by the constructor: the file is absent,   *)
(* without a header, or a session.                                         *)
OpenAbsent(f) ==
    /\ writing = <<>> /\ f \in Files \ DOMAIN disk
    /\ StartSession(f)
    /\ flushed' = FALSE
    /\ UNCHANGED <<writing, disk, nextId, met>>

(* Mutant: a session without an answer is started afresh too.              *)
OpenUnanswered(f) ==
    /\ writing = <<>> /\ Exists(f) /\ ~HasAssistant(Loaded(disk[f]))
    /\ StartSession(f)
    /\ disk' = Put(f, <<>>)
    /\ writing' = <<Header>>
    /\ flushed' = TRUE
    /\ Meet("unanswered", TRUE)
    /\ UNCHANGED nextId

OpenInvalid(f) ==
    /\ writing = <<>> /\ Exists(f) /\ ~HasHeader(disk[f])
    /\ StartSession(f)
    /\ disk' = Put(f, <<>>)
    /\ writing' = <<Header>>
    /\ flushed' = TRUE
    /\ Meet("unanswered", TRUE)
    /\ UNCHANGED nextId

OpenSession(f) ==
    /\ writing = <<>> /\ Exists(f) /\ HasHeader(disk[f])
    /\ IndexSession(Loaded(disk[f]))
    /\ sessionFile' = f
    /\ flushed' = TRUE
    /\ Meet("unanswered", ~HasAssistant(Loaded(disk[f])))
    /\ UNCHANGED <<writing, disk, nextId>>

(* forkFrom() writes the new file and opens it.                            *)
ForkFrom(source, f) ==
    LET lines == <<Header>> \o EntriesOf(Loaded(disk[source])) IN
    /\ writing = <<>> /\ Exists(source) /\ Fresh(f)
    /\ HasHeader(disk[source])
    /\ IndexSession(lines)
    /\ sessionFile' = f
    /\ disk' = Put(f, <<>>)
    /\ writing' = lines
    /\ flushed' = TRUE
    /\ Meet("unanswered", ~HasAssistant(lines))
    /\ UNCHANGED nextId

(* The process ends, between two lines or within one.                      *)
Crash ==
    /\ sessionFile # NoFile
    /\ sessionFile' = NoFile
    /\ IndexSession(<<>>)
    /\ flushed' = FALSE
    /\ writing' = <<>>
    /\ \/ UNCHANGED <<disk, met>>
       \/ /\ writing # <<>>
          /\ Meet("torn", TRUE)
          /\ disk' = Put(sessionFile, Extended(Content(sessionFile), Plain("torn", Root, Root)))
    /\ UNCHANGED nextId

Init ==
    /\ fileEntries = <<>>
    /\ leafId = Root
    /\ labelsById = [id \in Ids |-> NoLabel]
    /\ flushed = FALSE
    /\ sessionFile = NoFile
    /\ writing = <<>>
    /\ disk = [f \in EmptyFiles |-> <<>>]
    /\ nextId = 1
    /\ met = {}

Next ==
    \/ WriteLine
    \/ \E kind \in {"message", "assistant"} : AppendMessage(kind)
    \/ \E target \in Ids, label \in Labels \cup {NoLabel} : AppendLabelChange(target, label)
    \/ \E id \in Ids \cup {Root} : Branch(id)
    \/ \E id \in Ids \cup {Root} : BranchWithSummary(id)
    \/ \E id \in Ids, f \in Files : CreateBranchedSession(id, f)
    \/ \E f \in Files : NewSession(f)
    \/ \E f \in Files : OpenAbsent(f)
    \/ \E f \in Files : OpenInvalid(f)
    \/ \E f \in Files : OpenSession(f)
    \/ \E source, f \in Files : ForkFrom(source, f)
    \/ Crash

Spec == Init /\ [][Next]_vars

(***************************************************************************)
(* Properties                                                              *)
(***************************************************************************)
TypeOK ==
    /\ fileEntries \in Seq(Line)
    /\ leafId \in Ids \cup {Root}
    /\ labelsById \in [Ids -> Labels \cup {NoLabel}]
    /\ flushed \in BOOLEAN
    /\ sessionFile \in Files \cup {NoFile}
    /\ writing \in Seq(Line)
    /\ DOMAIN disk \subseteq Files
    /\ \A f \in DOMAIN disk : disk[f] \in Seq(Line)
    /\ nextId \in 1..(MaxEntries + 1)

(* The path of every entry and of the leaf leads back to a root: a parent  *)
(* is an older entry of the same session.                                  *)
PathsReachARoot ==
    LET ids == EntryIds(fileEntries) IN
    met \cap {"torn", "labelled"} = {} =>
        /\ leafId \in ids \cup {Root}
        /\ \A n \in DOMAIN fileEntries : IsEntry(fileEntries[n]) =>
             /\ fileEntries[n].parent \in ids \cup {Root}
             /\ fileEntries[n].parent < fileEntries[n].id

(* Once a session has an assistant message, opening its file again gives   *)
(* the session that is in memory.                                          *)
AnsweredSessionsAreDurable ==
    Ready /\ HasAssistant(fileEntries) /\ met \cap {"torn", "unanswered"} = {} =>
        Loaded(Content(sessionFile)) = fileEntries

WellFormed(content) ==
    LET lines == Parsed(content) IN
    \A n, m \in DOMAIN lines :
        /\ lines[n].kind = "session" <=> n = 1
        /\ lines[n].id = lines[m].id => n = m

(* A file has at most one header, its first line, and no id twice, until a *)
(* file without an answer is opened.                                       *)
FilesAreWellFormed ==
    "unanswered" \notin met => \A f \in DOMAIN disk : WellFormed(disk[f])

(* The entries a reader of the file finds.                                 *)
Persisted(content) ==
    IF HasHeader(content) THEN {content[n] : n \in EntryAt(content)}
                          ELSE {}

(* No call, crash or recovery takes a written entry away from its file.    *)
NothingPersistedIsLost ==
    [][\A f \in DOMAIN disk :
         f \in DOMAIN disk' /\ Persisted(disk[f]) \subseteq Persisted(disk'[f])]_disk

(* Extracting a branch keeps its conversation and its labels.              *)
Extracted(id) ==
    LET path == Conversation(fileEntries, id) IN
    /\ Conversation(fileEntries', leafId') = path
    /\ \A n \in DOMAIN path : labelsById'[path[n].id] = labelsById[path[n].id]
ExtractedBranchIsThePath ==
    [][\A id \in Ids : CreateBranchedSession(id, sessionFile') => Extracted(id)]_sessionFile
UnlabelledBranchIsThePath ==
    [][\A id \in Ids :
         CreateBranchedSession(id, sessionFile') /\ "labelled" \notin met' => Extracted(id)]_sessionFile
=============================================================================
