---------------------------- MODULE ResumeEditing ----------------------------
(***************************************************************************)
(* The text of one resume (resume-worker: resume-editing.service.ts and    *)
(* resume-versioning.service.ts): edits, undo and redo, versions and       *)
(* rollbacks, and the operations that rewrite the text past the stacks     *)
(* (template, order of the sections, formatting, tailoring).               *)
(*                                                                         *)
(* Every handler loads the document with an await, computes, and saves     *)
(* with another; the stacks live in the memory of the worker and change    *)
(* between the two.  Handlers of several requests interleave at each       *)
(* await.  save() writes only the paths the handler changed: the text when *)
(* it differs from what was loaded, $push for a version.                   *)
(*                                                                         *)
(* A text is a member of Contents, chosen freely for what an edit makes of *)
(* the text it was given.  clearStacks is called by nothing and left out;  *)
(* the resume is there throughout.                                         *)
(***************************************************************************)
EXTENDS Naturals, Sequences

CONSTANTS
  Editors,       \* the requests that may be under way together
  Contents,      \* the texts
  FirstContent,  \* the text the resume is created with
  StackLimit,    \* 50 in the code
  MaxCalls,        \* bound: calls made when some overlap or fail
  MaxSerialCalls,  \* bound: calls made one after the other
  Absent         \* `undefined`, what pop() gives of an empty stack

ASSUME EditingAssumption == StackLimit \in Nat /\ FirstContent \in Contents

VARIABLES
  latexContent,    \* the text stored
  currentVersion,  \* its version number stored
  versions,        \* the versions stored, oldest first
  undoStack,       \* texts, newest last
  redoStacks,      \* every array that was the redo stack; the last one is
  editing,         \* request -> what it is doing
  calls,           \* calls made
  history          \* what the document went through, for the properties

editingVars == <<latexContent, currentVersion, versions, undoStack, redoStacks,
                 editing, calls, history>>

Call(kind, stage, read, write) ==
  [kind |-> kind, stage |-> stage, held |-> 0, read |-> read, write |-> write, number |-> 0]
NoEdit == Call("none", "none", Absent, Absent)

Kinds == {"edit", "versionedEdit", "undo", "redo", "rollback", "restyle"}

EditingInit ==
  /\ latexContent = FirstContent
  /\ currentVersion = 1
  /\ versions = <<[number |-> 1, content |-> FirstContent]>>
  /\ undoStack = <<>>
  /\ redoStacks = << <<>> >>
  /\ editing = [p \in Editors |-> NoEdit]
  /\ calls = 0
  /\ history = [timeline |-> <<FirstContent>>, cursor |-> 1, undone |-> 0, serial |-> TRUE]

Idle(p) == editing[p].kind = "none"
AllIdle == \A p \in Editors : Idle(p)

redoStack == redoStacks[Len(redoStacks)]

Newest(s) == IF Len(s) > StackLimit THEN Tail(s) ELSE s
Popped(s) == IF s = <<>> THEN s ELSE SubSeq(s, 1, Len(s) - 1)
Top(s) == IF s = <<>> THEN Absent ELSE s[Len(s)]

\* A call starts: calls that overlap are no longer serial.
Starts(p, call) ==
  /\ Idle(p)
  /\ calls < IF history.serial /\ AllIdle THEN MaxSerialCalls ELSE MaxCalls
  /\ editing' = [editing EXCEPT ![p] = call]
  /\ calls' = calls + 1
  /\ history' = [history EXCEPT !.serial = @ /\ AllIdle]

\* A call ends without a save: whatever it did to the stacks stays.
Fails(p) ==
  /\ editing' = [editing EXCEPT ![p] = NoEdit]
  /\ history' = [history EXCEPT !.serial = FALSE]

\* Mutated form: an edit keeps what can be redone.
PushToUndoStackOnly(content) ==
  /\ undoStack' = Newest(Append(undoStack, content))
  /\ redoStacks' = redoStacks

\* pushToUndoStack: the redo stack is a new, empty array.
PushToUndoStack(content) ==
  /\ undoStack' = Newest(Append(undoStack, content))
  /\ redoStacks' = Append(redoStacks, <<>>)

\* applyEdit, up to its first await.
ReadForEdit(p, versioned) ==
  /\ Starts(p, Call(IF versioned THEN "versionedEdit" ELSE "edit", "loaded", latexContent, Absent))
  /\ UNCHANGED <<latexContent, currentVersion, versions, undoStack, redoStacks>>

\* The text loaded goes on the undo stack; then the operation makes a text of
\* it, or throws because its positions are missing.
ApplyEdit(p) ==
  /\ editing[p].stage = "loaded" /\ editing[p].kind \in {"edit", "versionedEdit"}
  /\ PushToUndoStack(editing[p].read)
  /\ \/ \E newContent \in Contents :
          /\ editing' = [editing EXCEPT ![p] = [@ EXCEPT !.write = newContent, !.stage =
                            IF editing[p].kind = "versionedEdit" THEN "versioning" ELSE "saving"]]
          /\ UNCHANGED history
     \/ Fails(p)
  /\ UNCHANGED <<latexContent, currentVersion, versions, calls>>

\* Mutated form: the number comes from the versions stored.
ReadForVersionByCount(p) ==
  /\ editing[p].stage = "versioning"
  /\ editing' = [editing EXCEPT ![p].stage = "saving", ![p].read = latexContent,
                                ![p].number = Len(versions) + 1]
  /\ UNCHANGED <<latexContent, currentVersion, versions, undoStack, redoStacks, calls, history>>

\* createVersion loads the document again.
ReadForVersion(p) ==
  /\ editing[p].stage = "versioning"
  /\ editing' = [editing EXCEPT ![p] =
                   [@ EXCEPT !.read = latexContent, !.stage = "saving", !.number = currentVersion + 1]]
  /\ UNCHANGED <<latexContent, currentVersion, versions, undoStack, redoStacks, calls, history>>

\* undo and redo look at their stack before they load the document ...
StartUndo(p) ==
  /\ undoStack # <<>>
  /\ Starts(p, Call("undo", "asked", Absent, Absent))
  /\ UNCHANGED <<latexContent, currentVersion, versions, undoStack, redoStacks>>

StartRedo(p) ==
  /\ redoStack # <<>>
  /\ Starts(p, [Call("redo", "asked", Absent, Absent) EXCEPT !.held = Len(redoStacks)])
  /\ UNCHANGED <<latexContent, currentVersion, versions, undoStack, redoStacks>>

Load(p) ==
  /\ editing[p].stage = "asked"
  /\ editing' = [editing EXCEPT ![p] = [@ EXCEPT !.read = latexContent, !.stage = "loaded"]]
  /\ UNCHANGED <<latexContent, currentVersion, versions, undoStack, redoStacks, calls, history>>

\* ... and pop it afterwards, whatever it holds by then.
Undo(p) ==
  /\ editing[p].stage = "loaded" /\ editing[p].kind = "undo"
  /\ redoStacks' = [redoStacks EXCEPT ![Len(redoStacks)] = Newest(Append(@, editing[p].read))]
  /\ undoStack' = Popped(undoStack)
  /\ editing' = [editing EXCEPT ![p] = [@ EXCEPT !.write = Top(undoStack), !.stage = "saving"]]
  /\ UNCHANGED <<latexContent, currentVersion, versions, calls, history>>

\* pop() is of the array redo found at its start: pushToUndoStack has put
\* another one in its place.
Redo(p) ==
  /\ editing[p].stage = "loaded" /\ editing[p].kind = "redo"
  /\ undoStack' = Newest(Append(undoStack, editing[p].read))
  /\ redoStacks' = Append([redoStacks EXCEPT ![editing[p].held] = Popped(@)], <<>>)
  /\ editing' = [editing EXCEPT ![p] =
                   [@ EXCEPT !.write = Top(redoStacks[editing[p].held]), !.stage = "saving"]]
  /\ UNCHANGED <<latexContent, currentVersion, versions, calls, history>>

\* rollbackToVersion takes the first version of the number.
VersionContent(n) ==
  LET i == CHOOSE i \in DOMAIN versions :
             versions[i].number = n /\ \A j \in 1..(i - 1) : versions[j].number # n
  IN versions[i].content

ReadForRollback(p) ==
  /\ \E n \in {versions[i].number : i \in DOMAIN versions} :
       Starts(p, Call("rollback", "versioning", Absent, VersionContent(n)))
  /\ UNCHANGED <<latexContent, currentVersion, versions, undoStack, redoStacks>>

\* applyTemplate, reorderSections, updateFormatting, applySuggestedSwaps.
Restyle(p) ==
  /\ \E newContent \in Contents : Starts(p, Call("restyle", "saving", latexContent, newContent))
  /\ UNCHANGED <<latexContent, currentVersion, versions, undoStack, redoStacks>>

\* What a call does to the timeline: an edit drops what was undone and goes on
\* from there, undo and redo walk along it, the other calls rewrite the text
\* where it stands.  StackLimit texts before the current one are remembered.
Recorded(h, call) ==
  LET past == SubSeq(h.timeline, 1, h.cursor)
      grown == IF h.cursor > StackLimit THEN Tail(past) ELSE past
      future == SubSeq(h.timeline, h.cursor + 1, Len(h.timeline))
  IN CASE call.kind \in {"edit", "versionedEdit"} ->
            [h EXCEPT !.timeline = Append(grown, call.write), !.cursor = Len(grown) + 1, !.undone = 0]
       [] call.kind = "undo" -> [h EXCEPT !.cursor = @ - 1, !.undone = @ + 1]
       [] call.kind = "redo" ->
            [h EXCEPT !.timeline = grown \o future, !.cursor = Len(grown) + 1, !.undone = 0]
       [] OTHER -> [h EXCEPT !.timeline[h.cursor] = call.write]

\* An absent text is refused: the schema requires one.
SaveResume(p) ==
  LET call == editing[p] IN
  /\ call.stage = "saving" /\ call.write # Absent
  /\ latexContent' = IF call.write # call.read THEN call.write ELSE latexContent
  /\ currentVersion' = IF call.number > 0 THEN call.number ELSE currentVersion
  /\ versions' = IF call.number > 0
                 THEN Append(versions, [number |-> call.number, content |-> call.write])
                 ELSE versions
  /\ editing' = [editing EXCEPT ![p] = NoEdit]
  /\ history' = IF history.serial THEN Recorded(history, call) ELSE history
  /\ UNCHANGED <<undoStack, redoStacks, calls>>

SaveResumeFails(p) ==
  /\ editing[p].stage = "saving"
  /\ Fails(p)
  /\ UNCHANGED <<latexContent, currentVersion, versions, undoStack, redoStacks, calls>>

EditingNext ==
  \E p \in Editors :
    \/ \E versioned \in BOOLEAN : ReadForEdit(p, versioned)
    \/ ApplyEdit(p) \/ ReadForVersion(p)
    \/ StartUndo(p) \/ StartRedo(p) \/ Load(p) \/ Undo(p) \/ Redo(p)
    \/ ReadForRollback(p) \/ Restyle(p)
    \/ SaveResume(p) \/ SaveResumeFails(p)

EditingSpec == EditingInit /\ [][EditingNext]_editingVars

-----------------------------------------------------------------------------
(***************************************************************************)
(* Properties                                                              *)
(***************************************************************************)

Reversed(s) == [i \in 1..Len(s) |-> s[Len(s) + 1 - i]]

\* As long as the calls follow one another and none fails, the document and its
\* stacks are a walk along a timeline: the text is where the cursor is, undo
\* holds the texts before it, redo those undone since the last edit or redo.
TimelineIsKept ==
  history.serial /\ AllIdle =>
    /\ latexContent = history.timeline[history.cursor]
    /\ undoStack = SubSeq(history.timeline, 1, history.cursor - 1)
    /\ redoStack = Reversed(SubSeq(history.timeline, history.cursor + 1,
                                   history.cursor + history.undone))

\* Whatever overlaps and fails, version numbers have no gaps, the document's is
\* one of them, and serial calls number the versions 1, 2, 3 ...
VersionsAreNumbered ==
  LET numbers == {versions[i].number : i \in DOMAIN versions} IN
  /\ currentVersion \in numbers
  /\ \A n \in numbers : n > 1 => n - 1 \in numbers
  /\ history.serial => /\ \A i \in DOMAIN versions : versions[i].number = i
                       /\ currentVersion = Len(versions)

\* The editing of a resume is consistent: its stacks and its versions.
ResumeIsConsistent == TimelineIsKept /\ VersionsAreNumbered
=============================================================================
