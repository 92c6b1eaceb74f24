----------------------------- MODULE EditStream -----------------------------
(***************************************************************************)
(* One edit that the sidecar streams into a file:                          *)
(* provideEditStreamed of the agent provider (aideAgentProvider.ts), the   *)
(* line splitter, the StreamProcessor and the DocumentManager under it     *)
(* (convertStreamToMessage.ts).                                            *)
(*                                                                         *)
(* The sidecar sends Start with a range of lines, the new code in Deltas   *)
(* cut anywhere, and End.  Each request is handled on its own and awaits   *)
(* every line it writes.  With apply_directly the await is a call to the   *)
(* workbench, and the next request may run meanwhile; otherwise the edits  *)
(* go out on the response stream and the handler runs through.             *)
(*                                                                         *)
(* A line is a sequence of tokens: Newline ends it, Fence is ```, Indent   *)
(* one level of indentation, everything else is text.  Line numbers start  *)
(* at 0, as in the code.                                                   *)
(***************************************************************************)
EXTENDS Integers, Sequences, FiniteSets

CONSTANTS
    File,       \* the lines of the file before the edit
    Tokens,     \* what deltas are made of
    Requests,   \* slots for requests under way together
    MaxTokens,  \* bound: tokens sent in all
    MaxDelta    \* bound: tokens in one delta

Newline == "n"
Fence == "f"
Indent == "i"

NoEdit == [lines |-> <<>>]
Idle == [event |-> "none", pc |-> "idle"]

ASSUME StreamAssumption ==
    /\ {Newline, Fence, Indent} \subseteq Tokens
    /\ File \in Seq(Seq(Tokens \cup STRING)) /\ File # <<>>
    /\ Idle \notin Requests
    /\ {MaxTokens, MaxDelta} \subseteq Nat

VARIABLES
    applyDirectly,  \* apply_directly of the requests
    overlapping,    \* the sidecar sends a Delta without awaiting the last
    onDisk,         \* "present", "missing" or "unreadable"
    responseStream, \* whether the exchange's response stream is open
    phase,          \* of the sidecar: "new", "streaming", "ending", "over"
    sent,           \* all tokens that reached the splitter
    editsMap,       \* the entry of this edit, or NoEdit
    handlers,       \* [Requests -> the handler, or Idle]
    wire,           \* edits and saves on their way to the workbench
    saving,         \* a save not ordered with the edits is under way
    document,       \* the lines of the document
    saved,          \* the lines of the file on disk
    begun,          \* document, first and last line when the edit started
    ended           \* whether End was answered with success

modeVars == <<applyDirectly, overlapping, onDisk>>
vars == <<modeVars, responseStream, phase, sent, editsMap, handlers, wire,
          saving, document, saved, begun, ended>>

-----------------------------------------------------------------------------
(* Text *)

Min2(a, b) == IF a < b THEN a ELSE b

\* The newlines among the first i tokens, and the place of the k-th newline: the
\* places 0, 1, ... with fewer than k newlines up to them come before it.
NewlinesTo(text, i) == Cardinality({j \in 1 .. i : text[j] = Newline})
LineEnd(text, k) ==
    Cardinality({i \in 0 .. Len(text) : NewlinesTo(text, i) < k})

\* The complete lines of a text, and what follows its last newline.
LineNumber(text) == NewlinesTo(text, Len(text))
CompleteLines(text) ==
    [k \in 1 .. LineNumber(text) |->
        SubSeq(text, LineEnd(text, k - 1) + 1, LineEnd(text, k) - 1)]
Remainder(text) ==
    SubSeq(text, LineEnd(text, LineNumber(text)) + 1, Len(text))

IsFence(line) == line # <<>> /\ Head(line) = Fence

\* The level of a line and the line without its indentation.
IndentLevel(line) ==
    Cardinality({i \in DOMAIN line : \A j \in 1 .. i : line[j] = Indent})
Indented(level, line) ==
    [i \in 1 .. level |-> Indent] \o
        SubSeq(line, IndentLevel(line) + 1, Len(line))

\* What reindent makes of a line; below level 0, repeat throws.
CanReindent(line, delta) == line = <<>> \/ IndentLevel(line) >= delta
Reindent(line, delta) ==
    IF line = <<>> THEN <<>> ELSE Indented(IndentLevel(line) - delta, line)

\* Edits of the document, from line number `from` to line number `to`.
\* An insertion goes behind the line `from`.
Replaced(doc, from, to, line) ==
    SubSeq(doc, 1, from) \o <<line>> \o SubSeq(doc, to + 2, Len(doc))
InsertedAfter(doc, from, line) ==
    SubSeq(doc, 1, from + 1) \o <<line>> \o SubSeq(doc, from + 2, Len(doc))

-----------------------------------------------------------------------------
(* The splitter and the processor of an edit *)

\* Fault: the range is taken to end inside the document.
LineLimitOfRange(doc, range) == range.last

\* documentLineLimit, with the lines kept up to the end of the range.
LineLimit(doc, range) == Min2(range.last, Len(doc) - 1)

\* What Start puts into editsMap for a document and a range.
NewEdit(doc, range) ==
    [accumulator |-> <<>>,
     lines |-> <<>>,
     codeBlockStringFound |-> FALSE,
     previousLine |-> FALSE,
     indentDelta |-> 0,
     anchorLevel |-> IndentLevel(doc[range.first + 1]),
     firstRangeLine |-> range.first,
     documentLineIndex |-> range.first,
     documentLineLimit |-> LineLimit(doc, range),
     lineCount |-> LineLimit(doc, range) + 1,
     sentEdits |-> FALSE]

\* Fault: the fence is taken for code as well.
addDeltaWithFence(edit, delta) ==
    LET text == edit.accumulator \o delta
        new == CompleteLines(text)
        found(k) == edit.codeBlockStringFound \/ \E j \in 1 .. k : IsFence(new[j])
    IN  [edit EXCEPT
            !.accumulator = Remainder(text),
            !.lines = @ \o [k \in DOMAIN new |->
                               [line |-> new[k], inCodeBlock |-> found(k)]],
            !.codeBlockStringFound = found(Len(new))]

\* A line is code from the first fence on, which is not code itself.
addDelta(edit, delta) ==
    LET text == edit.accumulator \o delta
        new == CompleteLines(text)
        found(k) == edit.codeBlockStringFound \/ \E j \in 1 .. k - 1 : IsFence(new[j])
    IN  [edit EXCEPT
            !.accumulator = Remainder(text),
            !.lines = @ \o [k \in DOMAIN new |->
                               [line |-> new[k], inCodeBlock |-> found(k)]],
            !.codeBlockStringFound = found(Len(new) + 1)]

\* The edit of the document that processLine makes for a code line.
Operation(edit, line) ==
    IF ~edit.previousLine
    THEN [do |-> "replace", from |-> edit.firstRangeLine, to |-> edit.firstRangeLine,
          line |-> line]
    ELSE IF edit.documentLineIndex <= edit.documentLineLimit
    THEN [do |-> "replace", from |-> edit.documentLineIndex,
          to |-> edit.documentLineIndex, line |-> line]
    ELSE IF edit.sentEdits
    THEN [do |-> "insert", from |-> edit.documentLineIndex - 1, line |-> line]
    ELSE [do |-> "append", from |-> edit.lineCount - 1, line |-> line]

\* Before the await: the DocumentManager's own lines and the first indentation.
Issued(edit, line, op) ==
    [edit EXCEPT
        !.lineCount = IF op.do = "replace" THEN @ ELSE @ + 1,
        !.indentDelta = IF edit.previousLine THEN @
                        ELSE IndentLevel(line) - edit.anchorLevel,
        !.previousLine = TRUE]

\* After the await: documentLineIndex and sentEdits.
Returned(edit, op) ==
    [edit EXCEPT
        !.documentLineIndex = CASE op.do = "replace" -> op.from + 1
                                [] op.do = "insert" -> op.from + 2
                                [] op.do = "append" -> edit.lineCount,
        !.sentEdits = @ \/ op.do # "replace"]

\* Fault: the end of the range is taken as exclusive.
CleanupPastLimit(edit) ==
    IF edit.documentLineIndex <= edit.documentLineLimit
    THEN <<[do |-> "replace", from |-> edit.documentLineIndex,
            to |-> edit.documentLineLimit + 1, line |-> <<>>]>>
    ELSE <<>>

\* cleanup replaces what is left of the range by one empty line.
Cleanup(edit) ==
    IF edit.documentLineIndex <= edit.documentLineLimit
    THEN <<[do |-> "replace", from |-> edit.documentLineIndex,
            to |-> edit.documentLineLimit, line |-> <<>>]>>
    ELSE <<>>

-----------------------------------------------------------------------------
(* Requests *)

Ranges(doc) ==
    {range \in [first : 0 .. Len(doc) - 1, last : 0 .. Len(doc)] :
        range.first <= range.last}

Init ==
    /\ applyDirectly \in BOOLEAN
    /\ overlapping \in BOOLEAN /\ (overlapping => applyDirectly)
    /\ onDisk \in {"present", "missing", "unreadable"}
    /\ responseStream = TRUE
    /\ phase = "new"
    /\ sent = <<>>
    /\ editsMap = NoEdit
    /\ handlers = [r \in Requests |-> Idle]
    /\ wire = <<>>
    /\ saving = FALSE
    /\ document = IF onDisk = "present" THEN File ELSE <<<<>>>>
    /\ saved = document
    /\ begun = NoEdit
    /\ ended = FALSE

\* A handler that is not waiting for the workbench runs through, but for the
\* awaits of apply_directly: nothing else of the extension host comes between.
Free ==
    applyDirectly \/ \A r \in Requests : handlers[r] = Idle \/ handlers[r].pc = "saving"

AllAnswered == \A r \in Requests : handlers[r] = Idle

\* Handlers are alike: a new one takes the first free slot.
Slot == CHOOSE r \in Requests : handlers[r] = Idle

\* The edit goes to the response stream, and that is closed.
Refused == ~applyDirectly /\ ~responseStream

Begins(doc, range) ==
    /\ editsMap' = NewEdit(doc, range)
    /\ begun' = [document |-> doc, first |-> range.first,
                  limit |-> LineLimit(doc, range)]

\* Start: the document is opened, or created if it is not there.
startOpened ==
    /\ phase = "new" /\ ~Refused /\ onDisk = "present"
    /\ \E range \in Ranges(document) : Begins(document, range)
    /\ phase' = "streaming"
    /\ UNCHANGED <<modeVars, responseStream, sent, handlers, wire, saving,
                   document, saved, ended>>

startCreated ==
    /\ phase = "new" /\ ~Refused /\ onDisk = "missing"
    /\ onDisk' = "present"
    /\ \E range \in Ranges(document) : Begins(document, range)
    /\ phase' = "streaming"
    /\ UNCHANGED <<applyDirectly, overlapping, responseStream, sent, handlers,
                   wire, saving, document, saved, ended>>

\* Refused, or the file is there and cannot be opened, or not created.
startFailed ==
    /\ phase = "new" /\ (Refused \/ onDisk # "present")
    /\ phase' = "streaming"
    /\ UNCHANGED <<modeVars, responseStream, sent, editsMap, handlers, wire,
                   saving, document, saved, begun, ended>>

\* Delta: ignored without an entry in editsMap.
Delta(r, delta) ==
    /\ phase = "streaming" /\ Free /\ handlers[r] = Idle /\ r = Slot
    /\ overlapping \/ AllAnswered
    /\ Len(sent) + Len(delta) <= MaxTokens
    /\ IF Refused \/ editsMap = NoEdit
       THEN UNCHANGED <<sent, editsMap, handlers>>
       ELSE /\ sent' = sent \o delta
            /\ editsMap' = addDelta(editsMap, delta)
            /\ handlers' = [handlers EXCEPT ![r] = [event |-> "Delta", pc |-> "drain"]]
    /\ UNCHANGED <<modeVars, responseStream, phase, wire, saving, document,
                   saved, begun, ended>>

\* End: without an entry in editsMap it throws.
End(r) ==
    /\ phase = "streaming" /\ AllAnswered /\ r = Slot
    /\ IF Refused \/ editsMap = NoEdit
       THEN phase' = "over" /\ UNCHANGED handlers
       ELSE /\ phase' = "ending"
            /\ handlers' = [handlers EXCEPT ![r] = [event |-> "End", pc |-> "drain"]]
    /\ UNCHANGED <<modeVars, responseStream, sent, editsMap, wire, saving,
                   document, saved, begun, ended>>

-----------------------------------------------------------------------------
(* Lines *)

Answered(r) == handlers' = [handlers EXCEPT ![r] = Idle]

\* The indentation that processLine takes off the line.
DeltaOf(edit, line) ==
    IF edit.previousLine THEN edit.indentDelta
    ELSE IndentLevel(line) - edit.anchorLevel

Draining(r) == handlers[r] # Idle /\ handlers[r].pc = "drain"

\* A line before the first fence, and the fence, are not code.
skipLine(r) ==
    /\ Draining(r) /\ editsMap.lines # <<>>
    /\ ~Head(editsMap.lines).inCodeBlock
    /\ editsMap' = [editsMap EXCEPT !.lines = Tail(@)]
    /\ UNCHANGED <<modeVars, responseStream, phase, sent, handlers, wire,
                   saving, document, saved, begun, ended>>

\* The edit is sent; apply_directly awaits it.
processLine(r) ==
    /\ Draining(r) /\ editsMap.lines # <<>>
    /\ LET item == Head(editsMap.lines)
           edit == [editsMap EXCEPT !.lines = Tail(@)]
           delta == DeltaOf(edit, item.line)
           op == Operation(edit, Reindent(item.line, delta))
       IN  /\ item.inCodeBlock
           /\ CanReindent(item.line, delta)
           /\ wire' = Append(wire, [by |-> r, op |-> op])
           /\ IF applyDirectly
              THEN /\ editsMap' = Issued(edit, item.line, op)
                   /\ handlers' = [handlers EXCEPT ![r].pc = "await"]
              ELSE /\ editsMap' = Returned(Issued(edit, item.line, op), op)
                   /\ UNCHANGED handlers
    /\ UNCHANGED <<modeVars, responseStream, phase, sent, saving, document,
                   saved, begun, ended>>

\* The line is gone from the splitter, the request fails.
processLineThrows(r) ==
    /\ Draining(r) /\ editsMap.lines # <<>>
    /\ LET item == Head(editsMap.lines)
       IN  item.inCodeBlock /\ ~CanReindent(item.line, DeltaOf(editsMap, item.line))
    /\ editsMap' = [editsMap EXCEPT !.lines = Tail(@)]
    /\ Answered(r)
    /\ phase' = IF handlers[r].event = "End" THEN "over" ELSE phase
    /\ UNCHANGED <<modeVars, responseStream, sent, wire, saving, document,
                   saved, begun, ended>>

deltaEnds(r) ==
    /\ Draining(r) /\ editsMap.lines = <<>> /\ handlers[r].event = "Delta"
    /\ Answered(r)
    /\ UNCHANGED <<modeVars, responseStream, phase, sent, editsMap, wire,
                   saving, document, saved, begun, ended>>

Save(r) == <<[by |-> r, op |-> [do |-> "save"]]>>
Unawaited(ops) == [k \in DOMAIN ops |-> [by |-> Idle, op |-> ops[k]]]

\* Fault: the file is saved before the rest of the range is cleaned up.
endSavesFirst(r) ==
    /\ Draining(r) /\ editsMap.lines = <<>> /\ handlers[r].event = "End"
    /\ wire' = wire \o (IF applyDirectly THEN Save(r) ELSE <<>>)
                    \o Unawaited(Cleanup(editsMap))
    /\ saving' = ~applyDirectly
    /\ handlers' = [handlers EXCEPT ![r].pc = "saving"]
    /\ UNCHANGED <<modeVars, responseStream, phase, sent, editsMap, document,
                   saved, begun, ended>>

\* All lines are drained: cleanup, not awaited, and the save.  The save follows
\* the edits of apply_directly on one channel; edits of a response stream wait
\* in the editing session while the save goes ahead.
endDrained(r) ==
    /\ Draining(r) /\ editsMap.lines = <<>> /\ handlers[r].event = "End"
    /\ wire' = wire \o Unawaited(Cleanup(editsMap))
                    \o (IF applyDirectly THEN Save(r) ELSE <<>>)
    /\ saving' = ~applyDirectly
    /\ handlers' = [handlers EXCEPT ![r].pc = "saving"]
    /\ UNCHANGED <<modeVars, responseStream, phase, sent, editsMap, document,
                   saved, begun, ended>>

-----------------------------------------------------------------------------
(* The workbench (external) *)

\* Edits are applied in the order they were sent; the handler goes on.
applyEdit ==
    /\ wire # <<>> /\ Head(wire).op.do # "save"
    /\ LET op == Head(wire).op
           by == Head(wire).by
       IN  /\ document' = IF op.do = "replace"
                          THEN Replaced(document, op.from, op.to, op.line)
                          ELSE InsertedAfter(document, op.from, op.line)
           /\ IF applyDirectly /\ by # Idle
              THEN /\ editsMap' = Returned(editsMap, op)
                   /\ handlers' = [handlers EXCEPT ![by].pc = "drain"]
              ELSE UNCHANGED <<editsMap, handlers>>
    /\ wire' = Tail(wire)
    /\ UNCHANGED <<modeVars, responseStream, phase, sent, saving, saved, begun,
                   ended>>

\* The entry of the edit is deleted and End answered.
Saved(r) ==
    /\ saved' = document
    /\ editsMap' = NoEdit
    /\ Answered(r)
    /\ phase' = "over"
    /\ ended' = TRUE

saveOrdered ==
    /\ wire # <<>> /\ Head(wire).op.do = "save"
    /\ Saved(Head(wire).by)
    /\ wire' = Tail(wire)
    /\ UNCHANGED <<modeVars, responseStream, sent, saving, document, begun>>

saveUnordered(r) ==
    /\ saving /\ handlers[r] # Idle
    /\ Saved(r)
    /\ saving' = FALSE
    /\ UNCHANGED <<modeVars, responseStream, sent, wire, document, begun>>

\* The exchange ends or is cancelled, and its stream is closed.
closeStream ==
    /\ ~applyDirectly /\ Free /\ responseStream
    /\ responseStream' = FALSE
    /\ UNCHANGED <<modeVars, phase, sent, editsMap, handlers, wire, saving,
                   document, saved, begun, ended>>

-----------------------------------------------------------------------------
(* Specification *)

Deltas == UNION {[1 .. n -> Tokens] : n \in 1 .. MaxDelta}

Step(r) ==
    \/ skipLine(r) \/ processLine(r) \/ processLineThrows(r)
    \/ deltaEnds(r) \/ endDrained(r) \/ saveUnordered(r)

Next ==
    \/ startOpened \/ startCreated \/ startFailed
    \/ \E r \in Requests :
        \/ \E delta \in Deltas : Delta(r, delta)
        \/ End(r)
        \/ Step(r)
    \/ applyEdit \/ saveOrdered \/ closeStream

Spec == Init /\ [][Next]_vars

-----------------------------------------------------------------------------
(* What an edit should come to *)

\* The code in all that was sent: the complete lines behind the first fence.
CodeLines(text) ==
    LET lines == CompleteLines(text)
        fences == {k \in DOMAIN lines : IsFence(lines[k])}
    IN  IF fences = {} THEN <<>>
        ELSE SubSeq(lines, 1 + CHOOSE k \in fences : \A j \in fences : k <= j,
                    Len(lines))

Before == SubSeq(begun.document, 1, begun.first)
Behind == SubSeq(begun.document, begun.limit + 2, Len(begun.document))

\* The range becomes the code lines, all shifted as the first one to the
\* indentation of the line it replaces, and one empty line if they are fewer
\* than the range had.  Lines that would be shifted below level 0 are missing.
Expected ==
    LET code == CodeLines(sent)
        delta == IndentLevel(code[1])
                    - IndentLevel(begun.document[begun.first + 1])
        kept == SelectSeq(code, LAMBDA line : CanReindent(line, delta))
        rest == IF begun.first + Len(kept) <= begun.limit
                THEN <<<<>>>> ELSE <<>>
    IN  Before \o [k \in DOMAIN kept |-> Reindent(kept[k], delta)] \o rest \o Behind

-----------------------------------------------------------------------------
(* Properties *)

TypeOK ==
    /\ {applyDirectly, overlapping, responseStream, saving, ended} \subseteq BOOLEAN
    /\ onDisk \in {"present", "missing", "unreadable"}
    /\ phase \in {"new", "streaming", "ending", "over"}
    /\ \A k \in DOMAIN sent : sent[k] \in Tokens
    /\ handlers \in [Requests ->
            {Idle} \cup [event : {"Delta", "End"}, pc : {"drain", "await", "saving"}]]
    /\ editsMap # NoEdit =>
            /\ editsMap.documentLineIndex \in Nat
            /\ editsMap.documentLineLimit \in 0 .. Len(begun.document) - 1
            /\ editsMap.lineCount \in Nat
            /\ editsMap.indentDelta \in Int

\* "restrict the document to the end position of the range": whatever the
\* deltas, and although overlapping requests work with line numbers that
\* another one is about to move, the lines before and behind the range stay as
\* they were, at every moment.
OutsideUntouched ==
    begun # NoEdit =>
        /\ Len(document) >= Len(Before) + Len(Behind)
        /\ SubSeq(document, 1, Len(Before)) = Before
        /\ SubSeq(document, Len(document) - Len(Behind) + 1, Len(document)) = Behind

\* When End succeeds and the edits have arrived, the document is what the whole
\* text says, however it was cut into deltas and whichever requests failed on
\* the way - as long as each request waited for the answer to the last.
EndsAsExpected ==
    ended /\ wire = <<>> /\ ~overlapping => document = Expected

\* "save files upon stream completion": with apply_directly, the file on disk is
\* the complete edit when End is answered, although cleanup is not awaited.
SavesTheWhole ==
    [][ended' /\ ~ended /\ applyDirectly /\ ~overlapping => saved' = Expected]_vars
=============================================================================
