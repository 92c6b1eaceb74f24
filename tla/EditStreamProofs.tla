-------------------------- MODULE EditStreamProofs --------------------------
(***************************************************************************)
(* Proofs about EditStream: its types, and that the lines outside the      *)
(* range of an edit stay as they were, for every file, every text and any  *)
(* number of requests under way together.                                  *)
(*                                                                         *)
(* The lines behind the range move while lines are inserted, and requests  *)
(* work with line numbers taken before the edits in the wire arrive.  The  *)
(* inductive invariant therefore follows the room of the edit, the number  *)
(* of lines before those behind the range, through the wire: each edit     *)
(* fits into the room it finds when its turn comes, and what is left after *)
(* the last one is the lineCount of the DocumentManager.  That holds until *)
(* cleanup, which leaves less than lineCount and after which nothing may   *)
(* be sent: at that time no other request is under way.                    *)
(***************************************************************************)
EXTENDS EditStream, FiniteSetTheorems, TLAPS

Line == Seq(Tokens \cup STRING)

Item == [line : Seq(Tokens), inCodeBlock : BOOLEAN]

Edit ==
    [accumulator : Seq(Tokens), lines : Seq(Item),
     codeBlockStringFound : BOOLEAN, previousLine : BOOLEAN,
     indentDelta : Int, anchorLevel : Nat, firstRangeLine : Nat,
     documentLineIndex : Nat, documentLineLimit : Nat, lineCount : Nat,
     sentEdits : BOOLEAN]

Start == [document : Seq(Line), first : Nat, limit : Nat]

Op ==
    [do : {"replace"}, from : Nat, to : Nat, line : Line]
        \cup [do : {"insert", "append"}, from : Nat, line : Line]
        \cup [do : {"save"}]

Sent == [by : Requests \cup {Idle}, op : Op]

Handler == [event : {"Delta", "End"}, pc : {"drain", "await", "saving"}]

Types ==
    /\ applyDirectly \in BOOLEAN /\ overlapping \in BOOLEAN
    /\ responseStream \in BOOLEAN /\ saving \in BOOLEAN /\ ended \in BOOLEAN
    /\ onDisk \in {"present", "missing", "unreadable"}
    /\ phase \in {"new", "streaming", "ending", "over"}
    /\ sent \in Seq(Tokens)
    /\ editsMap \in Edit \cup {NoEdit}
    /\ handlers \in [Requests -> Handler \cup {Idle}]
    /\ wire \in Seq(Sent)
    /\ document \in Seq(Line) /\ document # <<>>
    /\ begun \in Start \cup {NoEdit}

-----------------------------------------------------------------------------
(* Which requests are under way *)

IsSaving(r) == handlers[r] # Idle /\ handlers[r].pc = "saving"

\* Requests live in the phase they belong to, and End is alone.
Phases ==
    /\ phase = "new" =>
          /\ wire = <<>> /\ editsMap = NoEdit /\ begun = NoEdit
          /\ document = IF onDisk = "present" THEN File ELSE <<<<>>>>
    /\ \A r \in Requests : handlers[r] # Idle =>
          /\ editsMap # NoEdit
          /\ phase = IF handlers[r].event = "End" THEN "ending" ELSE "streaming"
          /\ handlers[r].pc = "saving" => handlers[r].event = "End"
    /\ \A q, r \in Requests :
          handlers[q] # Idle /\ handlers[r] # Idle /\ handlers[r].event = "End"
             => q = r
    /\ saving => ~applyDirectly /\ \E r \in Requests : IsSaving(r)

\* A request awaits the one edit it has in the wire, End the save.
Awaited ==
    /\ \A k \in DOMAIN wire : wire[k].op.do = "save" =>
          /\ applyDirectly /\ k = Len(wire)
          /\ wire[k].by \in Requests /\ IsSaving(wire[k].by)
    /\ applyDirectly => \A k \in DOMAIN wire :
          wire[k].op.do # "save" /\ wire[k].by # Idle =>
             /\ handlers[wire[k].by] # Idle /\ handlers[wire[k].by].pc = "await"
             /\ \A j \in DOMAIN wire :
                   wire[j].op.do # "save" /\ wire[j].by = wire[k].by => j = k

\* The entry of the edit, and cleanup not yet on its way.
Editing == editsMap # NoEdit /\ \A r \in Requests : ~IsSaving(r)

\* The numbers of an edit, and the range it was started with.
Within(edit) ==
    /\ edit.firstRangeLine = begun.first
    /\ edit.documentLineLimit = begun.limit
    /\ begun.first <= edit.documentLineIndex
    /\ edit.documentLineIndex <= edit.lineCount
    /\ begun.limit < edit.lineCount

Numbers ==
    /\ begun # NoEdit =>
          begun.first <= begun.limit /\ begun.limit < Len(begun.document)
    /\ editsMap # NoEdit => begun # NoEdit /\ Within(editsMap)
    /\ wire # <<>> => begun # NoEdit
    /\ Editing => \A k \in DOMAIN wire :
          wire[k].op.do \in {"insert", "append"} =>
             wire[k].op.from + 2 <= editsMap.lineCount

-----------------------------------------------------------------------------
(* The room of the edit *)

\* An edit of the range that finds this room leaves that.
Fits(op, room, left) ==
    \/ op.do = "save" /\ left = room
    \/ /\ op.do = "replace"
       /\ begun.first <= op.from /\ op.from <= op.to
       /\ op.to <= begun.limit /\ op.to < room
       /\ left + op.to = room + op.from
    \/ /\ op.do \in {"insert", "append"}
       /\ begun.first <= op.from /\ op.from < room
       /\ left = room + 1

LinesBehind == Len(begun.document) - begun.limit - 1

\* The lines outside the range, if the edit has this room.
Apart(room) ==
    /\ begun.first < room
    /\ Len(document) = room + LinesBehind
    /\ \A i \in 1 .. begun.first : document[i] = begun.document[i]
    /\ \A i \in 1 .. LinesBehind :
          document[room + i] = begun.document[begun.limit + 1 + i]

\* The edits of a wire, one after the other, leave n lines.
Follows(w, room, n) ==
    /\ room \in [1 .. Len(w) + 1 -> Nat]
    /\ Apart(room[1])
    /\ \A k \in 1 .. Len(w) : Fits(w[k].op, room[k], room[k + 1])
    /\ room[Len(w) + 1] = n

Leaves(w, n) == \E room : Follows(w, room, n)

Rooms ==
    begun # NoEdit =>
        \E n \in Nat : Leaves(wire, n) /\ (Editing => n = editsMap.lineCount)

Inv == Types /\ Phases /\ Awaited /\ Numbers /\ Rooms

-----------------------------------------------------------------------------
(* Text *)

\* Counting places of a text.
LEMMA Places ==
    ASSUME NEW m \in Int, NEW n \in Int, m <= n + 1, NEW S \in SUBSET (m .. n)
    PROVE  Cardinality(S) \in 0 .. n - m + 1
<1>1. IsFiniteSet(m .. n) /\ Cardinality(m .. n) = n - m + 1
    BY FS_Interval
<1>2. IsFiniteSet(S) /\ Cardinality(S) <= n - m + 1
    BY <1>1, FS_Subset, Zenon
<1> QED  BY <1>2, FS_CardinalityType

\* The place of a newline, and the number of lines.
LEMMA LineEndPlace ==
    ASSUME NEW T, NEW text \in Seq(T), NEW k \in Int
    PROVE  /\ LineEnd(text, k) \in 0 .. Len(text) + 1
           /\ LineNumber(text) \in Nat
<1> DEFINE P == {i \in 0 .. Len(text) : NewlinesTo(text, i) < k}
           Q == {j \in 1 .. Len(text) : text[j] = Newline}
<1>1. /\ LineEnd(text, k) = Cardinality(P) /\ P \in SUBSET (0 .. Len(text))
      /\ LineNumber(text) = Cardinality(Q) /\ Q \in SUBSET (1 .. Len(text))
    BY Zenon DEF LineEnd, LineNumber, NewlinesTo
<1>2. /\ Len(text) \in Nat /\ Len(text) \in Int /\ 0 \in Int /\ 1 \in Int
      /\ 0 <= Len(text) + 1 /\ 1 <= Len(text) + 1
    OBVIOUS
<1> HIDE DEF P, Q
<1>3. /\ Cardinality(P) \in 0 .. Len(text) - 0 + 1
      /\ Cardinality(Q) \in 0 .. Len(text) - 1 + 1
    BY <1>1, <1>2, Places, Zenon
<1> QED  BY <1>1, <1>2, <1>3

\* A part of a text is a text.
LEMMA PartOfText ==
    ASSUME NEW T, NEW text \in Seq(T),
           NEW m \in Int, NEW n \in Int, 1 <= m, n <= Len(text)
    PROVE  SubSeq(text, m, n) \in Seq(T)
<1>1. \A i \in m .. n : text[i] \in T
    OBVIOUS
<1> QED  BY <1>1

\* What the splitter makes of a text.
LEMMA LinesOfText ==
    ASSUME NEW T, NEW text \in Seq(T)
    PROVE  CompleteLines(text) \in Seq(Seq(T)) /\ Remainder(text) \in Seq(T)
<1>1. ASSUME NEW k \in 1 .. LineNumber(text)
      PROVE  SubSeq(text, LineEnd(text, k - 1) + 1, LineEnd(text, k) - 1) \in Seq(T)
  <2>1. /\ LineEnd(text, k - 1) \in 0 .. Len(text) + 1
        /\ LineEnd(text, k) \in 0 .. Len(text) + 1
      BY LineEndPlace, k \in Int, k - 1 \in Int, Zenon
  <2>2. /\ LineEnd(text, k - 1) + 1 \in Int /\ 1 <= LineEnd(text, k - 1) + 1
        /\ LineEnd(text, k) - 1 \in Int /\ LineEnd(text, k) - 1 <= Len(text)
      BY <2>1, Len(text) \in Nat
  <2> QED  BY <2>2, PartOfText, Zenon
<1>2. LineNumber(text) \in Nat
    BY LineEndPlace, 0 \in Int, Zenon
<1>3. CompleteLines(text) \in [1 .. LineNumber(text) -> Seq(T)]
    BY <1>1, Zenon DEF CompleteLines
<1>4. CompleteLines(text) \in Seq(Seq(T))
    BY <1>2, <1>3
<1>5. LineEnd(text, LineNumber(text)) \in 0 .. Len(text) + 1
    BY <1>2, LineEndPlace
<1>6. Remainder(text) \in Seq(T)
    BY <1>5, PartOfText, Len(text) \in Nat DEF Remainder
<1> QED  BY <1>4, <1>6, Zenon

\* The level of a line is at most its length.
LEMMA LevelOfLine ==
    ASSUME NEW T, NEW line \in Seq(T)
    PROVE  IndentLevel(line) \in 0 .. Len(line)
<1> DEFINE P == {i \in DOMAIN line : \A j \in 1 .. i : line[j] = Indent}
<1>1. IndentLevel(line) = Cardinality(P) /\ P \in SUBSET (1 .. Len(line))
    BY DEF IndentLevel
<1>2. Len(line) \in Nat /\ Len(line) \in Int /\ 1 \in Int /\ 1 <= Len(line) + 1
    OBVIOUS
<1> HIDE DEF P
<1>3. Cardinality(P) \in 0 .. Len(line) - 1 + 1
    BY <1>1, <1>2, Places, Zenon
<1> QED  BY <1>1, <1>2, <1>3

\* A line that can be shifted becomes a line.
LEMMA LineReindented ==
    ASSUME NEW line \in Seq(Tokens), NEW delta \in Int, CanReindent(line, delta)
    PROVE  Reindent(line, delta) \in Line
<1>1. CASE line = <<>>
    BY <1>1 DEF Reindent, Line
<1>2. CASE line # <<>>
  <2> DEFINE level == IndentLevel(line) - delta
  <2>1. IndentLevel(line) \in 0 .. Len(line)
      BY LevelOfLine, Zenon
  <2>2. level \in Nat
      BY <1>2, <2>1 DEF CanReindent
  <2>3. SubSeq(line, IndentLevel(line) + 1, Len(line)) \in Seq(Tokens)
      BY <2>1, PartOfText, Len(line) \in Nat
  <2>4. Indent \in Tokens
      BY StreamAssumption, Zenon
  <2>5. [i \in 1 .. level |-> Indent] \in [1 .. level -> Tokens]
      BY <2>4, Zenon
  <2>6. [i \in 1 .. level |-> Indent] \in Seq(Tokens)
      BY <2>2, <2>5
  <2>7. Indented(level, line) \in Seq(Tokens)
      BY <2>3, <2>6 DEF Indented
  <2>8. Reindent(line, delta) \in Seq(Tokens)
      BY <1>2, <2>7, Zenon DEF Reindent
  <2> QED  BY <2>8 DEF Line
<1> QED  BY <1>1, <1>2, Zenon

-----------------------------------------------------------------------------
(* The entry of the edit *)

\* An entry, or a start, is not the lack of one.
LEMMA NoEditApart == NoEdit \notin Edit /\ NoEdit \notin Start
<1>1. DOMAIN NoEdit = {"lines"}
    BY Zenon DEF NoEdit
<1>2. \A e \in Edit : "lineCount" \in DOMAIN e
    BY Zenon DEF Edit
<1>3. \A e \in Start : "limit" \in DOMAIN e
    BY Zenon DEF Start
<1> QED  BY <1>1, <1>2, <1>3, Zenon

\* A handler under way is not idle.
LEMMA IdleApart == Idle \notin Handler
    BY Zenon DEF Idle, Handler

\* A delta brings lines, and leaves where they go.
LEMMA DeltaAdded ==
    ASSUME NEW edit \in Edit, NEW delta \in Seq(Tokens)
    PROVE  /\ addDelta(edit, delta) \in Edit
           /\ addDelta(edit, delta).firstRangeLine = edit.firstRangeLine
           /\ addDelta(edit, delta).documentLineIndex = edit.documentLineIndex
           /\ addDelta(edit, delta).documentLineLimit = edit.documentLineLimit
           /\ addDelta(edit, delta).lineCount = edit.lineCount
<1> DEFINE text == edit.accumulator \o delta
           new == CompleteLines(text)
           found(k) == edit.codeBlockStringFound
                          \/ \E j \in 1 .. k - 1 : IsFence(new[j])
           items == [k \in DOMAIN new |->
                       [line |-> new[k], inCodeBlock |-> found(k)]]
<1>1. text \in Seq(Tokens)
    BY DEF Edit
<1>2. new \in Seq(Seq(Tokens)) /\ Remainder(text) \in Seq(Tokens)
    BY <1>1, LinesOfText, Zenon
<1>3. addDelta(edit, delta) =
        [edit EXCEPT !.accumulator = Remainder(text), !.lines = @ \o items,
                     !.codeBlockStringFound = found(Len(new) + 1)]
    BY Zenon DEF addDelta
<1>4. \A k : found(k) \in BOOLEAN
    BY Zenon DEF Edit
<1> HIDE DEF text, new, found
<1>5. DOMAIN new = 1 .. Len(new) /\ Len(new) \in Nat
        /\ \A k \in 1 .. Len(new) : new[k] \in Seq(Tokens)
    BY <1>2
<1>6. items \in [1 .. Len(new) -> Item]
    BY <1>4, <1>5, Zenon DEF Item
<1>7. items \in Seq(Item)
    BY <1>5, <1>6
<1> HIDE DEF items
<1>8. edit.lines \o items \in Seq(Item)
    BY <1>7 DEF Edit
<1>9. found(Len(new) + 1) \in BOOLEAN
    BY <1>4, Zenon
<1> QED  BY <1>2, <1>3, <1>8, <1>9, Zenon DEF Edit

\* A line is taken from the splitter.
LEMMA LineTaken ==
    ASSUME NEW edit \in Edit, edit.lines # <<>>
    PROVE  /\ [edit EXCEPT !.lines = Tail(@)] \in Edit
           /\ Head(edit.lines) \in Item
<1>1. Tail(edit.lines) \in Seq(Item) /\ Head(edit.lines) \in Item
    BY DEF Edit
<1> QED  BY <1>1, Zenon DEF Edit

\* The indentation that is taken off a line.
LEMMA ShiftOfLine ==
    ASSUME NEW edit \in Edit, NEW line \in Seq(Tokens)
    PROVE  DeltaOf(edit, line) \in Int
<1>1. IndentLevel(line) \in Int
    BY LevelOfLine, Len(line) \in Nat
<1> QED  BY <1>1 DEF DeltaOf, Edit

\* The edit that processLine makes lies in the range, or behind its last line.
LEMMA OperationFits ==
    ASSUME begun \in Start, begun.first <= begun.limit,
           NEW edit \in Edit, Within(edit), NEW line \in Line
    PROVE  LET op == Operation(edit, line)
           IN  /\ op \in Op /\ op.do # "save"
               /\ Fits(op, edit.lineCount,
                       IF op.do = "replace" THEN edit.lineCount
                       ELSE edit.lineCount + 1)
               /\ op.do \in {"insert", "append"} => op.from < edit.lineCount
<1> DEFINE op == Operation(edit, line)
<1>0. /\ begun.first \in Nat /\ begun.limit \in Nat
      /\ edit.firstRangeLine \in Nat /\ edit.documentLineIndex \in Nat
      /\ edit.documentLineLimit \in Nat /\ edit.lineCount \in Nat
      /\ edit.previousLine \in BOOLEAN /\ edit.sentEdits \in BOOLEAN
    BY Zenon DEF Start, Edit
<1>1. CASE ~edit.previousLine
  <2>1. op = [do |-> "replace", from |-> edit.firstRangeLine,
              to |-> edit.firstRangeLine, line |-> line]
      BY <1>1, Zenon DEF Operation
  <2> QED  BY <1>0, <2>1 DEF Op, Fits, Within
<1>2. CASE edit.previousLine /\ edit.documentLineIndex <= edit.documentLineLimit
  <2>1. op = [do |-> "replace", from |-> edit.documentLineIndex,
              to |-> edit.documentLineIndex, line |-> line]
      BY <1>2, Zenon DEF Operation
  <2> QED  BY <1>0, <1>2, <2>1 DEF Op, Fits, Within
<1>3. CASE /\ edit.previousLine /\ edit.sentEdits
           /\ ~(edit.documentLineIndex <= edit.documentLineLimit)
  <2>1. op = [do |-> "insert", from |-> edit.documentLineIndex - 1, line |-> line]
      BY <1>3, Zenon DEF Operation
  <2>2. edit.documentLineIndex - 1 \in Nat
      BY <1>0, <1>3
  <2> QED  BY <1>0, <1>3, <2>1, <2>2 DEF Op, Fits, Within
<1>4. CASE /\ edit.previousLine /\ ~edit.sentEdits
           /\ ~(edit.documentLineIndex <= edit.documentLineLimit)
  <2>1. op = [do |-> "append", from |-> edit.lineCount - 1, line |-> line]
      BY <1>4, Zenon DEF Operation
  <2>2. edit.lineCount - 1 \in Nat
      BY <1>0 DEF Within
  <2> QED  BY <1>0, <1>4, <2>1, <2>2 DEF Op, Fits, Within
<1> QED  BY <1>0, <1>1, <1>2, <1>3, <1>4, Zenon

\* Before the await: the DocumentManager counts the line it inserts.
LEMMA IssuedWithin ==
    ASSUME begun \in Start, NEW edit \in Edit, Within(edit),
           NEW line \in Seq(Tokens), NEW op \in Op
    PROVE  LET new == Issued(edit, line, op)
           IN  /\ new \in Edit /\ Within(new) /\ new.lines = edit.lines
               /\ new.lineCount = IF op.do = "replace" THEN edit.lineCount
                                  ELSE edit.lineCount + 1
<1> DEFINE count == IF op.do = "replace" THEN edit.lineCount ELSE edit.lineCount + 1
           shift == IF edit.previousLine THEN edit.indentDelta
                    ELSE IndentLevel(line) - edit.anchorLevel
<1>1. IndentLevel(line) \in Int
    BY LevelOfLine, Len(line) \in Nat
<1>2. count \in Nat /\ edit.lineCount <= count /\ shift \in Int
    BY <1>1 DEF Edit
<1>3. Issued(edit, line, op) =
        [edit EXCEPT !.lineCount = count, !.indentDelta = shift,
                     !.previousLine = TRUE]
    BY Zenon DEF Issued
<1> HIDE DEF count, shift
<1>4. Issued(edit, line, op) \in Edit
    BY <1>2, <1>3, Zenon DEF Edit
<1>5. /\ begun.first \in Nat /\ begun.limit \in Nat
      /\ edit.documentLineIndex \in Nat /\ edit.lineCount \in Nat
    BY Zenon DEF Edit, Start
<1>6. /\ Issued(edit, line, op).lineCount = count
      /\ Issued(edit, line, op).lines = edit.lines
      /\ Issued(edit, line, op).firstRangeLine = edit.firstRangeLine
      /\ Issued(edit, line, op).documentLineIndex = edit.documentLineIndex
      /\ Issued(edit, line, op).documentLineLimit = edit.documentLineLimit
    BY <1>3, Zenon DEF Edit
<1>7. Within(Issued(edit, line, op))
    BY <1>2, <1>5, <1>6 DEF Within
<1> QED  BY <1>4, <1>6, <1>7, Zenon DEF count

\* After the await, with an edit sent some time before, the next line is still
\* one of the range or right behind the lines inserted so far.
LEMMA ReturnedWithin ==
    ASSUME begun \in Start, NEW edit \in Edit, Within(edit),
           NEW op \in Op, op.do # "save",
           op.do = "replace" => begun.first <= op.from /\ op.from <= begun.limit,
           op.do # "replace" => begun.first <= op.from
                                   /\ op.from + 2 <= edit.lineCount
    PROVE  LET new == Returned(edit, op)
           IN  /\ new \in Edit /\ Within(new) /\ new.lines = edit.lines
               /\ new.lineCount = edit.lineCount
<1> DEFINE index == CASE op.do = "replace" -> op.from + 1
                      [] op.do = "insert" -> op.from + 2
                      [] op.do = "append" -> edit.lineCount
           sentOne == edit.sentEdits \/ op.do # "replace"
<1>0. /\ begun.first \in Nat /\ begun.limit \in Nat
      /\ edit.documentLineIndex \in Nat /\ edit.lineCount \in Nat
      /\ edit.sentEdits \in BOOLEAN
      /\ op.do \in {"replace", "insert", "append"} /\ op.from \in Nat
    BY Zenon DEF Edit, Start, Op
<1>1. index \in Nat /\ begun.first <= index /\ index <= edit.lineCount
  <2>1. CASE op.do = "replace"
      BY <1>0, <2>1 DEF Within
  <2>2. CASE op.do = "insert"
      BY <1>0, <2>2 DEF Within
  <2>3. CASE op.do = "append"
      BY <1>0, <2>3 DEF Within
  <2> QED  BY <1>0, <2>1, <2>2, <2>3, Zenon
<1>2. sentOne \in BOOLEAN
    BY <1>0, Zenon
<1>3. Returned(edit, op) =
        [edit EXCEPT !.documentLineIndex = index, !.sentEdits = sentOne]
    BY Zenon DEF Returned
<1> HIDE DEF index, sentOne
<1>4. Returned(edit, op) \in Edit
    BY <1>1, <1>2, <1>3, Zenon DEF Edit
<1>5. /\ Returned(edit, op).lineCount = edit.lineCount
      /\ Returned(edit, op).lines = edit.lines
      /\ Returned(edit, op).firstRangeLine = edit.firstRangeLine
      /\ Returned(edit, op).documentLineIndex = index
      /\ Returned(edit, op).documentLineLimit = edit.documentLineLimit
    BY <1>3, Zenon DEF Edit
<1>6. Within(Returned(edit, op))
    BY <1>1, <1>5, Zenon DEF Within
<1> QED  BY <1>4, <1>5, <1>6, Zenon

-----------------------------------------------------------------------------
(* The document *)

\* What replaceLines and insertLineAfter leave of a document: the lines up to
\* one of the room, and those from another one on.
LEMMA SplicedApart ==
    ASSUME document \in Seq(Line), begun \in Start,
           begun.limit < Len(begun.document), begun' = begun,
           NEW room \in Nat, Apart(room), NEW line \in Line,
           NEW a \in Nat, NEW b \in Nat, begun.first <= a, a < b, b <= room + 1,
           document' = SubSeq(document, 1, a) \o <<line>>
                          \o SubSeq(document, b, Len(document)),
           NEW left \in Nat, left = room + a + 2 - b
    PROVE  document' \in Seq(Line) /\ document' # <<>> /\ Apart(left)'
<1> DEFINE m == LinesBehind
           first == begun.first
           doc == document
           new == document'
           upper == SubSeq(doc, 1, a)
           lower == SubSeq(doc, b, Len(doc))
           n == Len(doc) - b + 1
<1>1. /\ first \in Nat /\ m \in Nat /\ LinesBehind' = m
      /\ Len(doc) \in Nat /\ Len(doc) = room + m /\ first < room
  <2>1. /\ first \in Nat /\ begun.limit \in Nat /\ Len(begun.document) \in Nat
        /\ Len(doc) \in Nat
      BY DEF Start
  <2>2. m \in Nat
      BY <2>1 DEF LinesBehind
  <2>3. LinesBehind' = m
      BY Zenon DEF LinesBehind
  <2>4. Len(doc) = room + m /\ first < room
      BY Zenon DEF Apart
  <2> QED  BY <2>1, <2>2, <2>3, <2>4, Zenon
<1>2. /\ \A i \in 1 .. first : doc[i] = begun.document[i]
      /\ \A i \in 1 .. m : doc[room + i] = begun.document[begun.limit + 1 + i]
    BY Zenon DEF Apart
<1>3. a <= Len(doc) /\ 1 <= b /\ b <= Len(doc) + 1 /\ n \in Nat
    BY <1>1
<1>4. \A i \in 1 .. Len(doc) : doc[i] \in Line
    OBVIOUS
<1>5. new = upper \o <<line>> \o lower
    BY Zenon
<1> HIDE DEF m, first, doc, new
<1>6. /\ upper \in Seq(Line) /\ Len(upper) = a
      /\ \A i \in 1 .. a : upper[i] = doc[i]
  <2>1. \A i \in 1 .. a : doc[i] \in Line
      BY <1>1, <1>3, <1>4
  <2>2. /\ upper \in Seq(Line) /\ Len(upper) = IF 1 <= a THEN a - 1 + 1 ELSE 0
        /\ \A i \in 1 .. a - 1 + 1 : upper[i] = doc[1 + i - 1]
      BY <2>1
  <2> QED  BY <2>2, SMTT(60)
<1>7. /\ lower \in Seq(Line) /\ Len(lower) = n
      /\ \A i \in 1 .. n : lower[i] = doc[b - 1 + i]
  <2>1. \A i \in b .. Len(doc) : doc[i] \in Line
      BY <1>1, <1>3, <1>4
  <2>2. /\ lower \in Seq(Line)
        /\ Len(lower) = IF b <= Len(doc) THEN Len(doc) - b + 1 ELSE 0
        /\ \A i \in 1 .. Len(doc) - b + 1 : lower[i] = doc[b + i - 1]
      BY <1>1, <2>1
  <2>3. Len(lower) = n
      BY <1>1, <1>3, <2>2
  <2>4. \A i \in 1 .. n : b + i - 1 = b - 1 + i /\ i \in 1 .. Len(doc) - b + 1
      BY <1>3
  <2> QED  BY <2>2, <2>3, <2>4, Zenon
<1> HIDE DEF upper, lower, n
<1> DEFINE top == upper \o <<line>>
<1>8. top \in Seq(Line) /\ Len(top) = a + 1 /\ \A i \in 1 .. a : top[i] = doc[i]
  <2>1. top = Append(upper, line)
      BY <1>6
  <2> HIDE DEF top
  <2>2. top \in Seq(Line) /\ Len(top) = a + 1 /\ \A i \in 1 .. a : top[i] = upper[i]
      BY <1>6, <2>1
  <2> QED  BY <1>6, <2>2, Zenon
<1>9. new = top \o lower
    BY <1>5, Zenon
<1> HIDE DEF top
<1>10. /\ new \in Seq(Line) /\ Len(new) = a + 1 + n
       /\ \A i \in 1 .. a + 1 + n :
             new[i] = IF i <= a + 1 THEN top[i] ELSE lower[i - (a + 1)]
  <2>1. top \in Seq(Line) /\ lower \in Seq(Line) /\ Len(top) = a + 1 /\ Len(lower) = n
      BY <1>7, <1>8, Zenon
  <2>2. new \in Seq(Line) /\ Len(new) = a + 1 + n
    <3>1. \A s, t \in Seq(Line) : s \o t \in Seq(Line) /\ Len(s \o t) = Len(s) + Len(t)
        OBVIOUS
    <3> QED  BY <1>9, <2>1, <3>1, ZenonT(60)
  <2>3. \A i \in 1 .. a + 1 + n :
           new[i] = IF i <= a + 1 THEN top[i] ELSE lower[i - (a + 1)]
      BY <1>3, <1>9, <2>1, SMTT(60)
  <2> QED  BY <2>2, <2>3, Zenon
<1>11. Len(new) = left + m /\ first < left
    BY <1>1, <1>10 DEF first, n
<1>12. ASSUME NEW i \in 1 .. first PROVE new[i] = begun.document[i]
  <2>1. i \in 1 .. a /\ i \in 1 .. a + 1 + n /\ i <= a + 1
      BY <1>1, <1>3 DEF first
  <2>2. new[i] = top[i]
      BY <1>10, <2>1, Zenon
  <2>3. top[i] = doc[i] /\ doc[i] = begun.document[i]
      BY <1>2, <1>8, <2>1, Zenon
  <2> QED  BY <2>2, <2>3, Zenon
<1>13. ASSUME NEW i \in 1 .. m
       PROVE  new[left + i] = begun.document[begun.limit + 1 + i]
  <2>1. /\ left + i \in 1 .. a + 1 + n /\ ~(left + i <= a + 1)
        /\ left + i - (a + 1) \in 1 .. n
        /\ b - 1 + (left + i - (a + 1)) = room + i
      BY <1>1, <1>3 DEF n
  <2>2. new[left + i] = lower[left + i - (a + 1)]
      BY <1>10, <2>1
  <2>3. new[left + i] = doc[room + i]
      BY <1>7, <2>1, <2>2, Zenon
  <2> QED  BY <1>2, <2>3, Zenon
<1>14. new # <<>>
    BY <1>3, <1>10
<1> QED  BY <1>1, <1>10, <1>11, <1>12, <1>13, <1>14, Zenon DEF Apart, m, first, new

\* An edit that fits into the room touches no line outside of the range.
LEMMA EditApart ==
    ASSUME document \in Seq(Line), begun \in Start,
           begun.limit < Len(begun.document), begun' = begun,
           NEW op \in Op, op.do # "save", NEW room \in Nat, NEW left \in Nat,
           Apart(room), Fits(op, room, left),
           document' = IF op.do = "replace"
                       THEN Replaced(document, op.from, op.to, op.line)
                       ELSE InsertedAfter(document, op.from, op.line)
    PROVE  document' \in Seq(Line) /\ document' # <<>> /\ Apart(left)'
<1>0. begun.first \in Nat
    BY Zenon DEF Start
<1>1. CASE op.do = "replace"
  <2> DEFINE a == op.from
             b == op.to + 2
  <2>1. /\ op.from \in Nat /\ op.to \in Nat /\ op.line \in Line
        /\ begun.first <= op.from /\ op.from <= op.to /\ op.to < room
        /\ left + op.to = room + op.from
      BY <1>1, Zenon DEF Op, Fits
  <2>2. document' = SubSeq(document, 1, a) \o <<op.line>>
                       \o SubSeq(document, b, Len(document))
      BY <1>1, Zenon DEF Replaced
  <2>3. a \in Nat /\ b \in Nat /\ begun.first <= a
      BY <1>0, <2>1
  <2>4. a < b /\ b <= room + 1
      BY <2>1
  <2>5. left = room + a + 2 - b
      BY <2>1
  <2> HIDE DEF a, b
  <2> QED  BY <2>1, <2>2, <2>3, <2>4, <2>5, SplicedApart, Zenon
<1>2. CASE op.do \in {"insert", "append"}
  <2> DEFINE a == op.from + 1
             b == op.from + 2
  <2>1. /\ op.from \in Nat /\ op.line \in Line
        /\ begun.first <= op.from /\ op.from < room /\ left = room + 1
      BY <1>2, Zenon DEF Op, Fits
  <2>2. document' = SubSeq(document, 1, a) \o <<op.line>>
                       \o SubSeq(document, b, Len(document))
      BY <1>2, Zenon DEF InsertedAfter
  <2>3. a \in Nat /\ b \in Nat /\ begun.first <= a
      BY <1>0, <2>1
  <2>4. a < b /\ b <= room + 1
      BY <2>1
  <2>5. left = room + a + 2 - b
      BY <2>1
  <2> HIDE DEF a, b
  <2> QED  BY <2>1, <2>2, <2>3, <2>4, <2>5, SplicedApart, Zenon
<1> QED  BY <1>1, <1>2, Zenon DEF Op

-----------------------------------------------------------------------------
(* Requests *)

\* One handler changes.
LEMMA OneHandler ==
    ASSUME Types, NEW r \in Requests, NEW h \in Handler \cup {Idle},
           handlers' = [handlers EXCEPT ![r] = h]
    PROVE  /\ handlers' \in [Requests -> Handler \cup {Idle}]
           /\ handlers'[r] = h
           /\ \A q \in Requests \ {r} : handlers'[q] = handlers[q]
BY Zenon DEF Types

\* A handler reaches an await or leaves it.
LEMMA HandlerMoves ==
    ASSUME Types, NEW r \in Requests, handlers[r] # Idle,
           NEW pc \in {"drain", "await", "saving"},
           handlers' = [handlers EXCEPT ![r].pc = pc]
    PROVE  /\ handlers' \in [Requests -> Handler \cup {Idle}]
           /\ handlers'[r] # Idle
           /\ handlers'[r].pc = pc /\ handlers'[r].event = handlers[r].event
           /\ \A q \in Requests \ {r} : handlers'[q] = handlers[q]
<1>1. handlers[r] \in Handler
    BY Zenon DEF Types
<1> DEFINE h == [handlers[r] EXCEPT !.pc = pc]
<1>2. h \in Handler /\ h.pc = pc /\ h.event = handlers[r].event
    BY <1>1, Zenon DEF Handler
<1>3. handlers' = [handlers EXCEPT ![r] = h]
    BY Zenon
<1>4. h # Idle
    BY <1>2, IdleApart, Zenon
<1> HIDE DEF h
<1> QED  BY <1>2, <1>3, <1>4, OneHandler, Zenon

\* While a handler works on the lines, no other one has come to the cleanup.
LEMMA NoneSaving ==
    ASSUME Phases, NEW r \in Requests, handlers[r] # Idle,
           handlers[r].pc # "saving"
    PROVE  \A q \in Requests : ~IsSaving(q)
BY Zenon DEF Phases, IsSaving

\* A handler that awaits nothing has nothing in the wire.
LEMMA AwaitedStays ==
    ASSUME Types, Awaited, wire' = wire, applyDirectly' = applyDirectly,
           NEW r \in Requests, handlers[r] = Idle \/ handlers[r].pc = "drain",
           \A q \in Requests \ {r} : handlers'[q] = handlers[q]
    PROVE  Awaited'
<1>1. ASSUME NEW k \in DOMAIN wire PROVE wire[k].by \in Requests \cup {Idle}
  <2>1. wire[k] \in Sent
      BY DEF Types
  <2> QED  BY <2>1, Zenon DEF Sent
<1>2. ASSUME NEW k \in DOMAIN wire, wire[k].op.do = "save"
      PROVE  /\ applyDirectly' /\ k = Len(wire')
             /\ wire[k].by \in Requests /\ IsSaving(wire[k].by)'
  <2>1. wire[k].by # r /\ wire[k].by \in Requests /\ IsSaving(wire[k].by)
      BY <1>2, Zenon DEF Awaited, IsSaving
  <2>2. handlers'[wire[k].by] = handlers[wire[k].by]
      BY <2>1, Zenon
  <2> QED  BY <1>2, <2>1, <2>2, Zenon DEF Awaited, IsSaving
<1>3. ASSUME applyDirectly, NEW k \in DOMAIN wire,
             wire[k].op.do # "save", wire[k].by # Idle
      PROVE  /\ handlers'[wire[k].by] # Idle /\ handlers'[wire[k].by].pc = "await"
             /\ \A j \in DOMAIN wire :
                   wire[j].op.do # "save" /\ wire[j].by = wire[k].by => j = k
  <2>1. /\ handlers[wire[k].by] # Idle /\ handlers[wire[k].by].pc = "await"
        /\ \A j \in DOMAIN wire :
              wire[j].op.do # "save" /\ wire[j].by = wire[k].by => j = k
      BY <1>3, Zenon DEF Awaited
  <2>2. wire[k].by \in Requests \ {r}
      BY <1>1, <1>3, <2>1, Zenon
  <2> QED  BY <2>1, <2>2, Zenon
<1> QED  BY <1>2, <1>3, Zenon DEF Awaited, IsSaving

\* The room of the edit depends on the document and the range.
LEMMA LeavesSame ==
    ASSUME NEW w, NEW n \in Nat, Leaves(w, n),
           document' = document, begun' = begun
    PROVE  Leaves(w, n)'
<1>1. PICK room : Follows(w, room, n)
    BY Zenon DEF Leaves
<1>2. Follows(w, room, n)'
    BY <1>1, Zenon DEF Follows, Apart, LinesBehind, Fits
<1> QED  BY <1>2, Zenon DEF Leaves

\* Nothing is sent and nothing arrives: the numbers stay right.
LEMMA Resting ==
    ASSUME Numbers, Rooms, begun' = begun, wire' = wire, document' = document,
           editsMap' # NoEdit =>
              /\ editsMap # NoEdit
              /\ editsMap'.firstRangeLine = editsMap.firstRangeLine
              /\ editsMap'.documentLineIndex = editsMap.documentLineIndex
              /\ editsMap'.documentLineLimit = editsMap.documentLineLimit
              /\ editsMap'.lineCount = editsMap.lineCount,
           Editing' => Editing
    PROVE  Numbers' /\ Rooms'
<1>1. Numbers'
  <2>1. editsMap' # NoEdit => (begun # NoEdit)' /\ Within(editsMap)'
      BY Zenon DEF Numbers, Within
  <2>2. ASSUME Editing', NEW k \in DOMAIN wire,
               wire[k].op.do \in {"insert", "append"}
        PROVE  wire[k].op.from + 2 <= editsMap'.lineCount
    <3>1. Editing /\ editsMap'.lineCount = editsMap.lineCount
        BY <2>2, Zenon DEF Editing
    <3> QED  BY <2>2, <3>1, Zenon DEF Numbers
  <2> QED  BY <2>1, <2>2, Zenon DEF Numbers
<1>2. Rooms'
  <2> SUFFICES ASSUME begun # NoEdit
               PROVE  \E n \in Nat : /\ Leaves(wire, n)'
                                     /\ Editing' => n = editsMap'.lineCount
      BY Zenon DEF Rooms
  <2>1. PICK n \in Nat : Leaves(wire, n) /\ (Editing => n = editsMap.lineCount)
      BY Zenon DEF Rooms
  <2>2. Leaves(wire, n)'
      BY <2>1, LeavesSame, Zenon
  <2>3. Editing' => n = editsMap'.lineCount
      BY <2>1, Zenon DEF Editing
  <2> QED  BY <2>2, <2>3, Zenon
<1> QED  BY <1>1, <1>2, Zenon

-----------------------------------------------------------------------------
(* The steps of the sidecar *)

\* Nothing happens.
LEMMA Unchanged ==
    ASSUME Inv, UNCHANGED vars
    PROVE  Inv'
<1> USE DEF Inv, vars, modeVars
<1>1. Types' /\ Awaited' /\ Phases'
    BY DEF Types, Awaited, IsSaving, Phases
<1>2. Numbers' /\ Rooms'
    BY Resting, Zenon DEF Editing, IsSaving
<1> QED  BY <1>1, <1>2, Zenon

\* The entry that Start makes covers lines of the document.
LEMMA EntryMade ==
    ASSUME NEW doc \in Seq(Line), NEW range \in Ranges(doc)
    PROVE  /\ NewEdit(doc, range) \in Edit
           /\ range.first \in Nat /\ LineLimit(doc, range) \in Nat
           /\ range.first <= LineLimit(doc, range)
           /\ LineLimit(doc, range) < Len(doc)
<1>1. /\ range.first \in 0 .. Len(doc) - 1 /\ range.last \in 0 .. Len(doc)
      /\ range.first <= range.last
    BY Zenon DEF Ranges
<1>2. Len(doc) \in Nat /\ range.first + 1 \in 1 .. Len(doc)
    BY <1>1
<1>3. /\ LineLimit(doc, range) \in Nat /\ range.first \in Nat
      /\ range.first <= LineLimit(doc, range)
      /\ LineLimit(doc, range) < Len(doc)
    BY <1>1, <1>2 DEF LineLimit, Min2
<1>4. doc[range.first + 1] \in Line
    BY <1>2
<1>5. IndentLevel(doc[range.first + 1]) \in Nat
  <2>1. IndentLevel(doc[range.first + 1]) \in 0 .. Len(doc[range.first + 1])
      BY <1>4, LevelOfLine, Zenon DEF Line
  <2> QED  BY <1>4, <2>1 DEF Line
<1> HIDE DEF LineLimit
<1>6. NewEdit(doc, range) \in Edit
    BY <1>3, <1>5 DEF NewEdit, Edit
<1> QED  BY <1>3, <1>6, Zenon

\* Start: the range of the document as it is then.
LEMMA StartKeeps ==
    ASSUME Inv, phase = "new", phase' = "streaming",
           onDisk' \in {"present", "missing", "unreadable"},
           NEW range \in Ranges(document), Begins(document, range),
           UNCHANGED <<applyDirectly, overlapping, responseStream, sent, handlers,
                       wire, saving, document, saved, ended>>
    PROVE  Inv'
<1>0. PICK limit : limit = LineLimit(document, range)
    BY Zenon
<1>1. /\ document \in Seq(Line) /\ document # <<>>
      /\ wire = <<>> /\ editsMap = NoEdit /\ begun = NoEdit
      /\ \A r \in Requests : handlers[r] = Idle
      /\ saving = FALSE
    BY Zenon DEF Inv, Types, Phases, IsSaving
<1>2. /\ NewEdit(document, range) \in Edit
      /\ range.first \in Nat /\ limit \in Nat
      /\ range.first <= limit /\ limit < Len(document)
    BY <1>0, <1>1, EntryMade, Zenon
<1>3. /\ editsMap' = NewEdit(document, range)
      /\ begun' = [document |-> document, first |-> range.first, limit |-> limit]
    BY <1>0, Zenon DEF Begins
<1>4. /\ begun' \in Start /\ begun'.first = range.first
      /\ begun'.limit = limit /\ begun'.document = document
    BY <1>1, <1>2, <1>3, Zenon DEF Start
<1>5. /\ editsMap' \in Edit /\ editsMap'.firstRangeLine = range.first
      /\ editsMap'.documentLineIndex = range.first
      /\ editsMap'.documentLineLimit = limit /\ editsMap'.lineCount = limit + 1
    BY <1>0, <1>2, <1>3, Zenon DEF NewEdit
<1>6. editsMap' # NoEdit /\ begun' # NoEdit
    BY <1>4, <1>5, NoEditApart, Zenon
<1>7. Types'
    BY <1>4, <1>5, Zenon DEF Inv, Types
<1>8. Phases'
    BY <1>1, Zenon DEF Phases, IsSaving
<1>9. Awaited'
    BY <1>1 DEF Awaited
<1>10. Numbers'
  <2>1. Within(editsMap)'
      BY <1>2, <1>4, <1>5 DEF Within
  <2>2. DOMAIN wire' = {}
      BY <1>1
  <2> QED  BY <1>1, <1>2, <1>4, <1>6, <2>1, <2>2, Zenon DEF Numbers
<1>11. Rooms'
  <2>0. PICK room : room = [k \in 1 .. 1 |-> limit + 1]
      BY Zenon
  <2>1. room \in [1 .. 1 -> Nat] /\ room[1] = limit + 1
      BY <1>2, <2>0
  <2>2. Len(wire') = 0 /\ Len(wire') + 1 = 1
      BY <1>1
  <2>3. LinesBehind' = Len(document) - limit - 1
      BY <1>4, Zenon DEF LinesBehind
  <2>4. Apart(room[1])'
    <3>1. Len(document) \in Nat /\ Len(document') = Len(document)
        BY <1>1
    <3>2. begun'.first < room[1] /\ Len(document') = room[1] + LinesBehind'
        BY <1>2, <1>4, <2>1, <2>3, <3>1
    <3>3. \A i : /\ document'[i] = begun'.document[i]
                 /\ document'[room[1] + i] = begun'.document[begun'.limit + 1 + i]
        BY <1>4, <2>1, Zenon
    <3> QED  BY <3>2, <3>3, Zenon DEF Apart
  <2>5. \A k \in 1 .. Len(wire') : Fits(wire[k].op, room[k], room[k + 1])'
      BY <2>2
  <2>6. /\ room \in [1 .. Len(wire') + 1 -> Nat]
        /\ room[Len(wire') + 1] = limit + 1
      BY <2>1, <2>2, Zenon
  <2>7. Follows(wire, room, limit + 1)'
      BY <2>4, <2>5, <2>6, Zenon DEF Follows
  <2>8. Leaves(wire, limit + 1)' /\ limit + 1 \in Nat
      BY <1>2, <2>7 DEF Leaves
  <2> QED  BY <1>5, <2>8, Zenon DEF Rooms
<1> QED  BY <1>7, <1>8, <1>9, <1>10, <1>11, Zenon DEF Inv

\* Start fails: there is no entry.
LEMMA FailedKeeps ==
    ASSUME Inv, startFailed
    PROVE  Inv'
<1> USE DEF Inv, startFailed, modeVars
<1>1. Types' /\ Awaited'
    BY Zenon DEF Types, Awaited, IsSaving
<1>2. Phases'
    BY Zenon DEF Phases, IsSaving
<1>3. Numbers' /\ Rooms'
    BY Resting, Zenon DEF Editing, IsSaving
<1> QED  BY <1>1, <1>2, <1>3, Zenon

\* Delta: its lines go to the splitter.
LEMMA DeltaKeeps ==
    ASSUME Inv, NEW r \in Requests, NEW delta \in Deltas, Delta(r, delta)
    PROVE  Inv'
<1>1. CASE Refused \/ editsMap = NoEdit
  <2>1. UNCHANGED vars
      BY <1>1, Zenon DEF Delta, vars
  <2> QED  BY <2>1, Unchanged, Zenon
<1>2. CASE ~(Refused \/ editsMap = NoEdit)
  <2> DEFINE h == [event |-> "Delta", pc |-> "drain"]
  <2>1. /\ phase = "streaming" /\ handlers[r] = Idle /\ editsMap # NoEdit
        /\ sent' = sent \o delta /\ editsMap' = addDelta(editsMap, delta)
        /\ handlers' = [handlers EXCEPT ![r] = h]
        /\ UNCHANGED <<applyDirectly, overlapping, onDisk, responseStream, phase,
                       wire, saving, document, saved, begun, ended>>
      BY <1>2, Zenon DEF Delta, modeVars
  <2>2. delta \in Seq(Tokens)
    <3>1. PICK n \in 1 .. MaxDelta : delta \in [1 .. n -> Tokens]
        BY Zenon DEF Deltas
    <3> QED  BY <3>1, StreamAssumption
  <2>3. editsMap \in Edit
      BY <2>1, Zenon DEF Inv, Types
  <2>4. /\ editsMap' \in Edit /\ editsMap' # NoEdit
        /\ editsMap'.firstRangeLine = editsMap.firstRangeLine
        /\ editsMap'.documentLineIndex = editsMap.documentLineIndex
        /\ editsMap'.documentLineLimit = editsMap.documentLineLimit
        /\ editsMap'.lineCount = editsMap.lineCount
      BY <2>1, <2>2, <2>3, DeltaAdded, NoEditApart, Zenon
  <2>5. /\ h \in Handler /\ h # Idle /\ h.event = "Delta" /\ h.pc = "drain"
      BY Zenon DEF Handler, Idle
  <2> HIDE DEF h
  <2>6. /\ handlers' \in [Requests -> Handler \cup {Idle}] /\ handlers'[r] = h
        /\ \A q \in Requests \ {r} : handlers'[q] = handlers[q]
      BY <2>1, <2>5, OneHandler, Zenon DEF Inv
  <2>7. sent' \in Seq(Tokens)
      BY <2>1, <2>2 DEF Inv, Types
  <2>8. Types'
      BY <2>1, <2>4, <2>6, <2>7, Zenon DEF Inv, Types
  <2>9. Phases'
    <3>1. \A q \in Requests : handlers[q] # Idle =>
             handlers[q].event # "End" /\ handlers[q].pc # "saving"
        BY <2>1, Zenon DEF Inv, Phases, IsSaving
    <3>2. \A q \in Requests : handlers'[q] # Idle =>
             handlers'[q].event # "End" /\ handlers'[q].pc # "saving"
        BY <2>5, <2>6, <3>1, Zenon
    <3> QED  BY <2>1, <2>4, <3>2, Zenon DEF Inv, Phases, IsSaving
  <2>10. Awaited'
      BY <2>1, <2>6, AwaitedStays, Zenon DEF Inv
  <2>11. Numbers' /\ Rooms'
    <3>1. Editing' => Editing
        BY <2>1, <2>6, Zenon DEF Editing, IsSaving
    <3> QED  BY <2>1, <2>4, <3>1, Resting, Zenon DEF Inv
  <2> QED  BY <2>8, <2>9, <2>10, <2>11, Zenon DEF Inv
<1> QED  BY <1>1, <1>2, Zenon

\* End: no other request is under way.
LEMMA EndKeeps ==
    ASSUME Inv, NEW r \in Requests, End(r)
    PROVE  Inv'
<1>0. /\ phase = "streaming" /\ \A q \in Requests : handlers[q] = Idle
      /\ UNCHANGED <<applyDirectly, overlapping, onDisk, responseStream, sent,
                     editsMap, wire, saving, document, saved, begun, ended>>
      /\ saving = FALSE
    BY Zenon DEF End, AllAnswered, modeVars, Inv, Phases, Types, IsSaving
<1>1. CASE Refused \/ editsMap = NoEdit
  <2>1. phase' = "over" /\ handlers' = handlers
      BY <1>1, Zenon DEF End
  <2>2. Types' /\ Phases' /\ Awaited'
      BY <1>0, <2>1 DEF Inv, Types, Phases, Awaited, IsSaving
  <2>3. Numbers' /\ Rooms'
      BY <1>0, <2>1, Resting, Zenon DEF Inv, Editing, IsSaving
  <2> QED  BY <2>2, <2>3, Zenon DEF Inv
<1>2. CASE ~(Refused \/ editsMap = NoEdit)
  <2> DEFINE h == [event |-> "End", pc |-> "drain"]
  <2>1. /\ phase' = "ending" /\ handlers' = [handlers EXCEPT ![r] = h]
        /\ editsMap # NoEdit
      BY <1>2, Zenon DEF End
  <2>2. h \in Handler /\ h # Idle /\ h.event = "End" /\ h.pc = "drain"
      BY Zenon DEF Handler, Idle
  <2> HIDE DEF h
  <2>3. /\ handlers' \in [Requests -> Handler \cup {Idle}] /\ handlers'[r] = h
        /\ \A q \in Requests \ {r} : handlers'[q] = handlers[q]
      BY <2>1, <2>2, OneHandler, Zenon DEF Inv
  <2>4. \A q \in Requests \ {r} : handlers'[q] = Idle
      BY <1>0, <2>3, Zenon
  <2>5. Types'
      BY <1>0, <2>1, <2>3, Zenon DEF Inv, Types
  <2>6. Phases'
      BY <1>0, <2>1, <2>2, <2>3, <2>4, Zenon DEF Phases, IsSaving
  <2>7. Awaited'
      BY <1>0, <2>3, AwaitedStays, Zenon DEF Inv
  <2>8. Numbers' /\ Rooms'
    <3>1. Editing' => Editing
        BY <1>0, <2>1, Zenon DEF Editing, IsSaving
    <3> QED  BY <1>0, <3>1, Resting, Zenon DEF Inv
  <2> QED  BY <2>5, <2>6, <2>7, <2>8, Zenon DEF Inv
<1> QED  BY <1>1, <1>2, Zenon

\* The response stream is closed.
LEMMA CloseKeeps ==
    ASSUME Inv, closeStream
    PROVE  Inv'
<1> USE DEF Inv, closeStream, modeVars
<1>1. Types' /\ Awaited' /\ Phases'
    BY ZenonT(60) DEF Types, Awaited, IsSaving, Phases
<1>2. Numbers' /\ Rooms'
    BY Resting, Zenon DEF Editing, IsSaving
<1> QED  BY <1>1, <1>2, Zenon

-----------------------------------------------------------------------------
(* The steps of a handler *)

\* A handler that works on the lines: the entry is there, no cleanup is on its
\* way and no save.
LEMMA AtWork ==
    ASSUME Inv, NEW r \in Requests, handlers[r] # Idle, handlers[r].pc # "saving"
    PROVE  /\ editsMap \in Edit /\ editsMap # NoEdit /\ Within(editsMap)
           /\ begun \in Start /\ begun # NoEdit
           /\ begun.first <= begun.limit /\ begun.limit < Len(begun.document)
           /\ Editing /\ saving = FALSE /\ phase \in {"streaming", "ending"}
           /\ \A k \in DOMAIN wire : wire[k].op.do # "save"
<1>1. \A q \in Requests : ~IsSaving(q)
    BY NoneSaving, Zenon DEF Inv
<1>2. editsMap # NoEdit /\ editsMap \in Edit /\ phase \in {"streaming", "ending"}
    BY Zenon DEF Inv, Phases, Types
<1>3. begun \in Start /\ begun # NoEdit /\ Within(editsMap)
        /\ begun.first <= begun.limit /\ begun.limit < Len(begun.document)
    BY <1>2, Zenon DEF Inv, Numbers, Types
<1>4. Editing
    BY <1>1, <1>2, Zenon DEF Editing
<1>5. saving = FALSE
    BY <1>1, Zenon DEF Inv, Types, Phases
<1>6. \A k \in DOMAIN wire : wire[k].op.do # "save"
    BY <1>1, Zenon DEF Inv, Awaited
<1> QED  BY <1>1, <1>2, <1>3, <1>4, <1>5, <1>6, Zenon

\* The other requests are those of the same phase; beside End there is none.
LEMMA OthersWork ==
    ASSUME Inv, NEW r \in Requests, handlers[r] # Idle,
           handlers[r].event = "End"
    PROVE  \A q \in Requests \ {r} : handlers[q] = Idle
BY Zenon DEF Inv, Phases

\* skipLine: a line less in the splitter.
LEMMA SkipKeeps ==
    ASSUME Inv, NEW r \in Requests, skipLine(r)
    PROVE  Inv'
<1>1. /\ handlers[r] # Idle /\ handlers[r].pc # "saving" /\ editsMap.lines # <<>>
      /\ editsMap' = [editsMap EXCEPT !.lines = Tail(@)]
      /\ UNCHANGED <<applyDirectly, overlapping, onDisk, responseStream, phase,
                     sent, handlers, wire, saving, document, saved, begun, ended>>
    BY Zenon DEF skipLine, Draining, modeVars
<1>2. editsMap \in Edit /\ editsMap # NoEdit
         /\ phase \in {"streaming", "ending"}
    BY <1>1, AtWork, Zenon
<1>3. /\ editsMap' \in Edit /\ editsMap' # NoEdit
      /\ editsMap'.firstRangeLine = editsMap.firstRangeLine
      /\ editsMap'.documentLineIndex = editsMap.documentLineIndex
      /\ editsMap'.documentLineLimit = editsMap.documentLineLimit
      /\ editsMap'.lineCount = editsMap.lineCount
  <2>1. editsMap' \in Edit
      BY <1>1, <1>2, LineTaken, Zenon
  <2> QED  BY <1>1, <1>2, <2>1, NoEditApart, Zenon DEF Edit
<1>4. Types' /\ Awaited'
    BY <1>1, <1>3 DEF Inv, Types, Awaited, IsSaving
<1>5. Phases'
    BY <1>1, <1>2, <1>3, Zenon DEF Inv, Phases, IsSaving
<1>6. Numbers' /\ Rooms'
  <2>1. Editing' => Editing
      BY <1>1, <1>2, Zenon DEF Editing, IsSaving
  <2> QED  BY <1>1, <1>2, <1>3, <2>1, Resting, Zenon DEF Inv
<1> QED  BY <1>4, <1>5, <1>6, Zenon DEF Inv

\* A handler ends before the cleanup; with End, nothing comes after it.
LEMMA AnswerKeeps ==
    ASSUME Inv, NEW r \in Requests, Draining(r), Answered(r),
           editsMap' \in Edit,
           editsMap'.firstRangeLine = editsMap.firstRangeLine,
           editsMap'.documentLineIndex = editsMap.documentLineIndex,
           editsMap'.documentLineLimit = editsMap.documentLineLimit,
           editsMap'.lineCount = editsMap.lineCount,
           phase' = IF handlers[r].event = "End" THEN "over" ELSE phase,
           UNCHANGED <<applyDirectly, overlapping, onDisk, responseStream, sent,
                       wire, saving, document, saved, begun, ended>>
    PROVE  Inv'
<1>1. /\ handlers[r] # Idle /\ handlers[r].pc = "drain"
      /\ handlers[r].pc # "saving" /\ handlers' = [handlers EXCEPT ![r] = Idle]
    BY Zenon DEF Draining, Answered
<1>2. editsMap # NoEdit /\ editsMap' # NoEdit /\ saving = FALSE /\ Editing
         /\ phase \in {"streaming", "ending"}
    BY <1>1, AtWork, NoEditApart, Zenon
<1>3. /\ handlers' \in [Requests -> Handler \cup {Idle}] /\ handlers'[r] = Idle
      /\ \A q \in Requests \ {r} : handlers'[q] = handlers[q]
    BY <1>1, OneHandler, Idle \in Handler \cup {Idle}, Zenon DEF Inv
<1>4. Types'
    BY <1>3, Zenon DEF Inv, Types
<1>5. Phases'
  <2>1. CASE handlers[r].event = "End"
    <3>1. \A q \in Requests : handlers'[q] = Idle
        BY <1>1, <1>3, <2>1, OthersWork, Zenon
    <3> QED  BY <1>2, <2>1, <3>1, Zenon DEF Phases
  <2>2. CASE handlers[r].event # "End"
      BY <1>2, <1>3, <2>2, ZenonT(60) DEF Inv, Phases
  <2> QED  BY <2>1, <2>2, Zenon
<1>6. Awaited'
    BY <1>1, <1>3, AwaitedStays, Zenon DEF Inv
<1>7. Numbers' /\ Rooms'
    BY <1>2, Resting, Zenon DEF Inv
<1> QED  BY <1>4, <1>5, <1>6, <1>7, Zenon DEF Inv

\* processLineThrows: the line is lost and the request answered.
LEMMA ThrowsKeeps ==
    ASSUME Inv, NEW r \in Requests, processLineThrows(r)
    PROVE  Inv'
<1>1. /\ Draining(r) /\ Answered(r) /\ editsMap.lines # <<>>
      /\ editsMap' = [editsMap EXCEPT !.lines = Tail(@)]
      /\ phase' = IF handlers[r].event = "End" THEN "over" ELSE phase
      /\ UNCHANGED <<applyDirectly, overlapping, onDisk, responseStream, sent,
                     wire, saving, document, saved, begun, ended>>
    BY Zenon DEF processLineThrows, modeVars
<1>2. editsMap \in Edit
    BY <1>1, AtWork, Zenon DEF Draining
<1>3. editsMap' \in Edit
    BY <1>1, <1>2, LineTaken, Zenon
<1>4. /\ editsMap'.firstRangeLine = editsMap.firstRangeLine
      /\ editsMap'.documentLineIndex = editsMap.documentLineIndex
      /\ editsMap'.documentLineLimit = editsMap.documentLineLimit
      /\ editsMap'.lineCount = editsMap.lineCount
    BY <1>1, <1>2, Zenon DEF Edit
<1> QED  BY <1>1, <1>3, <1>4, AnswerKeeps, Zenon

\* deltaEnds: all lines are drained.
LEMMA DeltaEndsKeeps ==
    ASSUME Inv, NEW r \in Requests, deltaEnds(r)
    PROVE  Inv'
<1>1. /\ Draining(r) /\ Answered(r) /\ handlers[r].event # "End"
      /\ UNCHANGED <<applyDirectly, overlapping, onDisk, responseStream, sent,
                     wire, saving, document, saved, begun, ended>>
      /\ phase' = phase /\ editsMap' = editsMap
    BY Zenon DEF deltaEnds, modeVars
<1>2. editsMap \in Edit
    BY <1>1, AtWork, Zenon DEF Draining
<1> QED  BY <1>1, <1>2, AnswerKeeps, Zenon

\* One more edit at the end of the wire, that fits into what the others leave.
LEMMA LeavesAppend ==
    ASSUME NEW w \in Seq(Sent), NEW x \in Sent, NEW n \in Nat, NEW m \in Nat,
           Leaves(w, n), Fits(x.op, n, m)
    PROVE  Leaves(Append(w, x), m)
<1>1. PICK room : Follows(w, room, n)
    BY Zenon DEF Leaves
<1>2. PICK len \in Nat : len = Len(w)
    OBVIOUS
<1>3. PICK new : new = [k \in 1 .. len + 2 |-> IF k <= len + 1 THEN room[k] ELSE m]
    BY Zenon
<1>4. /\ room \in [1 .. len + 1 -> Nat] /\ Apart(room[1])
      /\ \A k \in 1 .. len : Fits(w[k].op, room[k], room[k + 1])
      /\ room[len + 1] = n
    BY <1>1, <1>2, Zenon DEF Follows
<1>5. /\ Len(Append(w, x)) = len + 1 /\ len + 1 + 1 = len + 2
      /\ \A k \in 1 .. len : Append(w, x)[k] = w[k]
      /\ Append(w, x)[len + 1] = x
    BY <1>2
<1>6. new \in [1 .. len + 2 -> Nat] /\ new[1] = room[1] /\ new[len + 2] = m
    BY <1>3, <1>4
<1>7. \A k \in 1 .. len + 1 : new[k] = room[k]
    BY <1>3
<1>8. ASSUME NEW k \in 1 .. len + 1
      PROVE  Fits(Append(w, x)[k].op, new[k], new[k + 1])
  <2>1. CASE k \in 1 .. len
    <3>1. new[k] = room[k] /\ new[k + 1] = room[k + 1]
        BY <1>7, <2>1
    <3> QED  BY <1>4, <1>5, <2>1, <3>1, Zenon
  <2>2. CASE k = len + 1
    <3>1. new[k] = n /\ new[k + 1] = m
        BY <1>4, <1>6, <1>7, <2>2
    <3> QED  BY <1>5, <2>2, <3>1, Zenon
  <2>3. k \in 1 .. len \/ k = len + 1
      BY <1>2
  <2> QED  BY <2>1, <2>2, <2>3, Zenon
<1>9. Follows(Append(w, x), new, m)
    BY <1>4, <1>5, <1>6, <1>8, Zenon DEF Follows
<1> QED  BY <1>9, Zenon DEF Leaves

\* What processLine sends and makes of the entry.
LEMMA LineProcessed ==
    ASSUME Inv, NEW r \in Requests, processLine(r)
    PROVE  \E op \in Op :
             /\ op.do # "save" /\ wire' = Append(wire, [by |-> r, op |-> op])
             /\ editsMap' \in Edit /\ Within(editsMap)'
             /\ Fits(op, editsMap.lineCount, editsMap'.lineCount)
             /\ editsMap.lineCount <= editsMap'.lineCount
             /\ op.do \in {"insert", "append"} => op.from + 2 <= editsMap'.lineCount
<1>0. /\ handlers[r] # Idle /\ handlers[r].pc # "saving" /\ editsMap.lines # <<>>
      /\ begun' = begun
    BY Zenon DEF processLine, Draining
<1>1. /\ editsMap \in Edit /\ Within(editsMap)
      /\ begun \in Start /\ begun.first <= begun.limit
    BY <1>0, AtWork, Zenon
<1>2. PICK item : item = Head(editsMap.lines)
    BY Zenon
<1>3. PICK edit : edit = [editsMap EXCEPT !.lines = Tail(@)]
    BY Zenon
<1>4. PICK delta : delta = DeltaOf(edit, item.line)
    BY Zenon
<1>5. PICK op : op = Operation(edit, Reindent(item.line, delta))
    BY Zenon
<1>6. /\ CanReindent(item.line, delta) /\ wire' = Append(wire, [by |-> r, op |-> op])
      /\ \/ editsMap' = Issued(edit, item.line, op)
         \/ editsMap' = Returned(Issued(edit, item.line, op), op)
    BY <1>2, <1>3, <1>4, <1>5, Zenon DEF processLine
<1>7. edit \in Edit /\ item \in Item
    BY <1>0, <1>1, <1>2, <1>3, LineTaken, Zenon
<1>8. edit.lineCount = editsMap.lineCount /\ Within(edit)
    BY <1>1, <1>3, Zenon DEF Within, Edit
<1>9. item.line \in Seq(Tokens)
    BY <1>7, Zenon DEF Item
<1>10. delta \in Int
    BY <1>4, <1>7, <1>9, ShiftOfLine, Zenon
<1>11. Reindent(item.line, delta) \in Line
    BY <1>6, <1>9, <1>10, LineReindented, Zenon
<1>12. PICK count : count = IF op.do = "replace" THEN edit.lineCount
                            ELSE edit.lineCount + 1
    BY Zenon
<1>13. /\ op \in Op /\ op.do # "save" /\ Fits(op, edit.lineCount, count)
       /\ op.do \in {"insert", "append"} => op.from < edit.lineCount
    BY <1>1, <1>5, <1>7, <1>8, <1>11, <1>12, OperationFits, Zenon
<1>14. PICK new : new = Issued(edit, item.line, op)
    BY Zenon
<1>15. new \in Edit /\ Within(new) /\ new.lineCount = count
    BY <1>1, <1>7, <1>8, <1>9, <1>12, <1>13, <1>14, IssuedWithin, Zenon
<1>16. edit.lineCount \in Nat /\ edit.lineCount <= count /\ count \in Nat
    BY <1>7, <1>12 DEF Edit
<1>17. op.do \in {"insert", "append"} => op.from \in Nat /\ op.from + 2 <= count
    BY <1>12, <1>13, <1>16 DEF Op
<1>18. /\ Returned(new, op) \in Edit /\ Within(Returned(new, op))
       /\ Returned(new, op).lineCount = count
  <2>1. op.do = "replace" => begun.first <= op.from /\ op.from <= begun.limit
      BY <1>1, <1>13 DEF Fits, Op, Start
  <2>2. op.do # "replace" => begun.first <= op.from /\ op.from + 2 <= new.lineCount
      BY <1>13, <1>15, <1>17, Zenon DEF Fits, Op
  <2> QED  BY <1>1, <1>13, <1>15, <2>1, <2>2, ReturnedWithin, Zenon
<1>19. editsMap' \in Edit /\ editsMap'.lineCount = count
    BY <1>6, <1>14, <1>15, <1>18, SMTT(30)
<1>20. Within(editsMap)'
    BY <1>0, <1>6, <1>14, <1>15, <1>18, Zenon DEF Within
<1> QED  BY <1>6, <1>8, <1>13, <1>16, <1>17, <1>19, <1>20, Zenon

\* processLine: with apply_directly, the handler awaits the edit it sends.
LEMMA ProcessKeeps ==
    ASSUME Inv, NEW r \in Requests, processLine(r)
    PROVE  Inv'
<1>1. /\ handlers[r] # Idle /\ handlers[r].pc = "drain"
      /\ handlers[r].pc # "saving"
      /\ UNCHANGED <<applyDirectly, overlapping, onDisk, responseStream, phase,
                     sent, saving, document, saved, begun, ended>>
      /\ IF applyDirectly THEN handlers' = [handlers EXCEPT ![r].pc = "await"]
         ELSE handlers' = handlers
    BY Zenon DEF processLine, Draining, modeVars
<1>2. /\ editsMap \in Edit /\ editsMap # NoEdit /\ Editing /\ begun # NoEdit
      /\ begun \in Start /\ phase \in {"streaming", "ending"} /\ saving = FALSE
      /\ begun.first <= begun.limit /\ begun.limit < Len(begun.document)
      /\ \A k \in DOMAIN wire : wire[k].op.do # "save"
    BY <1>1, AtWork, Zenon
<1>3. PICK op \in Op :
        /\ op.do # "save" /\ wire' = Append(wire, [by |-> r, op |-> op])
        /\ editsMap' \in Edit /\ Within(editsMap)'
        /\ Fits(op, editsMap.lineCount, editsMap'.lineCount)
        /\ editsMap.lineCount <= editsMap'.lineCount
        /\ op.do \in {"insert", "append"} => op.from + 2 <= editsMap'.lineCount
    BY LineProcessed, Zenon
<1>4. /\ handlers' \in [Requests -> Handler \cup {Idle}]
      /\ handlers'[r] # Idle /\ handlers'[r].event = handlers[r].event
      /\ handlers'[r].pc # "saving" /\ (applyDirectly => handlers'[r].pc = "await")
      /\ \A q \in Requests \ {r} : handlers'[q] = handlers[q]
  <2>1. CASE applyDirectly
      BY <1>1, <2>1, HandlerMoves, Zenon DEF Inv
  <2>2. CASE ~applyDirectly
      BY <1>1, <2>2, Zenon DEF Inv, Types
  <2> QED  BY <2>1, <2>2, Zenon
<1>5. PICK x : x = [by |-> r, op |-> op]
    BY Zenon
<1>6. x \in Sent /\ x.by = r /\ x.op = op
    BY <1>5, Zenon DEF Sent
<1>7. /\ wire \in Seq(Sent) /\ wire' = Append(wire, x) /\ wire' \in Seq(Sent)
      /\ DOMAIN wire' = 1 .. Len(wire) + 1 /\ DOMAIN wire = 1 .. Len(wire)
      /\ Len(wire) \in Nat
      /\ \A k \in DOMAIN wire : wire'[k] = wire[k]
      /\ wire'[Len(wire) + 1] = x
  <2>1. wire \in Seq(Sent)
      BY Zenon DEF Inv, Types
  <2> QED  BY <1>3, <1>5, <1>6, <2>1
<1>8. editsMap' # NoEdit
    BY <1>3, NoEditApart, Zenon
<1>9. Types'
    BY <1>1, <1>3, <1>4, <1>7 DEF Inv, Types
<1>10. Phases'
  <2>1. \A q \in Requests : handlers'[q] # Idle =>
           /\ handlers[q] # Idle /\ handlers'[q].event = handlers[q].event
           /\ handlers'[q].pc = "saving" => handlers[q].pc = "saving"
      BY <1>1, <1>4, Zenon
  <2> QED  BY <1>1, <1>2, <1>8, <2>1 DEF Inv, Phases
<1>11. Awaited'
  <2>1. \A k \in DOMAIN wire' : wire'[k].op.do # "save"
      BY <1>2, <1>3, <1>6, <1>7
  <2>2. ASSUME applyDirectly, NEW k \in DOMAIN wire', wire'[k].by # Idle
        PROVE  /\ handlers'[wire'[k].by] # Idle
               /\ handlers'[wire'[k].by].pc = "await"
               /\ \A j \in DOMAIN wire' : wire'[j].by = wire'[k].by => j = k
    <3>1. ASSUME NEW j \in DOMAIN wire, wire[j].by # Idle
          PROVE  /\ wire[j].by \in Requests \ {r}
                 /\ handlers[wire[j].by] # Idle /\ handlers[wire[j].by].pc = "await"
                 /\ \A i \in DOMAIN wire : wire[i].by = wire[j].by => i = j
      <4>1. /\ handlers[wire[j].by] # Idle /\ handlers[wire[j].by].pc = "await"
            /\ \A i \in DOMAIN wire : wire[i].by = wire[j].by => i = j
          BY <1>2, <2>2, <3>1, Zenon DEF Inv, Awaited
      <4>2. wire[j].by \in Requests \cup {Idle}
        <5>1. wire[j] \in Sent
            BY <1>7
        <5> QED  BY <5>1, Zenon DEF Sent
      <4> QED  BY <1>1, <3>1, <4>1, <4>2, Zenon
    <3>2. r # Idle
        BY StreamAssumption, Zenon
    <3>3. CASE k \in DOMAIN wire
      <4>1. wire'[k] = wire[k] /\ wire[k].by # Idle
          BY <1>7, <2>2, <3>3, Zenon
      <4>2. \A j \in DOMAIN wire' : wire'[j].by = wire'[k].by => j = k
          BY <1>6, <1>7, <3>1, <3>3, <4>1
      <4> QED  BY <1>4, <3>1, <3>3, <4>1, <4>2
    <3>4. CASE k = Len(wire) + 1
      <4>1. wire'[k].by = r
          BY <1>6, <1>7, <3>4, Zenon
      <4>2. \A j \in DOMAIN wire' : wire'[j].by = r => j = k
          BY <1>7, <3>1, <3>2, <3>4
      <4> QED  BY <1>4, <2>2, <4>1, <4>2, Zenon
    <3> QED  BY <1>7, <3>3, <3>4
  <2> QED  BY <1>1, <2>1, <2>2, Zenon DEF Awaited
<1>12. Numbers'
  <2>1. ASSUME NEW k \in DOMAIN wire', wire'[k].op.do \in {"insert", "append"}
        PROVE  wire'[k].op.from + 2 <= editsMap'.lineCount
    <3>1. CASE k \in DOMAIN wire
      <4>1. wire'[k] = wire[k] /\ wire[k].op.from + 2 <= editsMap.lineCount
          BY <1>2, <1>7, <2>1, <3>1, Zenon DEF Inv, Numbers
      <4>2. wire[k].op.from \in Nat
        <5>1. wire[k] \in Sent
            BY <1>7, <3>1
        <5> QED  BY <2>1, <4>1, <5>1, Zenon DEF Sent, Op
      <4>3. editsMap.lineCount \in Nat /\ editsMap'.lineCount \in Nat
          BY <1>2, <1>3, Zenon DEF Edit
      <4> QED  BY <1>3, <4>1, <4>2, <4>3
    <3>2. CASE k = Len(wire) + 1
        BY <1>3, <1>6, <1>7, <2>1, <3>2, Zenon
    <3> QED  BY <1>7, <3>1, <3>2
  <2> QED  BY <1>1, <1>2, <1>3, <2>1, Zenon DEF Numbers
<1>13. Rooms'
  <2>1. PICK n \in Nat : Leaves(wire, n) /\ (Editing => n = editsMap.lineCount)
      BY <1>2, Zenon DEF Inv, Rooms
  <2>2. PICK m \in Nat : m = editsMap'.lineCount
      BY <1>3, SMTT(30) DEF Edit
  <2>3. wire \in Seq(Sent) /\ x \in Sent /\ Leaves(wire, n) /\ Fits(x.op, n, m)
      BY <1>2, <1>3, <1>6, <1>7, <2>1, <2>2, Zenon
  <2>4. Leaves(wire', m)
    <3>1. Leaves(Append(wire, x), m)
        BY <2>3, LeavesAppend, Zenon
    <3> QED  BY <1>7, <3>1, Zenon
  <2>5. Leaves(wire, m)'
      BY <1>1, <2>4, LeavesSame, SMTT(30)
  <2> QED  BY <2>2, <2>5, Zenon DEF Rooms
<1> QED  BY <1>9, <1>10, <1>11, <1>12, <1>13, Zenon DEF Inv

\* What cleanup and the save put into the wire.
LEMMA EndSends ==
    ASSUME Inv, NEW r \in Requests, endDrained(r)
    PROVE  /\ wire' \in Seq(Sent)
           /\ \A k \in DOMAIN wire' :
                 \/ k \in DOMAIN wire /\ wire'[k] = wire[k]
                 \/ wire'[k].by = Idle /\ wire'[k].op.do # "save"
                 \/ /\ applyDirectly /\ k = Len(wire')
                    /\ wire'[k].by = r /\ wire'[k].op.do = "save"
           /\ \E n \in Nat : Leaves(wire', n)
<1>1. handlers[r] # Idle /\ handlers[r].pc # "saving"
    BY Zenon DEF endDrained, Draining
<1>2. /\ editsMap \in Edit /\ Within(editsMap) /\ Editing
      /\ begun \in Start /\ begun # NoEdit
    BY <1>1, AtWork, Zenon
<1>3. /\ editsMap.documentLineIndex \in Nat /\ editsMap.documentLineLimit \in Nat
      /\ editsMap.lineCount \in Nat /\ begun.first \in Nat /\ begun.limit \in Nat
    BY <1>2, Zenon DEF Edit, Start
<1>4. wire \in Seq(Sent)
    BY Zenon DEF Inv, Types
<1>5. Leaves(wire, editsMap.lineCount)
    BY <1>2, Zenon DEF Inv, Rooms
<1>6. PICK save : save = [by |-> r, op |-> [do |-> "save"]]
    BY Zenon
<1>7. save \in Sent /\ save.by = r /\ save.op.do = "save"
    BY <1>6, Zenon DEF Sent, Op
<1> DEFINE rest == editsMap.documentLineIndex <= editsMap.documentLineLimit
<1>8. PICK w : w = wire \o Unawaited(Cleanup(editsMap))
    BY Zenon
<1>9. wire' = w \o (IF applyDirectly THEN <<save>> ELSE <<>>)
    BY <1>6, <1>8, Zenon DEF endDrained, Save
<1>10. /\ w \in Seq(Sent)
       /\ \A k \in DOMAIN w :
             \/ k \in DOMAIN wire /\ w[k] = wire[k]
             \/ w[k].by = Idle /\ w[k].op.do # "save"
       /\ \E n \in Nat : Leaves(w, n)
  <2>1. CASE ~rest
    <3>1. Unawaited(Cleanup(editsMap)) = <<>>
        BY <2>1 DEF Cleanup, Unawaited
    <3>2. w = wire
        BY <1>4, <1>8, <3>1
    <3> QED  BY <1>3, <1>4, <1>5, <3>2, Zenon
  <2>2. CASE rest
    <3>1. PICK op : op = [do |-> "replace", from |-> editsMap.documentLineIndex,
                          to |-> editsMap.documentLineLimit, line |-> <<>>]
        BY Zenon
    <3>2. PICK x : x = [by |-> Idle, op |-> op]
        BY Zenon
    <3>3. op \in Op /\ op.do = "replace" /\ op.from = editsMap.documentLineIndex
             /\ op.to = editsMap.documentLineLimit
        BY <1>3, <3>1 DEF Op, Line
    <3>4. x \in Sent /\ x.by = Idle /\ x.op = op
        BY <3>2, <3>3, Zenon DEF Sent
    <3>5. Cleanup(editsMap) = <<op>>
        BY <2>2, <3>1, Zenon DEF Cleanup
    <3>6. Unawaited(Cleanup(editsMap)) = <<x>>
        BY <3>2, <3>5 DEF Unawaited
    <3>7. w = Append(wire, x)
        BY <1>4, <1>8, <3>4, <3>6
    <3>8. PICK m \in Nat : m = editsMap.lineCount
                             + editsMap.documentLineIndex - editsMap.documentLineLimit
        BY <1>2, <1>3 DEF Within
    <3>9. Fits(op, editsMap.lineCount, m)
        BY <1>2, <1>3, <2>2, <3>3, <3>8 DEF Fits, Within
    <3>10. Leaves(Append(wire, x), m)
        BY <1>3, <1>4, <1>5, <3>4, <3>9, LeavesAppend, Zenon
    <3>11. \A k \in DOMAIN w : (k \in DOMAIN wire /\ w[k] = wire[k]) \/ w[k] = x
        BY <1>4, <3>4, <3>7
    <3>12. w \in Seq(Sent)
        BY <1>4, <3>4, <3>7
    <3> QED  BY <3>3, <3>4, <3>7, <3>10, <3>11, <3>12, Zenon
  <2> QED  BY <2>1, <2>2, Zenon
<1>11. CASE ~applyDirectly
  <2>1. wire' = w
      BY <1>9, <1>10, <1>11
  <2> QED  BY <1>10, <2>1, Zenon
<1>12. CASE applyDirectly
  <2>1. wire' = Append(w, save)
      BY <1>7, <1>9, <1>10, <1>12
  <2>2. PICK n \in Nat : Leaves(w, n)
      BY <1>10, Zenon
  <2>3. Fits(save.op, n, n)
      BY <1>7, Zenon DEF Fits
  <2>4. Leaves(wire', n)
      BY <1>7, <1>10, <2>1, <2>2, <2>3, LeavesAppend, Zenon
  <2>5. /\ wire' \in Seq(Sent) /\ wire'[Len(wire')] = save
        /\ \A k \in DOMAIN wire' : (k \in DOMAIN w /\ wire'[k] = w[k]) \/ k = Len(wire')
      BY <1>7, <1>10, <2>1
  <2> QED  BY <1>7, <1>10, <1>12, <2>4, <2>5, Zenon
<1> QED  BY <1>11, <1>12, Zenon

\* endDrained: nothing is sent any more.
LEMMA EndDrainedKeeps ==
    ASSUME Inv, NEW r \in Requests, endDrained(r)
    PROVE  Inv'
<1>1. /\ handlers[r] # Idle /\ handlers[r].pc = "drain"
      /\ handlers[r].pc # "saving" /\ handlers[r].event = "End"
      /\ saving' = ~applyDirectly
      /\ handlers' = [handlers EXCEPT ![r].pc = "saving"]
      /\ UNCHANGED <<applyDirectly, overlapping, onDisk, responseStream, phase,
                     sent, editsMap, document, saved, begun, ended>>
    BY Zenon DEF endDrained, Draining, modeVars
<1>2. /\ editsMap \in Edit /\ editsMap # NoEdit /\ begun # NoEdit
      /\ phase \in {"streaming", "ending"}
    BY <1>1, AtWork, Zenon
<1>3. /\ handlers' \in [Requests -> Handler \cup {Idle}]
      /\ handlers'[r] # Idle /\ handlers'[r].event = "End"
      /\ handlers'[r].pc = "saving"
      /\ \A q \in Requests \ {r} : handlers'[q] = Idle
  <2>1. /\ handlers' \in [Requests -> Handler \cup {Idle}]
        /\ handlers'[r] # Idle /\ handlers'[r].event = "End"
        /\ handlers'[r].pc = "saving"
        /\ \A q \in Requests \ {r} : handlers'[q] = handlers[q]
      BY <1>1, HandlerMoves, Zenon DEF Inv
  <2> QED  BY <1>1, <2>1, OthersWork, Zenon
<1>4. /\ wire' \in Seq(Sent)
      /\ \A k \in DOMAIN wire' :
            \/ k \in DOMAIN wire /\ wire'[k] = wire[k]
            \/ wire'[k].by = Idle /\ wire'[k].op.do # "save"
            \/ /\ applyDirectly /\ k = Len(wire')
               /\ wire'[k].by = r /\ wire'[k].op.do = "save"
      /\ \E n \in Nat : Leaves(wire', n)
    BY EndSends, Zenon
<1>5. Types'
    BY <1>1, <1>3, <1>4 DEF Inv, Types
<1>6. IsSaving(r)' /\ ~Editing'
    BY <1>3, Zenon DEF IsSaving, Editing
<1>7. Phases'
    BY <1>1, <1>2, <1>3, <1>6, Zenon DEF Inv, Phases
<1>8. Awaited'
  <2>1. \A k \in DOMAIN wire : wire[k].op.do # "save"
      BY <1>1, AtWork, Zenon
  <2>2. \A k \in DOMAIN wire : applyDirectly => wire[k].by = Idle
    <3> SUFFICES ASSUME NEW k \in DOMAIN wire, applyDirectly, wire[k].by # Idle
                 PROVE  FALSE
        BY Zenon
    <3>1. handlers[wire[k].by] # Idle /\ handlers[wire[k].by].pc = "await"
        BY <2>1, Zenon DEF Inv, Awaited
    <3>2. wire[k].by \in Requests
      <4>1. wire[k] \in Sent
          BY DEF Inv, Types
      <4> QED  BY <4>1, Zenon DEF Sent
    <3> QED  BY <1>1, <3>1, <3>2, OthersWork, Zenon
  <2>3. \A k \in DOMAIN wire' :
           IF wire'[k].op.do = "save"
           THEN applyDirectly /\ k = Len(wire') /\ wire'[k].by = r
           ELSE applyDirectly => wire'[k].by = Idle
      BY <1>4, <2>1, <2>2, Zenon
  <2> QED  BY <1>1, <1>6, <2>3, Zenon DEF Awaited
<1>9. Numbers'
    BY <1>1, <1>2, <1>6, Zenon DEF Inv, Numbers, Within
<1>10. Rooms'
  <2>1. PICK n \in Nat : Leaves(wire', n)
      BY <1>4, Zenon
  <2>2. Leaves(wire, n)'
      BY <1>1, <2>1, LeavesSame, Zenon
  <2> QED  BY <1>6, <2>2, Zenon DEF Rooms
<1> QED  BY <1>5, <1>7, <1>8, <1>9, <1>10, Zenon DEF Inv

-----------------------------------------------------------------------------
(* The steps of the workbench *)

\* The first of the wire is done: the others find the room they expect.
LEMMA LeavesTail ==
    ASSUME wire \in Seq(Sent), wire # <<>>, wire' = Tail(wire),
           document \in Seq(Line), begun \in Start,
           begun.limit < Len(begun.document), begun' = begun,
           NEW op, op = Head(wire).op,
           IF op.do = "save" THEN document' = document
           ELSE document' = IF op.do = "replace"
                            THEN Replaced(document, op.from, op.to, op.line)
                            ELSE InsertedAfter(document, op.from, op.line),
           NEW n \in Nat, Leaves(wire, n), document # <<>>
    PROVE  /\ document' \in Seq(Line) /\ document' # <<>>
           /\ Leaves(wire, n)'
<1>1. PICK room : Follows(wire, room, n)
    BY Zenon DEF Leaves
<1>2. PICK len \in Nat : len + 1 = Len(wire)
  <2>1. Len(wire) \in Nat /\ Len(wire) # 0
      OBVIOUS
  <2>2. Len(wire) - 1 \in Nat /\ Len(wire) - 1 + 1 = Len(wire)
      BY <2>1
  <2> QED  BY <2>2, Zenon
<1>3. /\ wire' \in Seq(Sent) /\ Len(wire') = len
      /\ \A k \in 1 .. len : wire'[k] = wire[k + 1]
      /\ wire[1] \in Sent /\ op = wire[1].op
    BY <1>2
<1>4. op \in Op
    BY <1>3, Zenon DEF Sent
<1>5. /\ room \in [1 .. len + 2 -> Nat] /\ Apart(room[1])
      /\ \A k \in 1 .. len + 1 : Fits(wire[k].op, room[k], room[k + 1])
      /\ room[len + 2] = n
  <2>1. Len(wire) = len + 1 /\ Len(wire) + 1 = len + 2
      BY <1>2
  <2> QED  BY <1>1, <2>1, Zenon DEF Follows
<1>6. /\ room[1] \in Nat /\ room[2] \in Nat /\ Fits(op, room[1], room[2])
    BY <1>3, <1>5
<1>7. PICK left \in Nat : left = room[2]
    BY <1>6, Zenon
<1>8. document' \in Seq(Line) /\ document' # <<>> /\ Apart(left)'
  <2>1. CASE op.do = "save"
    <3>1. left = room[1] /\ document' = document
        BY <1>6, <1>7, <2>1, Zenon DEF Fits
    <3> QED  BY <1>5, <3>1, Zenon DEF Apart, LinesBehind
  <2>2. CASE op.do # "save"
      BY <1>4, <1>5, <1>6, <1>7, <2>2, EditApart, Zenon
  <2> QED  BY <2>1, <2>2, Zenon
<1>9. PICK new : new = [k \in 1 .. len + 1 |-> room[k + 1]]
    BY Zenon
<1>10. new \in [1 .. len + 1 -> Nat] /\ new[1] = left /\ new[len + 1] = n
  <2>1. \A k \in 1 .. len + 1 : k + 1 \in 1 .. len + 2
      OBVIOUS
  <2>2. new \in [1 .. len + 1 -> Nat]
      BY <1>5, <1>9, <2>1, Zenon
  <2>3. new[1] = room[2] /\ new[len + 1] = room[len + 2]
      BY <1>9
  <2> QED  BY <1>5, <1>7, <2>2, <2>3, Zenon
<1>11. ASSUME NEW k \in 1 .. len
       PROVE  Fits(wire'[k].op, new[k], new[k + 1])
  <2>1. /\ k + 1 \in 1 .. len + 1 /\ k \in 1 .. len + 1
        /\ new[k] = room[k + 1] /\ new[k + 1] = room[k + 1 + 1]
    <3>1. k + 1 \in 1 .. len + 1 /\ k \in 1 .. len + 1
        OBVIOUS
    <3> QED  BY <1>9, <3>1, Zenon
  <2> QED  BY <1>3, <1>5, <2>1, Zenon
<1>12. \A k \in 1 .. len : Fits(wire[k].op, new[k], new[k + 1])'
    BY <1>11, Zenon DEF Fits
<1>13. Follows(wire, new, n)'
    BY <1>3, <1>8, <1>10, <1>12, Zenon DEF Follows
<1> QED  BY <1>8, <1>13, Zenon DEF Leaves

\* The numbers that are left in the wire.
LEMMA TailOfWire ==
    ASSUME wire \in Seq(Sent), wire # <<>>, wire' = Tail(wire)
    PROVE  /\ wire' \in Seq(Sent) /\ Len(wire) \in Nat /\ 1 \in DOMAIN wire
           /\ wire[1] = Head(wire) /\ wire[1] \in Sent
           /\ Len(wire') = Len(wire) - 1
           /\ \A k \in DOMAIN wire' : /\ k + 1 \in DOMAIN wire
                                      /\ wire'[k] = wire[k + 1] /\ k + 1 # 1
<1>1. Len(wire) \in Nat /\ Len(wire) # 0
    OBVIOUS
<1>2. /\ wire' \in Seq(Sent) /\ Len(wire') = Len(wire) - 1
      /\ DOMAIN wire = 1 .. Len(wire) /\ DOMAIN wire' = 1 .. Len(wire) - 1
      /\ \A k \in 1 .. Len(wire) - 1 : wire'[k] = wire[k + 1]
      /\ wire[1] = Head(wire)
    BY <1>1
<1> QED  BY <1>1, <1>2

\* An edit arrives, and with apply_directly its handler goes on.
LEMMA ApplyKeeps ==
    ASSUME Inv, applyEdit
    PROVE  Inv'
<1>1. PICK op : op = Head(wire).op
    BY Zenon
<1>2. PICK by : by = Head(wire).by
    BY Zenon
<1>3. /\ wire # <<>> /\ op.do # "save" /\ wire' = Tail(wire)
      /\ document' = IF op.do = "replace"
                     THEN Replaced(document, op.from, op.to, op.line)
                     ELSE InsertedAfter(document, op.from, op.line)
      /\ IF applyDirectly /\ by # Idle
         THEN /\ editsMap' = Returned(editsMap, op)
              /\ handlers' = [handlers EXCEPT ![by].pc = "drain"]
         ELSE editsMap' = editsMap /\ handlers' = handlers
      /\ UNCHANGED <<applyDirectly, overlapping, onDisk, responseStream, phase,
                     sent, saving, saved, begun, ended>>
    BY <1>1, <1>2, Zenon DEF applyEdit, modeVars
<1>4. /\ wire \in Seq(Sent) /\ document \in Seq(Line) /\ document # <<>>
      /\ begun \in Start /\ begun # NoEdit
      /\ begun.first <= begun.limit /\ begun.limit < Len(begun.document)
      /\ phase # "new"
    BY <1>3, Zenon DEF Inv, Types, Numbers, Phases
<1>5. /\ wire' \in Seq(Sent) /\ Len(wire) \in Nat /\ 1 \in DOMAIN wire
      /\ wire[1].op = op /\ wire[1].by = by /\ wire[1] \in Sent
      /\ Len(wire') = Len(wire) - 1
      /\ \A k \in DOMAIN wire' : /\ k + 1 \in DOMAIN wire
                                 /\ wire'[k] = wire[k + 1] /\ k + 1 # 1
    BY <1>1, <1>2, <1>3, <1>4, TailOfWire, Zenon
<1>6. op \in Op /\ by \in Requests \cup {Idle}
    BY <1>5, Zenon DEF Sent
<1>7. PICK n \in Nat : Leaves(wire, n) /\ (Editing => n = editsMap.lineCount)
    BY <1>4, Zenon DEF Inv, Rooms
<1>8. document' \in Seq(Line) /\ document' # <<>> /\ Leaves(wire, n)'
    BY <1>1, <1>3, <1>4, <1>7, LeavesTail, Zenon
<1>9. CASE ~(applyDirectly /\ by # Idle)
  <2>1. editsMap' = editsMap /\ handlers' = handlers
      BY <1>3, <1>9, Zenon
  <2>2. Types'
      BY <1>3, <1>5, <1>8, <2>1 DEF Inv, Types
  <2>3. Phases'
      BY <1>3, <1>4, <2>1, Zenon DEF Inv, Phases, IsSaving
  <2>4. Awaited'
    <3>1. ASSUME NEW k \in DOMAIN wire', wire'[k].op.do = "save"
          PROVE  /\ applyDirectly' /\ k = Len(wire')
                 /\ wire'[k].by \in Requests /\ IsSaving(wire[k].by)'
      <4>1. /\ applyDirectly /\ k + 1 = Len(wire)
            /\ wire[k + 1].by \in Requests /\ IsSaving(wire[k + 1].by)
          BY <1>5, <3>1, Zenon DEF Inv, Awaited
      <4>2. k \in Nat /\ wire'[k].by = wire[k + 1].by
          BY <1>5
      <4>3. k = Len(wire')
          BY <1>5, <4>1, <4>2
      <4> QED  BY <1>3, <2>1, <4>1, <4>2, <4>3, SMTT(30) DEF IsSaving
    <3>2. ASSUME applyDirectly, NEW k \in DOMAIN wire',
                 wire'[k].op.do # "save", wire'[k].by # Idle
          PROVE  /\ handlers'[wire'[k].by] # Idle
                 /\ handlers'[wire'[k].by].pc = "await"
                 /\ \A j \in DOMAIN wire' :
                       wire'[j].op.do # "save" /\ wire'[j].by = wire'[k].by => j = k
      <4>1. /\ handlers[wire[k + 1].by] # Idle /\ handlers[wire[k + 1].by].pc = "await"
            /\ \A j \in DOMAIN wire :
                  wire[j].op.do # "save" /\ wire[j].by = wire[k + 1].by => j = k + 1
          BY <1>5, <3>2, Zenon DEF Inv, Awaited
      <4>2. \A j \in DOMAIN wire' : j \in Nat
          BY <1>5
      <4>3. ASSUME NEW j \in DOMAIN wire', wire'[j].op.do # "save",
                   wire'[j].by = wire'[k].by
            PROVE  j = k
        <5>1. j + 1 = k + 1
            BY <1>5, <4>1, <4>3, Zenon
        <5> QED  BY <4>2, <5>1
      <4> QED  BY <1>5, <2>1, <4>1, <4>3, SMTT(30)
    <3>3. applyDirectly' => applyDirectly
        BY <1>3, Zenon
    <3> QED  BY <3>1, <3>2, <3>3, Zenon DEF Awaited
  <2>5. Editing' <=> Editing
      BY <2>1, Zenon DEF Editing, IsSaving
  <2>6. Numbers'
      BY <1>3, <1>4, <1>5, <2>1, <2>5, Zenon DEF Inv, Numbers, Within
  <2>7. Rooms'
      BY <1>7, <1>8, <2>1, <2>5, Zenon DEF Rooms
  <2> QED  BY <2>2, <2>3, <2>4, <2>6, <2>7, Zenon DEF Inv
<1>10. CASE applyDirectly /\ by # Idle
  <2>1. /\ by \in Requests /\ editsMap' = Returned(editsMap, op)
        /\ handlers' = [handlers EXCEPT ![by].pc = "drain"]
      BY <1>3, <1>6, <1>10, Zenon
  <2>2. /\ handlers[by] # Idle /\ handlers[by].pc = "await"
        /\ handlers[by].pc # "saving"
        /\ \A j \in DOMAIN wire : wire[j].op.do # "save" /\ wire[j].by = by => j = 1
      BY <1>3, <1>5, <1>10, Zenon DEF Inv, Awaited
  <2>3. /\ editsMap \in Edit /\ editsMap # NoEdit /\ Within(editsMap) /\ Editing
        /\ saving = FALSE /\ \A k \in DOMAIN wire : wire[k].op.do # "save"
      BY <2>1, <2>2, AtWork, Zenon
  <2>4. /\ handlers' \in [Requests -> Handler \cup {Idle}]
        /\ handlers'[by] # Idle /\ handlers'[by].event = handlers[by].event
        /\ handlers'[by].pc = "drain"
        /\ \A q \in Requests \ {by} : handlers'[q] = handlers[q]
      BY <2>1, <2>2, HandlerMoves, Zenon DEF Inv
  <2>5. PICK new : new = Returned(editsMap, op)
      BY Zenon
  <2>6. new \in Edit /\ Within(new) /\ new.lineCount = editsMap.lineCount
    <3>1. PICK room : Follows(wire, room, n)
        BY <1>7, Zenon DEF Leaves
    <3>2. Fits(op, room[1], room[1 + 1]) /\ room[1] \in Nat
        BY <1>5, <3>1 DEF Follows
    <3>3. op.do = "replace" => begun.first <= op.from /\ op.from <= begun.limit
        BY <1>4, <1>6, <3>2 DEF Fits, Op, Start
    <3>4. op.do # "replace" => begun.first <= op.from
                                  /\ op.from + 2 <= editsMap.lineCount
        BY <1>3, <1>5, <1>6, <2>3, <3>2, Zenon DEF Fits, Op, Inv, Numbers
    <3> QED  BY <1>3, <1>4, <1>6, <2>3, <2>5, <3>3, <3>4, ReturnedWithin, Zenon
  <2>7. /\ editsMap' \in Edit /\ editsMap' # NoEdit /\ Within(editsMap)'
        /\ editsMap'.lineCount = editsMap.lineCount
      BY <1>3, <2>1, <2>5, <2>6, NoEditApart, Zenon DEF Within
  <2>8. Types'
      BY <1>3, <1>5, <1>8, <2>4, <2>7, Zenon DEF Inv, Types
  <2>9. Phases'
    <3>1. \A q \in Requests : handlers'[q] # Idle =>
             /\ handlers[q] # Idle /\ handlers'[q].event = handlers[q].event
             /\ handlers'[q].pc = "saving" => handlers[q].pc = "saving"
        BY <2>2, <2>4, Zenon
    <3> QED  BY <1>3, <1>4, <2>3, <2>7, <3>1, SMTT(60) DEF Inv, Phases
  <2>10. Awaited'
    <3>1. \A k \in DOMAIN wire' : wire'[k].op.do # "save"
        BY <1>5, <2>3, Zenon
    <3>2. ASSUME NEW k \in DOMAIN wire', wire'[k].by # Idle
          PROVE  /\ handlers'[wire'[k].by] # Idle
                 /\ handlers'[wire'[k].by].pc = "await"
                 /\ \A j \in DOMAIN wire' : wire'[j].by = wire'[k].by => j = k
      <4>1. /\ handlers[wire[k + 1].by] # Idle /\ handlers[wire[k + 1].by].pc = "await"
            /\ \A j \in DOMAIN wire : wire[j].by = wire[k + 1].by => j = k + 1
          BY <1>5, <1>10, <2>3, <3>2, Zenon DEF Inv, Awaited
      <4>2. wire[k + 1].by \in Requests /\ wire[k + 1].by # by
        <5>1. wire[k + 1] \in Sent /\ wire[k + 1].by # Idle
            BY <1>4, <1>5, <3>2
        <5>2. wire[k + 1].by \in Requests
            BY <5>1, Zenon DEF Sent
        <5> QED  BY <1>5, <2>2, <2>3, <5>2, Zenon
      <4>3. handlers'[wire[k + 1].by] = handlers[wire[k + 1].by]
          BY <2>4, <4>2, Zenon
      <4>4. ASSUME NEW j \in DOMAIN wire', wire'[j].by = wire'[k].by
            PROVE  j = k
        <5>1. j + 1 = k + 1
            BY <1>5, <4>1, <4>4, Zenon
        <5>2. j \in Nat /\ k \in Nat
            BY <1>5
        <5> QED  BY <5>1, <5>2
      <4> QED  BY <1>5, <4>1, <4>3, <4>4, Zenon
    <3> QED  BY <3>1, <3>2, Zenon DEF Awaited
  <2>11. Numbers'
    <3>1. \A k \in DOMAIN wire' : wire'[k].op.do \in {"insert", "append"} =>
             wire'[k].op.from + 2 <= editsMap'.lineCount
        BY <1>5, <2>3, <2>7, Zenon DEF Inv, Numbers
    <3> QED  BY <1>3, <1>4, <2>7, <3>1, Zenon DEF Numbers
  <2>12. Rooms'
      BY <1>7, <1>8, <2>3, <2>7, Zenon DEF Rooms
  <2> QED  BY <2>8, <2>9, <2>10, <2>11, <2>12 DEF Inv
<1> QED  BY <1>9, <1>10, Zenon

\* The save answers End, and the entry is gone.
LEMMA SavedKeeps ==
    ASSUME Inv, NEW r \in Requests, handlers[r] # Idle, handlers[r].event = "End",
           Saved(r), wire' \in Seq(Sent),
           \A k \in DOMAIN wire' : ~applyDirectly /\ wire'[k].op.do # "save",
           begun' = begun, document' = document,
           saving' \in BOOLEAN, ~saving',
           begun # NoEdit => \E n \in Nat : Leaves(wire, n)',
           wire' # <<>> => begun # NoEdit,
           UNCHANGED <<applyDirectly, overlapping, onDisk, responseStream, sent>>
    PROVE  Inv'
<1>1. /\ handlers' = [handlers EXCEPT ![r] = Idle] /\ phase' = "over"
      /\ editsMap' = NoEdit /\ ended' = TRUE
    BY Zenon DEF Saved, Answered
<1>2. /\ handlers' \in [Requests -> Handler \cup {Idle}] /\ handlers'[r] = Idle
      /\ \A q \in Requests \ {r} : handlers'[q] = handlers[q]
    BY <1>1, OneHandler, Idle \in Handler \cup {Idle}, Zenon DEF Inv
<1>3. \A q \in Requests : handlers'[q] = Idle
    BY <1>2, OthersWork
<1>4. Types'
    BY <1>1, <1>2, Zenon DEF Inv, Types
<1>5. Phases'
    BY <1>1, <1>3, Zenon DEF Phases
<1>6. Awaited'
    BY Zenon DEF Awaited
<1>7. ~Editing'
    BY <1>1, Zenon DEF Editing
<1>8. Numbers'
    BY <1>1, <1>7, Zenon DEF Inv, Numbers
<1>9. Rooms'
    BY <1>7, Zenon DEF Rooms
<1> QED  BY <1>4, <1>5, <1>6, <1>8, <1>9, Zenon DEF Inv

\* saveOrdered: the save is the last of the wire.
LEMMA SaveOrderedKeeps ==
    ASSUME Inv, saveOrdered
    PROVE  Inv'
<1>1. PICK r : r = Head(wire).by
    BY Zenon
<1>2. /\ wire # <<>> /\ Head(wire).op.do = "save" /\ Saved(r) /\ wire' = Tail(wire)
      /\ UNCHANGED <<applyDirectly, overlapping, onDisk, responseStream, sent,
                     saving, document, begun>>
    BY <1>1, Zenon DEF saveOrdered, modeVars
<1>3. /\ wire \in Seq(Sent) /\ document \in Seq(Line) /\ document # <<>>
      /\ begun \in Start /\ begun # NoEdit /\ begun.limit < Len(begun.document)
    BY <1>2, Zenon DEF Inv, Types, Numbers
<1>4. /\ wire' \in Seq(Sent) /\ Len(wire) \in Nat /\ 1 \in DOMAIN wire
      /\ wire[1] = Head(wire) /\ Len(wire') = Len(wire) - 1
    BY <1>2, <1>3, TailOfWire, Zenon
<1>5. applyDirectly /\ 1 = Len(wire) /\ r \in Requests /\ IsSaving(r)
    BY <1>1, <1>2, <1>4, Zenon DEF Inv, Awaited
<1>6. handlers[r] # Idle /\ handlers[r].event = "End" /\ ~saving
    BY <1>5, Zenon DEF IsSaving, Inv, Phases
<1>7. DOMAIN wire' = {} /\ wire' = <<>>
  <2>1. Len(wire') = 0
      BY <1>4, <1>5
  <2> QED  BY <1>4, <2>1
<1>8. PICK n \in Nat : Leaves(wire, n)
    BY <1>3, Zenon DEF Inv, Rooms
<1>9. PICK op : op = Head(wire).op /\ op.do = "save"
    BY <1>2, Zenon
<1>10. Leaves(wire, n)'
    BY <1>2, <1>3, <1>8, <1>9, LeavesTail, Zenon
<1>11. saving' \in BOOLEAN /\ ~saving'
    BY <1>2, <1>6, Zenon DEF Inv, Types
<1> QED  BY <1>2, <1>4, <1>5, <1>6, <1>7, <1>10, <1>11, SavedKeeps, Zenon

\* saveUnordered: edits of the response stream may still be on their way.
LEMMA SaveUnorderedKeeps ==
    ASSUME Inv, NEW r \in Requests, saveUnordered(r)
    PROVE  Inv'
<1>1. /\ saving /\ handlers[r] # Idle /\ Saved(r) /\ saving' = FALSE
      /\ UNCHANGED <<applyDirectly, overlapping, onDisk, responseStream, sent,
                     wire, document, begun>>
    BY Zenon DEF saveUnordered, modeVars
<1>2. ~applyDirectly /\ \E q \in Requests : IsSaving(q)
    BY <1>1, Zenon DEF Inv, Phases
<1>3. handlers[r].event = "End"
    BY <1>1, <1>2, Zenon DEF Inv, Phases, IsSaving
<1>4. \A k \in DOMAIN wire : wire[k].op.do # "save"
    BY <1>2, Zenon DEF Inv, Awaited
<1>5. wire' \in Seq(Sent) /\ (wire # <<>> => begun # NoEdit)
    BY <1>1, Zenon DEF Inv, Types, Numbers
<1>6. ASSUME begun # NoEdit PROVE \E n \in Nat : Leaves(wire, n)'
  <2>1. PICK n \in Nat : Leaves(wire, n)
      BY <1>6, Zenon DEF Inv, Rooms
  <2>2. Leaves(wire, n)'
      BY <1>1, <2>1, LeavesSame, Zenon
  <2> QED  BY <2>2, Zenon
<1> QED  BY <1>1, <1>2, <1>3, <1>4, <1>5, <1>6, SavedKeeps, Zenon

-----------------------------------------------------------------------------
(* Theorems *)

\* Nothing has started.
LEMMA InitInv == Init => Inv
<1> SUFFICES ASSUME Init PROVE Inv
    BY Zenon
<1>1. /\ wire = <<>> /\ editsMap = NoEdit /\ begun = NoEdit /\ saving = FALSE
      /\ handlers = [r \in Requests |-> Idle]
    BY Zenon DEF Init
<1>2. document \in Seq(Line) /\ document # <<>>
  <2>1. File \in Seq(Line) /\ File # <<>>
      BY StreamAssumption, Zenon DEF Line
  <2>2. <<<<>>>> \in Seq(Line) /\ <<<<>>>> # <<>>
      BY DEF Line
  <2> QED  BY <2>1, <2>2 DEF Init
<1>3. Types
  <2>1. wire \in Seq(Sent) /\ sent \in Seq(Tokens)
      BY <1>1 DEF Init
  <2>2. /\ editsMap \in Edit \cup {NoEdit} /\ begun \in Start \cup {NoEdit}
        /\ handlers \in [Requests -> Handler \cup {Idle}]
      BY <1>1, Zenon
  <2> QED  BY <1>1, <1>2, <2>1, <2>2, Zenon DEF Init, Types
<1>4. Phases
    BY <1>1, SMTT(30) DEF Init, Phases
<1>5. Awaited /\ Rooms
    BY <1>1 DEF Awaited, Rooms
<1>6. Numbers
    BY <1>1, Zenon DEF Numbers, Editing
<1> QED  BY <1>3, <1>4, <1>5, <1>6, Zenon DEF Inv

\* One step of anybody.
LEMMA NextInv == Inv /\ [Next]_vars => Inv'
<1> SUFFICES ASSUME Inv, [Next]_vars PROVE Inv'
    BY Zenon
<1>1. CASE startOpened
  <2>1. PICK range \in Ranges(document) : Begins(document, range)
      BY <1>1, Zenon DEF startOpened
  <2>2. /\ phase = "new" /\ phase' = "streaming" /\ onDisk' = "present"
        /\ UNCHANGED <<applyDirectly, overlapping, responseStream, sent, handlers,
                       wire, saving, document, saved, ended>>
      BY <1>1, Zenon DEF startOpened, modeVars
  <2> QED  BY <2>1, <2>2, StartKeeps, Zenon
<1>2. CASE startCreated
  <2>1. PICK range \in Ranges(document) : Begins(document, range)
      BY <1>2, Zenon DEF startCreated
  <2>2. /\ phase = "new" /\ phase' = "streaming" /\ onDisk' = "present"
        /\ UNCHANGED <<applyDirectly, overlapping, responseStream, sent, handlers,
                       wire, saving, document, saved, ended>>
      BY <1>2, Zenon DEF startCreated
  <2> QED  BY <2>1, <2>2, StartKeeps
<1>3. CASE startFailed \/ closeStream \/ applyEdit \/ saveOrdered
    BY <1>3, FailedKeeps, CloseKeeps, ApplyKeeps, SaveOrderedKeeps, Zenon
<1>4. ASSUME NEW r \in Requests, NEW delta \in Deltas, Delta(r, delta) PROVE Inv'
    BY <1>4, DeltaKeeps, Zenon
<1>5. ASSUME NEW r \in Requests, End(r) PROVE Inv'
    BY <1>5, EndKeeps, Zenon
<1>6. ASSUME NEW r \in Requests, Step(r) PROVE Inv'
    BY <1>6, SkipKeeps, ProcessKeeps, ThrowsKeeps, DeltaEndsKeeps, EndDrainedKeeps,
       SaveUnorderedKeeps, Zenon DEF Step
<1>7. CASE UNCHANGED vars
    BY <1>7, Unchanged, Zenon
<1> QED  BY <1>1, <1>2, <1>3, <1>4, <1>5, <1>6, <1>7, Zenon DEF Next

\* The inductive invariant holds in every reachable state.
THEOREM RoomKept == Spec => []Inv
BY InitInv, NextInv, PTL DEF Spec

\* The types of the edit's state, the first indentation and the line numbers
\* included, whatever is streamed.
THEOREM StreamTyped == Spec => []TypeOK
<1>1. Inv => TypeOK
  <2> SUFFICES ASSUME Inv PROVE TypeOK
      BY Zenon
  <2>1. \A k \in DOMAIN sent : sent[k] \in Tokens
      BY DEF Inv, Types
  <2>2. ASSUME editsMap # NoEdit
        PROVE  /\ editsMap.documentLineIndex \in Nat
               /\ editsMap.documentLineLimit \in 0 .. Len(begun.document) - 1
               /\ editsMap.lineCount \in Nat /\ editsMap.indentDelta \in Int
    <3>1. editsMap \in Edit /\ begun \in Start /\ Within(editsMap)
             /\ begun.limit < Len(begun.document)
        BY <2>2, Zenon DEF Inv, Types, Numbers
    <3>2. Len(begun.document) \in Nat
        BY <3>1 DEF Start
    <3> QED  BY <3>1, <3>2 DEF Within, Edit, Start
  <2> QED  BY <2>1, <2>2, Zenon DEF Inv, Types, TypeOK, Handler
<1> QED  BY <1>1, RoomKept, PTL

\* Line by line, and as the property states it.
LEMMA ApartMeans ==
    ASSUME begun \in Start, document \in Seq(Line),
           begun.first <= begun.limit, begun.limit < Len(begun.document),
           NEW room \in Nat, Apart(room)
    PROVE  /\ Len(document) >= Len(Before) + Len(Behind)
           /\ SubSeq(document, 1, Len(Before)) = Before
           /\ SubSeq(document, Len(document) - Len(Behind) + 1, Len(document)) = Behind
<1> DEFINE doc == begun.document
           m == LinesBehind
<1>1. /\ doc \in Seq(Line) /\ Len(doc) \in Nat /\ Len(document) \in Nat
      /\ begun.first \in Nat /\ begun.limit \in Nat
      /\ m \in Nat /\ Len(doc) = begun.limit + 1 + m
    BY DEF Start, LinesBehind
<1>2. /\ begun.first < room /\ Len(document) = room + m
      /\ \A i \in 1 .. begun.first : document[i] = doc[i]
      /\ \A i \in 1 .. m : document[room + i] = doc[begun.limit + 1 + i]
    BY Zenon DEF Apart
<1>3. /\ Before \in Seq(Line) /\ Len(Before) = begun.first
      /\ \A i \in 1 .. begun.first : Before[i] = doc[i]
  <2>1. \A i \in 1 .. begun.first : doc[i] \in Line
      BY <1>1
  <2>2. /\ Before \in Seq(Line)
        /\ Len(Before) = IF 1 <= begun.first THEN begun.first - 1 + 1 ELSE 0
        /\ \A i \in 1 .. begun.first - 1 + 1 : Before[i] = doc[1 + i - 1]
      BY <1>1, <2>1 DEF Before
  <2> QED  BY <1>1, <2>2
<1>4. /\ Behind \in Seq(Line) /\ Len(Behind) = m
      /\ \A i \in 1 .. m : Behind[i] = doc[begun.limit + 1 + i]
  <2>1. PICK b \in Int : b = begun.limit + 2
      BY <1>1
  <2>2. PICK n \in Int : n = Len(doc)
      BY <1>1
  <2>3. \A i \in b .. n : doc[i] \in Line
      BY <1>1, <2>1, <2>2
  <2>4. Behind = SubSeq(doc, b, n)
      BY <2>1, <2>2, Zenon DEF Behind
  <2>5. n - b + 1 = m /\ m = IF b <= n THEN n - b + 1 ELSE 0
      BY <1>1, <2>1, <2>2, SMTT(60)
  <2> HIDE DEF doc, m
  <2>6. /\ Behind \in Seq(Line) /\ Len(Behind) = m
        /\ \A i \in 1 .. m : Behind[i] = doc[b + i - 1]
      BY <2>3, <2>4, <2>5
  <2>7. \A i \in 1 .. m : b + i - 1 = begun.limit + 1 + i
      BY <1>1, <2>1, SMTT(60)
  <2> QED  BY <2>6, <2>7, Zenon
<1> HIDE DEF doc, m
<1>5. SubSeq(document, 1, Len(Before)) = Before
    BY <1>1, <1>2, <1>3
<1>6. SubSeq(document, Len(document) - Len(Behind) + 1, Len(document)) = Behind
  <2>1. PICK lower : lower = SubSeq(document, room + 1, room + m)
      BY Zenon
  <2>2. /\ lower \in Seq(Line) /\ Len(lower) = m
        /\ \A i \in 1 .. m : lower[i] = document[room + i]
    <3>1. /\ lower \in Seq(Line)
          /\ Len(lower) = IF room + 1 <= room + m THEN room + m - (room + 1) + 1 ELSE 0
          /\ \A i \in 1 .. room + m - (room + 1) + 1 : lower[i] = document[room + 1 + i - 1]
        BY <1>1, <1>2, <2>1
    <3>2. room + m - (room + 1) + 1 = m /\ \A i \in 1 .. m : room + 1 + i - 1 = room + i
        BY <1>1
    <3>3. Len(lower) = m
        BY <1>1, <3>1, <3>2
    <3> QED  BY <3>1, <3>2, <3>3, Zenon
  <2>3. lower = Behind
    <3>1. \A i \in 1 .. m : lower[i] = Behind[i]
        BY <1>2, <1>4, <2>2, Zenon
    <3> QED  BY <1>1, <1>4, <2>2, <3>1
  <2>4. Len(document) = room + m /\ Len(document) - Len(Behind) + 1 = room + 1
      BY <1>1, <1>2, <1>4
  <2> QED  BY <2>1, <2>3, <2>4, Zenon
<1>7. Len(document) >= Len(Before) + Len(Behind)
  <2>1. Len(Before) = begun.first /\ Len(Behind) = m /\ Len(document) = room + m
      BY <1>2, <1>3, <1>4, Zenon
  <2> QED  BY <1>1, <1>2, <2>1
<1> QED  BY <1>5, <1>6, <1>7, Zenon

\* The lines before and behind the range of an edit stay as they were, at every
\* moment: for every file and range, every text cut into deltas anywhere, any
\* number of overlapping requests, and with failing ones in between.
THEOREM OutsideStays == Spec => []OutsideUntouched
<1>1. Inv => OutsideUntouched
  <2> SUFFICES ASSUME Inv, begun # NoEdit
               PROVE  /\ Len(document) >= Len(Before) + Len(Behind)
                      /\ SubSeq(document, 1, Len(Before)) = Before
                      /\ SubSeq(document, Len(document) - Len(Behind) + 1,
                                Len(document)) = Behind
      BY Zenon DEF OutsideUntouched
  <2>1. /\ begun \in Start /\ document \in Seq(Line)
        /\ begun.first <= begun.limit /\ begun.limit < Len(begun.document)
      BY Zenon DEF Inv, Types, Numbers
  <2>2. PICK n \in Nat : Leaves(wire, n)
      BY Zenon DEF Inv, Rooms
  <2>3. PICK room : Follows(wire, room, n)
      BY <2>2, Zenon DEF Leaves
  <2>4. room[1] \in Nat /\ Apart(room[1])
    <3>1. Len(wire) \in Nat
        BY DEF Inv, Types
    <3> QED  BY <2>3, <3>1 DEF Follows
  <2> QED  BY <2>1, <2>4, ApartMeans, Zenon
<1> QED  BY <1>1, RoomKept, PTL
=============================================================================
