--------------------------- MODULE CodeEditsProofs ---------------------------
(***************************************************************************)
(* For any number of chats, files, lines, sessions and edits: types hold,  *)
(* a session ignores changes of a document only while a call of updateView *)
(* that will clear the flag is under way, which is inductive with the      *)
(* types, a session makes its edits in the order of their arrival, and what*)
(* it wrote is in its hunks and goes when it is rejected.                  *)
(*                                                                         *)
(* For the order, the numbers in a queue must grow from its head to its    *)
(* end, the edit that waits for its document must be older than all of     *)
(* them, and nothing may be newer than the last edit received.             *)
(*                                                                         *)
(* For the hunks, a line that a session wrote must never be equal to a line*)
(* of its textModel0, or the diff would leave it out.  It is not because an*)
(* edit writes a text that is nowhere yet, not in the copies of sessions   *)
(* that have mirrored other texts, and that only one session has queued.   *)
(* The last diff asked for is then enough, whatever the earlier ones say.  *)
(***************************************************************************)
EXTENDS CodeEdits, TLAPS

LEMMA CopyFacts ==
  /\ \A s \in SessionIds, f \in Files :
       <<s, f>> \in Copies /\ <<s, f>>[1] = s /\ <<s, f>>[2] = f
  /\ \A k \in Copies : k[1] \in SessionIds /\ k[2] \in Files /\ k = <<k[1], k[2]>>
  BY DEF Copies

LEMMA MergedType == ASSUME NEW d \in SUBSET Lines PROVE MergedChanges(d) \in SUBSET Hunk
  BY DEF MergedChanges, Hunk, HunkStates

LEMMA MirroredHunksType ==
  ASSUME TypeOK, NEW k \in Copies, NEW P
  PROVE  MirroredHunks(k, P) \in SUBSET Hunk
<1>1. hunks[k] \in SUBSET Hunk
  BY Zenon DEF TypeOK
<1>2. ASSUME NEW h \in hunks[k] PROVE [h EXCEPT !.state = "Accepted"] \in Hunk
  BY <1>1, Zenon DEF Hunk, HunkStates
<1> QED
  BY <1>1, <1>2, Zenon DEF MirroredHunks

LEMMA MirroredTextType ==
  ASSUME TypeOK, NEW k \in Copies, NEW P \in SUBSET Lines, NEW N \in Document, NEW r
  PROVE  MirroredText(k, P, N, r) \in Document
<1> DEFINE Taken == P \ LinesIn(Pending(k))
           Lands(p) == IF Exact(k, N, p) THEN p ELSE r
           Text(q) == IF \E p \in Taken : Lands(p) = q
                      THEN N[CHOOSE p \in Taken : Lands(p) = q]
                      ELSE text0[k][q]
<1>0. text0[k] \in Document
  BY Zenon DEF TypeOK
<1>1. ASSUME NEW q \in Lines PROVE Text(q) \in Texts
  <2> HIDE DEF Lands
  <2>1. CASE \E p \in Taken : Lands(p) = q
    <3>1. (CHOOSE p \in Taken : Lands(p) = q) \in Taken
      BY <2>1, Zenon
    <3>2. (CHOOSE p \in Taken : Lands(p) = q) \in Lines
      BY <3>1, Zenon
    <3> QED
      BY <2>1, <3>2, Zenon DEF Document
  <2>2. CASE ~\E p \in Taken : Lands(p) = q
    <3>1. Text(q) = text0[k][q]
      BY Zenon, <2>2
    <3>2. text0[k][q] \in Texts
      BY <1>0, <1>1, Zenon DEF Document
    <3> QED
      BY Zenon, <3>1, <3>2
  <2> QED
    BY Zenon, <2>1, <2>2
<1>2. MirroredText(k, P, N, r) = [q \in Lines |-> Text(q)]
  BY Zenon DEF MirroredText
<1> QED
  BY <1>1, <1>2, Zenon DEF Document

-----------------------------------------------------------------------------
(* Types, one group of variables at a time *)

CopyType ==
    /\ known \subseteq Copies
    /\ ignoring \subseteq known
    /\ text0 \in [Copies -> Document]
    /\ hunks \in [Copies -> SUBSET Hunk]
    /\ views \in [Copies -> Seq(View)]
DocType ==
    /\ textN \in [Files -> Document]
    /\ writer \in [Files -> [Lines -> SessionIds \cup {NoSession}]]
    /\ disturbed \subseteq Copies
QueueType ==
    /\ queue \in [SessionIds -> Seq(Edit)]
    /\ running \in [SessionIds -> Edit \cup {NoEdit}]
SessionType ==
    /\ editingSessions \in [Chats -> SessionIds \cup {NoSession}]
    /\ chatOf \in Seq(Chats) /\ Len(chatOf) <= MaxSessions
    /\ disposed \subseteq SessionIds
PlanType ==
    /\ plan \in [Chats -> Seq(0 .. (MaxSteps - 1))]
    /\ steps \in [Chats -> 0 .. MaxSteps]
KeyType ==
    /\ lastExchangeComplete \in BOOLEAN
    /\ sessionHasEdits \subseteq Chats
    /\ thrown \subseteq {"Object has been disposed", "Index mismatch"}
CountType ==
    /\ open \subseteq Chats
    /\ loaded \subseteq Files
    /\ edits \in 0 .. MaxEdits
    /\ typed \in 0 .. MaxTyped
    /\ closed \in 0 .. MaxClosed

LEMMA TypeGroups ==
  TypeOK <=> /\ CopyType /\ DocType /\ QueueType /\ SessionType /\ PlanType
             /\ KeyType /\ CountType
  BY Zenon DEF TypeOK, CopyType, DocType, QueueType, SessionType, PlanType, KeyType, CountType

LEMMA TypeGroupsNext ==
  TypeOK' <=> /\ CopyType' /\ DocType' /\ QueueType' /\ SessionType' /\ PlanType'
              /\ KeyType' /\ CountType'
  BY Zenon DEF TypeOK, CopyType, DocType, QueueType, SessionType, PlanType, KeyType, CountType

\* A group whose variables do not change keeps its type.
LEMMA Frames ==
  ASSUME TypeOK
  PROVE  /\ UNCHANGED copyVars => CopyType'
         /\ UNCHANGED docVars => DocType'
         /\ UNCHANGED queueVars => QueueType'
         /\ UNCHANGED sessionVars => SessionType'
         /\ UNCHANGED planVars => PlanType'
         /\ UNCHANGED <<keyVars, thrown>> => KeyType'
         /\ UNCHANGED <<open, loaded, edits, typed, closed>> => CountType'
<1>1. UNCHANGED copyVars => CopyType'
  BY Zenon DEF copyVars, TypeOK, CopyType
<1>2. UNCHANGED docVars => DocType'
  BY Zenon DEF docVars, TypeOK, DocType
<1>3. UNCHANGED queueVars => QueueType'
  BY Zenon DEF queueVars, TypeOK, QueueType
<1>4. UNCHANGED sessionVars => SessionType'
  BY Zenon DEF sessionVars, TypeOK, SessionType
<1>5. UNCHANGED planVars => PlanType'
  BY Zenon DEF planVars, TypeOK, PlanType
<1>6. UNCHANGED <<keyVars, thrown>> => KeyType'
  BY Zenon DEF keyVars, TypeOK, KeyType
<1>7. UNCHANGED <<open, loaded, edits, typed, closed>> => CountType'
  BY Zenon DEF TypeOK, CountType
<1> QED
  BY <1>1, <1>2, <1>3, <1>4, <1>5, <1>6, <1>7, Zenon

LEMMA InitType == Init => TypeOK
<1> SUFFICES ASSUME Init PROVE TypeOK
  BY Zenon
<1>0. [p \in Lines |-> Base] \in Document
  BY EditsAssumption DEF Document, Texts, Base, Typed
<1>1. CopyType
  BY <1>0 DEF Init, CopyType
<1>2. DocType
  BY <1>0, Zenon DEF Init, DocType
<1>3. QueueType
  BY DEF Init, QueueType
<1>4. SessionType
  BY EditsAssumption DEF Init, SessionType
<1>5. PlanType
  <2>1. 0 \in 0 .. MaxSteps
    BY EditsAssumption
  <2> QED
    BY <2>1 DEF Init, PlanType
<1>6. KeyType
  BY Zenon DEF Init, KeyType
<1>7. CountType
  BY EditsAssumption DEF Init, CountType
<1> QED
  BY <1>1, <1>2, <1>3, <1>4, <1>5, <1>6, <1>7, TypeGroups, Zenon

\* An edit of a document, and what the copies of other sessions make of it.
LEMMA EditDocumentType ==
  ASSUME TypeOK, NEW s \in SessionIds, NEW e \in Edit, EditDocument(s, e)
  PROVE  CopyType' /\ DocType'
<1>1. e.file \in Files /\ e.line \in Lines /\ e.number \in Texts
  BY EditsAssumption DEF Edit, Texts, Typed
<1> DEFINE N == [textN[e.file] EXCEPT ![e.line] = e.number]
           k == <<s, e.file>>
<1>2. k \in Copies
  BY <1>1, CopyFacts, Zenon
<1>3. N \in Document
  BY <1>1, Zenon DEF TypeOK, Document
<1>4. DocType'
  BY <1>1, <1>3, Zenon DEF EditDocument, DocType, TypeOK
<1>5. known' \subseteq Copies /\ ignoring' \subseteq known'
  BY <1>2, Zenon DEF EditDocument, TypeOK
<1>6. views' \in [Copies -> Seq(View)]
  <2>1. Asked \in View
    BY Zenon DEF Asked, View
  <2>2. views' = [views EXCEPT ![k] = Append(@, Asked)]
    BY Zenon DEF EditDocument
  <2>3. views \in [Copies -> Seq(View)]
    BY Zenon DEF TypeOK
  <2>4. Append(views[k], Asked) \in Seq(View)
    BY <1>2, <2>1, <2>3
  <2> HIDE DEF k
  <2> QED
    BY <1>2, <2>2, <2>3, <2>4, Zenon
<1>7. hunks' \in [Copies -> SUBSET Hunk]
  <2>1. \A j \in Copies : MirroredHunks(j, {e.line}) \in SUBSET Hunk /\ hunks[j] \in SUBSET Hunk
    BY MirroredHunksType, Zenon DEF TypeOK
  <2> QED
    BY <2>1, Zenon DEF EditDocument
<1>8. text0' \in [Copies -> Document]
  <2>1. PICK r \in [SessionIds -> Lines] :
          text0' = [j \in Copies |->
             IF j = k /\ k \notin known THEN textN[e.file]
             ELSE IF j \in Listening(s, e.file) THEN MirroredText(j, {e.line}, N, r[j[1]])
             ELSE text0[j]]
    BY Zenon DEF EditDocument
  <2>2. ASSUME NEW j \in Copies PROVE MirroredText(j, {e.line}, N, r[j[1]]) \in Document
    BY <1>1, <1>3, MirroredTextType, Zenon
  <2>3. textN[e.file] \in Document /\ \A j \in Copies : text0[j] \in Document
    BY <1>1, Zenon DEF TypeOK
  <2> QED
    BY <2>1, <2>2, <2>3, Zenon
<1> QED
  BY <1>4, <1>5, <1>6, <1>7, <1>8, Zenon DEF CopyType

LEMMA DisposeType ==
  ASSUME TypeOK, NEW s \in SessionIds, NEW newHunks \in [Copies -> SUBSET Hunk],
         NEW newText0 \in [Copies -> Document], Dispose(s, newHunks, newText0)
  PROVE  /\ CopyType' /\ disposed' \subseteq SessionIds
         /\ queue' \in [SessionIds -> Seq(Edit)]
<1>1. BlankDocument \in Document
  BY EditsAssumption DEF BlankDocument, Document, Texts, Base, Typed
<1>2. known' \subseteq Copies /\ ignoring' \subseteq known'
  BY Zenon DEF Dispose, TypeOK
<1>3. text0' \in [Copies -> Document]
  BY <1>1, Zenon DEF Dispose
<1>4. hunks' \in [Copies -> SUBSET Hunk]
  BY Zenon DEF Dispose
<1>5. views' \in [Copies -> Seq(View)]
  <2>0. <<>> \in Seq(View)
    OBVIOUS
  <2>1. views \in [Copies -> Seq(View)]
    BY Zenon DEF TypeOK
  <2>2. views' = [k \in Copies |-> IF k[1] = s THEN <<>> ELSE views[k]]
    BY Zenon DEF Dispose
  <2> QED
    BY <2>0, <2>1, <2>2, Zenon
<1>6. disposed' \subseteq SessionIds
  BY Zenon DEF Dispose, TypeOK
<1>7. queue' \in [SessionIds -> Seq(Edit)]
  <2>0. <<>> \in Seq(Edit)
    OBVIOUS
  <2>1. queue \in [SessionIds -> Seq(Edit)]
    BY Zenon DEF TypeOK
  <2>2. queue' = [queue EXCEPT ![s] = <<>>]
    BY Zenon DEF Dispose
  <2> QED
    BY <2>0, <2>1, <2>2, Zenon
<1> QED
  BY <1>2, <1>3, <1>4, <1>5, <1>6, <1>7, Zenon DEF CopyType

\* The end of a session that leaves the copies of others alone.
LEMMA DisposeSameType ==
  ASSUME TypeOK, NEW s \in SessionIds, Dispose(s, hunks, text0)
  PROVE  /\ CopyType' /\ disposed' \subseteq SessionIds
         /\ queue' \in [SessionIds -> Seq(Edit)]
<1>1. hunks \in [Copies -> SUBSET Hunk] /\ text0 \in [Copies -> Document]
  BY Zenon DEF TypeOK
<1> QED
  BY <1>1, DisposeType, Zenon

LEMMA CompletedType ==
  ASSUME TypeOK, NEW c \in Chats, Completed(c), UNCHANGED steps
  PROVE  PlanType' /\ editingSessions' \in [Chats -> SessionIds \cup {NoSession}]
<1>1. editingSessions' \in [Chats -> SessionIds \cup {NoSession}]
  BY Zenon DEF Completed, TypeOK
<1>2. plan' \in [Chats -> Seq(0 .. (MaxSteps - 1))]
  <2>1. plan' = [d \in Chats |-> <<>>] /\ <<>> \in Seq(0 .. (MaxSteps - 1))
    BY DEF Completed
  <2> QED
    BY <2>1, Zenon
<1>3. steps' \in [Chats -> 0 .. MaxSteps]
  BY Zenon DEF TypeOK
<1> QED
  BY <1>1, <1>2, <1>3, Zenon DEF PlanType

LEMMA ApplyCodeEditType ==
  ASSUME TypeOK, NEW c \in Chats, NEW f \in Files, NEW p \in Lines, applyCodeEdit(c, f, p)
  PROVE  TypeOK'
<1> DEFINE old == editingSessions[c]
           s == IF old = NoSession THEN Len(chatOf) + 1 ELSE old
           e == [file |-> f, line |-> p, number |-> edits + 1]
<1>0. edits \in 0 .. MaxEdits /\ edits < MaxEdits /\ edits' = edits + 1 /\ MaxEdits \in Nat
  BY EditsAssumption, Zenon DEF applyCodeEdit, TypeOK
<1>1. e \in Edit
  BY <1>0 DEF Edit
<1>2. s \in SessionIds
  BY Zenon DEF applyCodeEdit
<1>3. QueueType'
  <2>1. queue' = queue \/ queue' = [queue EXCEPT ![s] = Append(@, e)]
    BY Zenon DEF applyCodeEdit
  <2>2. queue \in [SessionIds -> Seq(Edit)]
    BY Zenon DEF TypeOK
  <2>3. Append(queue[s], e) \in Seq(Edit)
    BY <1>1, <1>2, <2>2
  <2> HIDE DEF s, e
  <2>4. queue' \in [SessionIds -> Seq(Edit)]
    BY <1>2, <2>1, <2>2, <2>3, Zenon
  <2> QED
    BY <2>4, Zenon DEF applyCodeEdit, QueueType, TypeOK
<1>4. SessionType'
  <2>1. editingSessions' \in [Chats -> SessionIds \cup {NoSession}]
    BY <1>2, Zenon DEF applyCodeEdit, TypeOK
  <2>2. chatOf' \in Seq(Chats) /\ Len(chatOf') <= MaxSessions
    <3>1. CASE old = NoSession
      <4>1. chatOf' = Append(chatOf, c) /\ chatOf \in Seq(Chats)
        BY <3>1, Zenon DEF applyCodeEdit, TypeOK
      <4>2. Len(chatOf) + 1 \in SessionIds
        BY <1>2, <3>1, Zenon
      <4> QED
        BY <4>1, <4>2, EditsAssumption DEF SessionIds
    <3>2. CASE old # NoSession
      BY <3>2, Zenon DEF applyCodeEdit, TypeOK
    <3> QED
      BY <3>1, <3>2, Zenon
  <2> QED
    BY <2>1, <2>2, Zenon DEF applyCodeEdit, SessionType, TypeOK
<1>5. KeyType'
  <2>1. thrown' = thrown \/ thrown' = thrown \cup {"Object has been disposed"}
    BY Zenon DEF applyCodeEdit
  <2> QED
    BY <2>1, Zenon DEF applyCodeEdit, KeyType, TypeOK
<1>6. CountType'
  <2>1. edits' \in 0 .. MaxEdits
    BY <1>0
  <2> QED
    BY <2>1, Zenon DEF applyCodeEdit, CountType, TypeOK
<1>7. CopyType' /\ DocType' /\ PlanType'
  BY Frames, Zenon DEF applyCodeEdit
<1> QED
  BY <1>3, <1>4, <1>5, <1>6, <1>7, TypeGroupsNext, Zenon

LEMMA ProcessType ==
  ASSUME TypeOK, NEW s \in SessionIds, processWorkspaceEdit(s)
  PROVE  TypeOK'
<1> DEFINE e == Head(queue[s])
<1>1. queue \in [SessionIds -> Seq(Edit)] /\ queue[s] # <<>>
  BY Zenon DEF processWorkspaceEdit, Runnable, TypeOK
<1>2. e \in Edit /\ Tail(queue[s]) \in Seq(Edit)
  BY <1>1
<1>3. QueueType'
  <2>1. queue' \in [SessionIds -> Seq(Edit)]
    BY <1>1, <1>2, Zenon DEF processWorkspaceEdit
  <2>2. running' = running \/ running' = [running EXCEPT ![s] = e]
    BY Zenon DEF processWorkspaceEdit
  <2> QED
    BY <1>2, <2>1, <2>2, Zenon DEF QueueType, TypeOK
<1>4. CopyType' /\ DocType'
  <2>1. EditDocument(s, e) \/ UNCHANGED <<copyVars, docVars>>
    BY Zenon DEF processWorkspaceEdit
  <2> HIDE DEF e
  <2>2. CASE EditDocument(s, e)
    BY <1>2, <2>2, EditDocumentType, Zenon
  <2>3. CASE UNCHANGED <<copyVars, docVars>>
    BY <2>3, Frames, Zenon
  <2> QED
    BY <2>1, <2>2, <2>3, Zenon
<1>5. SessionType' /\ PlanType' /\ KeyType' /\ CountType'
  BY Frames, Zenon DEF processWorkspaceEdit
<1> QED
  BY <1>3, <1>4, <1>5, TypeGroupsNext, Zenon

LEMMA ModelType ==
  ASSUME TypeOK, NEW s \in SessionIds, createModelReference(s) \/ createModelReferenceFails(s)
  PROVE  TypeOK'
<1>1. running[s] \in Edit
  BY Zenon DEF createModelReference, createModelReferenceFails, TypeOK
<1>2. QueueType'
  BY Zenon DEF createModelReference, createModelReferenceFails, QueueType, TypeOK
<1>3. CopyType' /\ DocType' /\ CountType'
  <2>1. CASE createModelReference(s)
    <3>1. CopyType' /\ DocType'
      BY <1>1, <2>1, EditDocumentType, Zenon DEF createModelReference
    <3>2. running[s].file \in Files
      BY <1>1, Zenon DEF Edit
    <3> QED
      BY <2>1, <3>1, <3>2, Zenon DEF createModelReference, CountType, TypeOK
  <2>2. CASE createModelReferenceFails(s)
    BY <2>2, Frames, Zenon DEF createModelReferenceFails
  <2> QED
    BY <2>1, <2>2, Zenon
<1>4. SessionType' /\ PlanType' /\ KeyType'
  BY Frames, Zenon DEF createModelReference, createModelReferenceFails
<1> QED
  BY <1>2, <1>3, <1>4, TypeGroupsNext, Zenon

LEMMA ViewType ==
  ASSUME TypeOK, NEW k \in Copies, calculateDiff(k) \/ updateView(k)
  PROVE  TypeOK'
<1>1. views \in [Copies -> Seq(View)]
  BY Zenon DEF TypeOK
<1>2. views' \in [Copies -> Seq(View)]
  <2>1. CASE calculateDiff(k)
    <3>1. PICK i \in 1 .. Len(views[k]) :
            views' = [views EXCEPT ![k][i] = [ready |-> TRUE, lines |-> Differing(k[2], k)]]
      BY <2>1, Zenon DEF calculateDiff
    <3>2. [ready |-> TRUE, lines |-> Differing(k[2], k)] \in View
      BY Zenon DEF View, Differing
    <3>3. [views[k] EXCEPT ![i] = [ready |-> TRUE, lines |-> Differing(k[2], k)]] \in Seq(View)
      BY <1>1, <3>2
    <3> QED
      BY <1>1, <3>1, <3>3, Zenon
  <2>2. CASE updateView(k)
    <3>1. views' = [views EXCEPT ![k] = Tail(@)] /\ views[k] # <<>>
      BY <2>2, Zenon DEF updateView
    <3> QED
      BY <1>1, <3>1
  <2> QED
    BY <2>1, <2>2, Zenon
<1>3. CopyType'
  <2>1. hunks' \in [Copies -> SUBSET Hunk]
    <3>1. CASE updateView(k)
      <4>1. Head(views[k]) \in View
        <5>1. views[k] # <<>>
          BY Zenon, <3>1 DEF updateView
        <5>2. views[k] \in Seq(View)
          BY <1>1, Zenon
        <5> QED
          BY <5>1, <5>2
      <4>2. MergedChanges(Head(views[k]).lines) \in SUBSET Hunk
        BY <4>1, MergedType, Zenon DEF View
      <4> QED
        BY <3>1, <4>2, Zenon DEF updateView, TypeOK
    <3>2. CASE calculateDiff(k)
      BY <3>2, Zenon DEF calculateDiff, TypeOK
    <3> QED
      BY <3>1, <3>2, Zenon
  <2>2. /\ known' = known /\ text0' = text0 /\ ignoring' \subseteq ignoring
    BY Zenon DEF updateView, calculateDiff
  <2> QED
    BY <1>2, <2>1, <2>2, Zenon DEF CopyType, TypeOK
<1>4. DocType' /\ QueueType' /\ SessionType' /\ PlanType' /\ KeyType' /\ CountType'
  BY Frames, Zenon DEF updateView, calculateDiff
<1> QED
  BY <1>3, <1>4, TypeGroupsNext, Zenon

LEMMA TypingType ==
  ASSUME TypeOK, NEW f \in Files, NEW p \in Lines, userTypes(f, p)
  PROVE  TypeOK'
<1> DEFINE N == [textN[f] EXCEPT ![p] = Typed]
           L == Listening(NoSession, f)
<1>1. N \in Document
  <2>1. Typed \in Texts
    BY EditsAssumption DEF Texts, Typed
  <2> QED
    BY <2>1, Zenon DEF TypeOK, Document
<1>2. DocType'
  BY <1>1, Zenon DEF userTypes, DocType, TypeOK
<1>3. hunks' \in [Copies -> SUBSET Hunk]
  <2>1. \A j \in Copies : MirroredHunks(j, {p}) \in SUBSET Hunk /\ hunks[j] \in SUBSET Hunk
    BY MirroredHunksType, Zenon DEF TypeOK
  <2> QED
    BY <2>1, Zenon DEF userTypes
<1>4. text0' \in [Copies -> Document]
  <2>1. PICK r \in [SessionIds -> Lines] :
          text0' = [j \in Copies |->
             IF j \in L THEN MirroredText(j, {p}, N, r[j[1]]) ELSE text0[j]]
    BY Zenon DEF userTypes
  <2>2. ASSUME NEW j \in Copies PROVE MirroredText(j, {p}, N, r[j[1]]) \in Document
    BY <1>1, MirroredTextType, Zenon
  <2>3. \A j \in Copies : text0[j] \in Document
    BY Zenon DEF TypeOK
  <2> QED
    BY <2>1, <2>2, <2>3, Zenon
<1>5. CopyType'
  BY <1>3, <1>4, Zenon DEF userTypes, CopyType, TypeOK
<1>6. CountType'
  <2>1. typed \in 0 .. MaxTyped /\ typed < MaxTyped /\ typed' = typed + 1 /\ MaxTyped \in Nat
    BY EditsAssumption, Zenon DEF userTypes, TypeOK
  <2>2. typed' \in 0 .. MaxTyped
    BY <2>1
  <2> QED
    BY <2>2, Zenon DEF userTypes, CountType, TypeOK
<1>7. QueueType' /\ SessionType' /\ PlanType' /\ KeyType'
  BY Frames, Zenon DEF userTypes
<1> QED
  BY <1>2, <1>5, <1>6, <1>7, TypeGroupsNext, Zenon

LEMMA DecideType ==
  ASSUME TypeOK, NEW c \in Chats, accept(c) \/ reject(c)
  PROVE  TypeOK'
<1> DEFINE s == editingSessions[c]
<1>1. s \in SessionIds
  BY Zenon DEF accept, reject, CanDecide
<1>2. PlanType' /\ editingSessions' \in [Chats -> SessionIds \cup {NoSession}]
  BY CompletedType, Zenon DEF accept, reject
<1>3. /\ CopyType' /\ disposed' \subseteq SessionIds
      /\ queue' \in [SessionIds -> Seq(Edit)] /\ DocType'
  <2>1. CASE accept(c)
    <3>1. Dispose(s, hunks, text0) /\ UNCHANGED docVars
      BY <2>1, Zenon DEF accept
    <3> HIDE DEF s
    <3> QED
      BY <1>1, <3>1, DisposeSameType, Frames, Zenon
  <2>2. CASE reject(c)
    <3> DEFINE Seen(k) == k \in Listening(s, k[2])
    <3>1. ASSUME NEW f \in Files PROVE Discarded(s, f) \in Document
      <4>1. textN[f] \in Document /\ text0[<<s, f>>] \in Document
        BY <1>1, CopyFacts, Zenon DEF TypeOK
      <4> QED
        BY <4>1, Zenon DEF Discarded, Document
    <3>2. \A f \in Files : DiscardedLines(s, f) \in SUBSET Lines
      <4>1. ASSUME NEW f \in Files PROVE hunks[<<s, f>>] \in SUBSET Hunk
        BY <1>1, CopyFacts, Zenon DEF TypeOK
      <4> QED
        BY <4>1, Zenon DEF DiscardedLines, LinesIn, Pending, Hunk
    <3>3. DocType'
      <4>1. textN' = [f \in Files |-> Discarded(s, f)]
        BY <2>2, Zenon DEF reject
      <4>2. writer' \in [Files -> [Lines -> SessionIds \cup {NoSession}]]
        BY <2>2, ZenonT(60) DEF reject, TypeOK
      <4>3. disturbed' \subseteq Copies
        <5>1. disturbed' \subseteq disturbed \cup known
          BY <2>2, Zenon DEF reject
        <5> QED
          BY <5>1, Zenon DEF TypeOK
      <4> HIDE DEF s
      <4> QED
        BY <3>1, <4>1, <4>2, <4>3, Zenon DEF DocType
    <3>4. PICK r \in [SessionIds -> Lines] :
            Dispose(s,
               [k \in Copies |-> IF Seen(k)
                  THEN MirroredHunks(k, DiscardedLines(s, k[2])) ELSE hunks[k]],
               [k \in Copies |-> IF Seen(k)
                  THEN MirroredText(k, DiscardedLines(s, k[2]), Discarded(s, k[2]), r[k[1]])
                  ELSE text0[k]])
      BY <2>2, Zenon DEF reject
    <3> HIDE DEF s, Seen
    <3>5. [k \in Copies |-> IF Seen(k)
             THEN MirroredHunks(k, DiscardedLines(s, k[2])) ELSE hunks[k]]
          \in [Copies -> SUBSET Hunk]
      <4>1. \A k \in Copies : MirroredHunks(k, DiscardedLines(s, k[2])) \in SUBSET Hunk
                              /\ hunks[k] \in SUBSET Hunk
        BY MirroredHunksType, Zenon DEF TypeOK
      <4> QED
        BY <4>1, Zenon
    <3>6. [k \in Copies |-> IF Seen(k)
             THEN MirroredText(k, DiscardedLines(s, k[2]), Discarded(s, k[2]), r[k[1]])
             ELSE text0[k]]
          \in [Copies -> Document]
      <4>1. ASSUME NEW k \in Copies
            PROVE  MirroredText(k, DiscardedLines(s, k[2]), Discarded(s, k[2]), r[k[1]])
                     \in Document
        <5>1. k[2] \in Files
          BY CopyFacts, Zenon
        <5> QED
          BY <3>1, <3>2, <5>1, MirroredTextType, Zenon
      <4>2. \A k \in Copies : text0[k] \in Document
        BY Zenon DEF TypeOK
      <4> QED
        BY <4>1, <4>2, Zenon
    <3> QED
      BY <1>1, <3>3, <3>4, <3>5, <3>6, DisposeType, Zenon
  <2> QED
    BY <2>1, <2>2, Zenon
<1>4. SessionType'
  BY <1>2, <1>3, Zenon DEF accept, reject, SessionType, TypeOK
<1>5. QueueType'
  BY <1>3, Zenon DEF accept, reject, QueueType, TypeOK
<1>6. KeyType' /\ CountType'
  BY Frames, Zenon DEF accept, reject
<1> QED
  BY <1>2, <1>3, <1>4, <1>5, <1>6, TypeGroupsNext, Zenon

LEMMA AddRequestType ==
  ASSUME TypeOK, NEW c \in Chats, addRequest(c)
  PROVE  TypeOK'
<1>1. DocType' /\ CountType'
  BY Frames, Zenon DEF addRequest
<1>2. KeyType'
  BY Zenon DEF addRequest, KeyType, TypeOK
<1>3. CASE editingSessions[c] \in SessionIds \ disposed
  <2>1. /\ Dispose(editingSessions[c], hunks, text0) /\ Completed(c)
        /\ UNCHANGED <<chatOf, running, steps>>
    BY <1>3, Zenon DEF addRequest
  <2>2. /\ CopyType' /\ disposed' \subseteq SessionIds
        /\ queue' \in [SessionIds -> Seq(Edit)]
    BY <1>3, <2>1, DisposeSameType, Zenon
  <2>3. PlanType' /\ editingSessions' \in [Chats -> SessionIds \cup {NoSession}]
    BY <2>1, CompletedType, Zenon
  <2>4. QueueType' /\ SessionType'
    BY <2>1, <2>2, <2>3, Zenon DEF QueueType, SessionType, TypeOK
  <2> QED
    BY <1>1, <1>2, <2>2, <2>3, <2>4, TypeGroupsNext, Zenon
<1>4. CASE editingSessions[c] \notin SessionIds \ disposed
  <2>1. UNCHANGED <<copyVars, queueVars, sessionVars, planVars>>
    BY <1>4, Zenon DEF addRequest, queueVars, sessionVars, planVars
  <2> QED
    BY <1>1, <1>2, <2>1, Frames, TypeGroupsNext, Zenon
<1> QED
  BY <1>3, <1>4, Zenon

LEMMA CloseType ==
  ASSUME TypeOK, NEW c \in Chats, dispose(c)
  PROVE  TypeOK'
<1>1. DocType' /\ KeyType'
  BY Frames, Zenon DEF dispose
<1>2. CountType'
  <2>1. closed \in 0 .. MaxClosed /\ closed < MaxClosed /\ closed' = closed + 1 /\ MaxClosed \in Nat
    BY EditsAssumption, Zenon DEF dispose, TypeOK
  <2>2. closed' \in 0 .. MaxClosed
    BY <2>1
  <2> QED
    BY <2>2, Zenon DEF dispose, CountType, TypeOK
<1>3. PlanType'
  <2>1. <<>> \in Seq(0 .. (MaxSteps - 1))
    OBVIOUS
  <2>2. plan \in [Chats -> Seq(0 .. (MaxSteps - 1))] /\ plan' = [plan EXCEPT ![c] = <<>>]
    BY Zenon DEF dispose, TypeOK
  <2>3. plan' \in [Chats -> Seq(0 .. (MaxSteps - 1))]
    BY <2>1, <2>2, Zenon
  <2> QED
    BY <2>3, Zenon DEF dispose, PlanType, TypeOK
<1>4. CASE editingSessions[c] \in SessionIds \ disposed
  <2>1. /\ Dispose(editingSessions[c], hunks, text0)
        /\ UNCHANGED <<editingSessions, chatOf, running>>
    BY <1>4, Zenon DEF dispose
  <2>2. /\ CopyType' /\ disposed' \subseteq SessionIds
        /\ queue' \in [SessionIds -> Seq(Edit)]
    BY <1>4, <2>1, DisposeSameType, Zenon
  <2>3. QueueType' /\ SessionType'
    BY <2>1, <2>2, Zenon DEF QueueType, SessionType, TypeOK
  <2> QED
    BY <1>1, <1>2, <1>3, <2>2, <2>3, TypeGroupsNext, Zenon
<1>5. CASE editingSessions[c] \notin SessionIds \ disposed
  <2>1. UNCHANGED <<copyVars, queueVars, sessionVars>>
    BY <1>5, Zenon DEF dispose, queueVars, sessionVars
  <2> QED
    BY <1>1, <1>2, <1>3, <2>1, Frames, TypeGroupsNext, Zenon
<1> QED
  BY <1>4, <1>5

LEMMA AppendType ==
  ASSUME NEW C, NEW S, NEW q \in [C -> Seq(S)], NEW c \in C, NEW x \in S
  PROVE  [q EXCEPT ![c] = Append(@, x)] \in [C -> Seq(S)]
  OBVIOUS

LEMMA PlanStepType ==
  ASSUME TypeOK, NEW c \in Chats, NEW i \in 0 .. (MaxSteps - 1), applyPlanStep(c, i)
  PROVE  TypeOK'
<1>1. CopyType' /\ DocType' /\ QueueType' /\ SessionType' /\ CountType'
  BY Frames, Zenon DEF applyPlanStep
<1>2. KeyType'
  BY Zenon DEF applyPlanStep, KeyType, TypeOK
<1>3. plan' \in [Chats -> Seq(0 .. (MaxSteps - 1))]
  <2>1. plan' = plan \/ plan' = [plan EXCEPT ![c] = Append(@, i)]
    BY Zenon DEF applyPlanStep
  <2>2. plan \in [Chats -> Seq(0 .. (MaxSteps - 1))]
    BY Zenon DEF TypeOK
  <2>3. [plan EXCEPT ![c] = Append(@, i)] \in [Chats -> Seq(0 .. (MaxSteps - 1))]
    BY <2>2, AppendType, ZenonT(60)
  <2> QED
    BY <2>1, <2>2, <2>3, Zenon
<1>4. steps' \in [Chats -> 0 .. MaxSteps]
  <2>1. i + 1 \in 0 .. MaxSteps
    BY EditsAssumption
  <2>2. steps \in [Chats -> 0 .. MaxSteps] /\ steps' = [steps EXCEPT ![c] = IF i = @ THEN i + 1 ELSE @]
    BY Zenon DEF applyPlanStep, TypeOK
  <2> QED
    BY <2>1, <2>2, Zenon
<1> QED
  BY <1>1, <1>2, <1>3, <1>4, TypeGroupsNext, Zenon DEF PlanType

LEMMA NextType == TypeOK /\ [Next]_vars => TypeOK'
<1> SUFFICES ASSUME TypeOK, [Next]_vars PROVE TypeOK'
  BY Zenon
<1>1. ASSUME NEW f \in Files, openEditor(f) PROVE TypeOK'
  <2>1. /\ CopyType' /\ DocType' /\ QueueType' /\ SessionType' /\ PlanType' /\ KeyType'
    BY <1>1, Frames, Zenon DEF openEditor
  <2>2. CountType'
    BY <1>1, Zenon DEF openEditor, CountType, TypeOK
  <2> QED
    BY <2>1, <2>2, TypeGroupsNext, Zenon
<1>2. ASSUME NEW c \in Chats, completeResponse(c) \/ setCodeEdits(c) PROVE TypeOK'
  <2>1. /\ CopyType' /\ DocType' /\ QueueType' /\ SessionType' /\ PlanType' /\ CountType'
    BY <1>2, Frames, Zenon DEF completeResponse, setCodeEdits
  <2>2. KeyType'
    BY <1>2, Zenon DEF completeResponse, setCodeEdits, KeyType, TypeOK
  <2> QED
    BY <2>1, <2>2, TypeGroupsNext, Zenon
<1>3. ASSUME NEW c \in Chats, getOrRestoreSession(c) PROVE TypeOK'
  <2>1. /\ CopyType' /\ DocType' /\ QueueType' /\ SessionType' /\ PlanType' /\ KeyType'
    BY <1>3, Frames, Zenon DEF getOrRestoreSession
  <2>2. CountType'
    BY <1>3, Zenon DEF getOrRestoreSession, CountType, TypeOK
  <2> QED
    BY <2>1, <2>2, TypeGroupsNext
<1>4. CASE UNCHANGED vars
  BY <1>4, Frames, TypeGroupsNext, Zenon DEF vars
<1> QED
  BY <1>1, <1>2, <1>3, <1>4, ApplyCodeEditType, ProcessType, ModelType, ViewType,
     TypingType, DecideType, AddRequestType, CloseType, PlanStepType, Zenon DEF Next

\* The state of editing sessions, plans and documents is well typed, for any
\* values of the bounds.
THEOREM EditsTyped == Spec => []TypeOK
  BY InitType, NextType, PTL DEF Spec

-----------------------------------------------------------------------------
(* Ignoring changes of a document *)

LEMMA EditDocumentIgnoring ==
  ASSUME TypeOK, IgnoringEnds, NEW s \in SessionIds, NEW e \in Edit, EditDocument(s, e)
  PROVE  IgnoringEnds'
<1> DEFINE k == <<s, e.file>>
<1>1. k \in Copies
  BY CopyFacts, Zenon DEF Edit
<1>2. views \in [Copies -> Seq(View)] /\ ignoring \subseteq Copies
  BY Zenon DEF TypeOK
<1>3. ignoring' = ignoring \cup {k} /\ views' = [views EXCEPT ![k] = Append(@, Asked)]
  BY Zenon DEF EditDocument
<1> HIDE DEF k
<1>4. views'[k] # <<>>
  <2>1. views'[k] = Append(views[k], Asked) /\ views[k] \in Seq(View)
    BY <1>1, <1>2, <1>3, Zenon
  <2>2. Asked \in View
    BY Zenon DEF Asked, View
  <2>3. Len(Append(views[k], Asked)) # 0
    BY <2>1, <2>2
  <2> QED
    BY <2>1, <2>3
<1> QED
  BY <1>1, <1>2, <1>3, <1>4, Zenon DEF IgnoringEnds

LEMMA DisposeIgnoring ==
  ASSUME TypeOK, IgnoringEnds, NEW s \in SessionIds, NEW H, NEW T, Dispose(s, H, T)
  PROVE  IgnoringEnds'
<1>1. ASSUME NEW k \in ignoring' PROVE views'[k] # <<>>
  <2>1. k \in ignoring /\ k \in Copies /\ k \notin CopiesOf(s)
    BY <1>1, Zenon DEF Dispose, TypeOK
  <2>2. k[1] # s
    <3>1. k[2] \in Files /\ k = <<k[1], k[2]>>
      BY <2>1, CopyFacts, Zenon
    <3>2. k[1] = s => k \in {s} \X Files
      BY <3>1, Zenon
    <3> QED
      BY <2>1, <3>2, Zenon DEF CopiesOf
  <2>3. views'[k] = views[k]
    BY <2>1, <2>2, Zenon DEF Dispose
  <2> QED
    BY <2>1, <2>3, Zenon DEF IgnoringEnds
<1> QED
  BY <1>1, Zenon DEF IgnoringEnds

LEMMA ViewIgnoring ==
  ASSUME TypeOK, IgnoringEnds, NEW k \in Copies, calculateDiff(k) \/ updateView(k)
  PROVE  IgnoringEnds'
<1>1. views \in [Copies -> Seq(View)] /\ ignoring \subseteq Copies
  BY Zenon DEF TypeOK
<1>2. CASE calculateDiff(k)
  <2>1. PICK i \in 1 .. Len(views[k]) :
          views' = [views EXCEPT ![k][i] = [ready |-> TRUE, lines |-> Differing(k[2], k)]]
    BY <1>2, Zenon DEF calculateDiff
  <2>2. views'[k] # <<>>
    BY <1>1, <2>1
  <2>3. \A j \in Copies : j # k => views'[j] = views[j]
    BY <1>1, <2>1, Zenon
  <2> QED
    BY <1>1, <1>2, <2>2, <2>3, Zenon DEF calculateDiff, IgnoringEnds
<1>3. CASE updateView(k)
  <2>1. ignoring' = ignoring \ {k} /\ \A j \in Copies : j # k => views'[j] = views[j]
    BY <1>1, <1>3, Zenon DEF updateView
  <2> QED
    BY <1>1, <2>1, Zenon DEF IgnoringEnds
<1> QED
  BY <1>2, <1>3, Zenon

LEMMA NextIgnoring == TypeOK /\ IgnoringEnds /\ [Next]_vars => IgnoringEnds'
<1> SUFFICES ASSUME TypeOK, IgnoringEnds, [Next]_vars PROVE IgnoringEnds'
  BY Zenon
<1>0. UNCHANGED copyVars => IgnoringEnds'
  BY Zenon DEF copyVars, IgnoringEnds
<1>1. ASSUME NEW s \in SessionIds, processWorkspaceEdit(s) PROVE IgnoringEnds'
  <2>0. queue \in [SessionIds -> Seq(Edit)] /\ queue[s] # <<>>
    BY <1>1, Zenon DEF processWorkspaceEdit, Runnable, TypeOK
  <2>1. Head(queue[s]) \in Edit
    BY <2>0
  <2>2. EditDocument(s, Head(queue[s])) \/ UNCHANGED copyVars
    BY <1>1, Zenon DEF processWorkspaceEdit
  <2> QED
    BY <1>0, <2>1, <2>2, EditDocumentIgnoring, Zenon
<1>2. ASSUME NEW s \in SessionIds, createModelReference(s) PROVE IgnoringEnds'
  <2>1. running[s] \in Edit /\ EditDocument(s, running[s])
    BY <1>2, Zenon DEF createModelReference, TypeOK
  <2> QED
    BY <2>1, EditDocumentIgnoring, Zenon
<1>3. ASSUME NEW c \in Chats, accept(c) \/ reject(c) PROVE IgnoringEnds'
  <2>1. editingSessions[c] \in SessionIds
    BY <1>3, Zenon DEF accept, reject, CanDecide
  <2>2. \E H, T : Dispose(editingSessions[c], H, T)
    BY <1>3, Zenon DEF accept, reject
  <2> QED
    BY <2>1, <2>2, DisposeIgnoring, Zenon
<1>4. ASSUME NEW c \in Chats, addRequest(c) \/ dispose(c) PROVE IgnoringEnds'
  <2>1. \/ editingSessions[c] \in SessionIds /\ Dispose(editingSessions[c], hunks, text0)
        \/ UNCHANGED copyVars
    BY <1>4, Zenon DEF addRequest, dispose
  <2> QED
    BY <1>0, <2>1, DisposeIgnoring, Zenon
<1>5. ASSUME NEW f \in Files, NEW p \in Lines, userTypes(f, p) PROVE IgnoringEnds'
  BY <1>5, Zenon DEF userTypes, IgnoringEnds
<1>6. ASSUME NEW c \in Chats, NEW f \in Files, NEW p \in Lines, applyCodeEdit(c, f, p)
      PROVE  IgnoringEnds'
  BY <1>0, <1>6, Zenon DEF applyCodeEdit
<1>7. ASSUME NEW s \in SessionIds, createModelReferenceFails(s) PROVE IgnoringEnds'
  BY <1>0, <1>7, Zenon DEF createModelReferenceFails
<1>8. ASSUME NEW f \in Files, openEditor(f) PROVE IgnoringEnds'
  BY <1>0, <1>8, Zenon DEF openEditor
<1>9. ASSUME NEW c \in Chats, completeResponse(c) \/ getOrRestoreSession(c) \/ setCodeEdits(c)
      PROVE  IgnoringEnds'
  BY <1>0, <1>9, Zenon DEF completeResponse, getOrRestoreSession, setCodeEdits
<1>10. ASSUME NEW c \in Chats, NEW i, applyPlanStep(c, i) PROVE IgnoringEnds'
  BY <1>0, <1>10, Zenon DEF applyPlanStep
<1>11. CASE UNCHANGED vars
  BY <1>0, <1>11, Zenon DEF vars
<1> QED
  BY <1>1, <1>2, <1>3, <1>4, <1>5, <1>6, <1>7, <1>8, <1>9, <1>10, <1>11, ViewIgnoring, Zenon DEF Next

\* ignoreTextModelNChanges is set only while a call of updateView is under
\* way, which clears it, however calls of several edits and sessions overlap
\* and whatever ends the session.
THEOREM IgnoringAlwaysEnds == Spec => []IgnoringEnds
<1>1. Init => IgnoringEnds
  BY Zenon DEF Init, IgnoringEnds
<1> QED
  BY <1>1, EditsTyped, NextIgnoring, PTL DEF Spec

-----------------------------------------------------------------------------
(* The order of the edits *)

\* The edits of a queue are in the order of their arrival, and the edit that
\* waits for its document came before them.
QueuesGrow ==
    \A s \in SessionIds : \A i \in 1 .. Len(queue[s]) :
        /\ queue[s][i].number <= edits
        /\ \A j \in 1 .. (i - 1) : queue[s][j].number < queue[s][i].number
        /\ running[s] # NoEdit => running[s].number < queue[s][i].number

\* No edit is newer than the last one received.
NothingNewer ==
    /\ \A s \in SessionIds : running[s] # NoEdit => running[s].number <= edits
    /\ \A f \in Files, p \in Lines : writer[f][p] # NoSession => textN[f][p] <= edits

OrderInv == QueuesGrow /\ NothingNewer /\ EditsInOrder

\* What an edit does to the lines of documents.
LEMMA EditDocumentLines ==
  ASSUME TypeOK, NEW s \in SessionIds, NEW e \in Edit, EditDocument(s, e),
         NEW f \in Files, NEW p \in Lines
  PROVE  \/ writer'[f][p] = s /\ textN'[f][p] = e.number
         \/ writer'[f][p] = writer[f][p] /\ textN'[f][p] = textN[f][p]
<1>1. /\ textN' = [textN EXCEPT ![e.file] = [textN[e.file] EXCEPT ![e.line] = e.number]]
      /\ writer' = [writer EXCEPT ![e.file][e.line] = s]
  BY Zenon DEF EditDocument
<1>2. /\ textN \in [Files -> [Lines -> Texts]]
      /\ writer \in [Files -> [Lines -> SessionIds \cup {NoSession}]]
      /\ e.file \in Files /\ e.line \in Lines
  BY Zenon DEF TypeOK, Document, Edit
<1>3. CASE f = e.file /\ p = e.line
  BY <1>1, <1>2, <1>3, Zenon
<1>4. CASE f # e.file \/ p # e.line
  BY <1>1, <1>2, <1>4, Zenon
<1> QED
  BY <1>3, <1>4, Zenon

\* Making the oldest edit of s keeps the order.
LEMMA EditDocumentOrder ==
  ASSUME TypeOK, OrderInv, NEW s \in SessionIds, NEW e \in Edit, EditDocument(s, e),
         e.number <= edits, edits' = edits, disposed' = disposed,
         \A u \in SessionIds : u # s => queue'[u] = queue[u] /\ running'[u] = running[u],
         running'[s] = NoEdit,
         \A i \in 1 .. Len(queue'[s]) :
            /\ e.number < queue'[s][i].number
            /\ \E j \in 1 .. Len(queue[s]) : queue'[s][i] = queue[s][j]
  PROVE  NothingNewer' /\ EditsInOrder'
<1>1. NothingNewer'
  <2>1. ASSUME NEW u \in SessionIds, running'[u] # NoEdit PROVE running'[u].number <= edits'
    BY <2>1, Zenon DEF OrderInv, NothingNewer
  <2>2. ASSUME NEW f \in Files, NEW p \in Lines, writer'[f][p] # NoSession
        PROVE  textN'[f][p] <= edits'
    BY <2>2, EditDocumentLines, Zenon DEF OrderInv, NothingNewer
  <2> QED
    BY <2>1, <2>2, Zenon DEF NothingNewer, SessionIds, NoEdit, NoSession
<1>2. ASSUME NEW u \in SessionIds \ disposed, NEW f \in Files, NEW p \in Lines,
             writer'[f][p] = u
      PROVE  /\ running'[u] # NoEdit => textN'[f][p] < running'[u].number
             /\ \A i \in 1 .. Len(queue'[u]) : textN'[f][p] < queue'[u][i].number
  <2>1. CASE u # s
    <3>1. writer[f][p] = u /\ textN'[f][p] = textN[f][p]
      BY <1>2, <2>1, EditDocumentLines, Zenon
    <3>2. queue'[u] = queue[u] /\ running'[u] = running[u]
      BY <2>1, Zenon
    <3> QED
      BY <3>1, <3>2, Zenon DEF OrderInv, EditsInOrder
  <2>2. CASE u = s
    <3>1. CASE textN'[f][p] = e.number
      BY <2>2, <3>1, Zenon
    <3>2. CASE writer[f][p] = s /\ textN'[f][p] = textN[f][p]
      BY <2>2, <3>2 DEF OrderInv, EditsInOrder
    <3> QED
      BY <1>2, <2>2, <3>1, <3>2, EditDocumentLines, Zenon
  <2> QED
    BY <2>1, <2>2, Zenon
<1> QED
  BY <1>1, <1>2, Zenon DEF EditsInOrder, SessionIds, NoEdit

LEMMA ProcessOrder ==
  ASSUME TypeOK, OrderInv, NEW s \in SessionIds, processWorkspaceEdit(s)
  PROVE  OrderInv'
<1> DEFINE e == Head(queue[s])
<1>1. queue \in [SessionIds -> Seq(Edit)] /\ queue[s] # <<>> /\ running[s] = NoEdit
  BY Zenon DEF processWorkspaceEdit, Runnable, TypeOK
<1>2. /\ e = queue[s][1] /\ e \in Edit /\ 1 \in 1 .. Len(queue[s])
      /\ Len(Tail(queue[s])) = Len(queue[s]) - 1
      /\ \A i \in 1 .. Len(Tail(queue[s])) :
           Tail(queue[s])[i] = queue[s][i + 1] /\ i + 1 \in 1 .. Len(queue[s])
  BY <1>1
<1>3. /\ queue' = [queue EXCEPT ![s] = Tail(@)]
      /\ edits' = edits /\ disposed' = disposed
      /\ running' = running \/ running' = [running EXCEPT ![s] = e]
  BY Zenon DEF processWorkspaceEdit, sessionVars
<1>4. queue'[s] = Tail(queue[s]) /\ \A u \in SessionIds : u # s => queue'[u] = queue[u]
  BY <1>1, <1>3, Zenon
<1> HIDE DEF e
<1>5. running \in [SessionIds -> Edit \cup {NoEdit}]
  BY Zenon DEF TypeOK
<1>6. /\ \A u \in SessionIds : u # s => running'[u] = running[u]
      /\ running'[s] = NoEdit \/ running'[s] = e
  BY <1>1, <1>3, <1>5, Zenon
<1>7. ASSUME NEW i \in 1 .. Len(queue'[s])
      PROVE  /\ e.number < queue'[s][i].number
             /\ i + 1 \in 1 .. Len(queue[s]) /\ queue'[s][i] = queue[s][i + 1]
  <2>1. i + 1 \in 1 .. Len(queue[s]) /\ queue'[s][i] = queue[s][i + 1]
    BY <1>2, <1>4, Zenon
  <2>2. 1 \in 1 .. ((i + 1) - 1)
    BY <1>7
  <2> QED
    BY <1>2, <2>1, <2>2, Zenon DEF OrderInv, QueuesGrow
<1>8. QueuesGrow'
  <2>1. ASSUME NEW u \in SessionIds, NEW i \in 1 .. Len(queue'[u])
        PROVE  /\ queue'[u][i].number <= edits'
               /\ \A j \in 1 .. (i - 1) : queue'[u][j].number < queue'[u][i].number
               /\ running'[u] # NoEdit => running'[u].number < queue'[u][i].number
    <3>1. CASE u # s
      BY <2>1, <3>1, <1>3, <1>4, <1>6, Zenon DEF OrderInv, QueuesGrow
    <3>2. CASE u = s
      <4>1. queue'[s][i].number <= edits'
        BY <2>1, <3>2, <1>3, <1>7, Zenon DEF OrderInv, QueuesGrow
      <4>2. ASSUME NEW j \in 1 .. (i - 1) PROVE queue'[s][j].number < queue'[s][i].number
        <5>1. j \in 1 .. Len(queue'[s]) /\ j + 1 \in 1 .. ((i + 1) - 1)
          BY <1>1, <1>2, <1>4, <2>1, <3>2
        <5>2. queue'[s][j] = queue[s][j + 1] /\ queue'[s][i] = queue[s][i + 1]
          BY <2>1, <3>2, <5>1, <1>7, Zenon
        <5>3. i + 1 \in 1 .. Len(queue[s])
          BY <2>1, <3>2, <1>7, Zenon
        <5> QED
          BY <5>1, <5>2, <5>3, Zenon DEF OrderInv, QueuesGrow
      <4>3. running'[s] # NoEdit => running'[s].number < queue'[s][i].number
        BY <2>1, <3>2, <1>6, <1>7, Zenon
      <4> QED
        BY <3>2, <4>1, <4>2, <4>3, Zenon
    <3> QED
      BY <3>1, <3>2, Zenon
  <2> QED
    BY <2>1, Zenon DEF QueuesGrow, SessionIds, NoEdit
<1>9. e.number <= edits
  BY <1>2, Zenon DEF OrderInv, QueuesGrow
<1>10. CASE EditDocument(s, e) /\ running' = running
  <2>1. NothingNewer' /\ EditsInOrder'
    <3>1. /\ edits' = edits /\ disposed' = disposed /\ running'[s] = NoEdit
          /\ \A u \in SessionIds : u # s => queue'[u] = queue[u] /\ running'[u] = running[u]
      BY <1>1, <1>3, <1>4, <1>6, <1>10, Zenon
    <3>2. \A i \in 1 .. Len(queue'[s]) :
             /\ e.number < queue'[s][i].number
             /\ \E j \in 1 .. Len(queue[s]) : queue'[s][i] = queue[s][j]
      BY <1>7, Zenon
    <3> QED
      BY <1>2, <1>9, <1>10, <3>1, <3>2, EditDocumentOrder, Zenon
  <2> QED
    BY <1>8, <2>1, Zenon DEF OrderInv
<1>11. CASE running' = [running EXCEPT ![s] = e] /\ UNCHANGED docVars
  <2>0. textN' = textN /\ writer' = writer
    BY <1>11, Zenon DEF docVars
  <2>1. NothingNewer'
    BY <1>3, <1>6, <1>9, <2>0, Zenon DEF OrderInv, NothingNewer, SessionIds, NoEdit, NoSession
  <2>2. ASSUME NEW u \in SessionIds \ disposed, NEW f \in Files, NEW p \in Lines,
               writer[f][p] = u
        PROVE  /\ running'[u] # NoEdit => textN[f][p] < running'[u].number
               /\ \A i \in 1 .. Len(queue'[u]) : textN[f][p] < queue'[u][i].number
    <3>1. CASE u # s
      BY <2>2, <3>1, <1>4, <1>6, Zenon DEF OrderInv, EditsInOrder
    <3>2. CASE u = s
      <4>1. \A i \in 1 .. Len(queue[s]) : textN[f][p] < queue[s][i].number
        BY Zenon, <2>2, <3>2 DEF OrderInv, EditsInOrder
      <4>2. running'[s] # NoEdit => textN[f][p] < running'[s].number
        BY Zenon, <4>1, <1>2, <1>6
      <4>3. \A i \in 1 .. Len(queue'[s]) : textN[f][p] < queue'[s][i].number
        BY Zenon, <4>1, <1>7
      <4> QED
        BY Zenon, <3>2, <4>2, <4>3
    <3> QED
      BY Zenon, <3>1, <3>2
  <2>3. EditsInOrder'
    BY <1>3, <2>0, <2>2, Zenon DEF EditsInOrder, SessionIds, NoEdit
  <2> QED
    BY <1>8, <2>1, <2>3, Zenon DEF OrderInv
<1> QED
  <2>1. \/ EditDocument(s, e) /\ running' = running
        \/ running' = [running EXCEPT ![s] = e] /\ UNCHANGED docVars
    BY Zenon DEF processWorkspaceEdit, e
  <2> QED
    BY <2>1, <1>10, <1>11, Zenon

\* A step that takes nothing into a queue and writes no text of a session.
LEMMA OrderKept ==
  ASSUME TypeOK, OrderInv, edits' = edits, disposed \subseteq disposed',
         \A u \in SessionIds : queue'[u] = queue[u] \/ queue'[u] = <<>>,
         \A u \in SessionIds : running'[u] = running[u] \/ running'[u] = NoEdit,
         \A f \in Files, p \in Lines :
            \/ writer'[f][p] = writer[f][p] /\ textN'[f][p] = textN[f][p]
            \/ writer'[f][p] = NoSession
  PROVE  OrderInv'
<1>0. NoSession \notin SessionIds
  BY DEF NoSession, SessionIds
<1>1. ASSUME NEW u \in SessionIds, NEW i \in 1 .. Len(queue'[u])
      PROVE  queue'[u] = queue[u]
  <2>1. CASE queue'[u] = <<>>
    <3>1. Len(<<>>) = 0 /\ 1 .. 0 = {}
      OBVIOUS
    <3> QED
      BY Zenon, <1>1, <2>1, <3>1
  <2> QED
    BY Zenon, <2>1
<1>2. QueuesGrow'
  <2>1. ASSUME NEW u \in SessionIds, NEW i \in 1 .. Len(queue'[u])
        PROVE  /\ queue'[u][i].number <= edits'
               /\ \A j \in 1 .. (i - 1) : queue'[u][j].number < queue'[u][i].number
               /\ running'[u] # NoEdit => running'[u].number < queue'[u][i].number
    <3>1. queue'[u] = queue[u]
      BY <1>1, <2>1, Zenon
    <3> QED
      BY <2>1, <3>1, Zenon DEF OrderInv, QueuesGrow
  <2> QED
    BY <2>1, Zenon DEF QueuesGrow, SessionIds, NoEdit
<1>3. NothingNewer'
  <2>1. \A u \in SessionIds : running'[u] # NoEdit => running'[u].number <= edits'
    BY Zenon DEF OrderInv, NothingNewer
  <2>2. \A f \in Files, p \in Lines : writer'[f][p] # NoSession => textN'[f][p] <= edits'
    BY Zenon DEF OrderInv, NothingNewer
  <2> QED
    BY <2>1, <2>2, Zenon DEF NothingNewer, SessionIds, NoEdit, NoSession
<1>4. EditsInOrder'
  <2>1. ASSUME NEW u \in SessionIds, u \notin disposed', NEW f \in Files, NEW p \in Lines,
               writer'[f][p] = u
        PROVE  /\ running'[u] # NoEdit => textN'[f][p] < running'[u].number
               /\ \A i \in 1 .. Len(queue'[u]) : textN'[f][p] < queue'[u][i].number
    <3>1. writer[f][p] = u /\ textN'[f][p] = textN[f][p] /\ u \notin disposed
      BY <1>0, <2>1, Zenon
    <3> QED
      BY <1>1, <3>1 DEF OrderInv, EditsInOrder
  <2> QED
    BY <2>1, Zenon DEF EditsInOrder, SessionIds, NoEdit
<1> QED
  BY <1>2, <1>3, <1>4, Zenon DEF OrderInv

LEMMA ModelOrder ==
  ASSUME TypeOK, OrderInv, NEW s \in SessionIds,
         createModelReference(s) \/ createModelReferenceFails(s)
  PROVE  OrderInv'
<1>0. running \in [SessionIds -> Edit \cup {NoEdit}] /\ running[s] \in Edit /\ running[s] # NoEdit
  BY Zenon DEF createModelReference, createModelReferenceFails, TypeOK
<1>1. /\ queue' = queue /\ edits' = edits /\ disposed' = disposed
      /\ running' = [running EXCEPT ![s] = NoEdit]
  BY Zenon DEF createModelReference, createModelReferenceFails, sessionVars
<1>2. running'[s] = NoEdit /\ \A u \in SessionIds : u # s => running'[u] = running[u]
  BY <1>0, <1>1, Zenon
<1>3. CASE createModelReference(s)
  <2>1. EditDocument(s, running[s])
    BY <1>3, Zenon DEF createModelReference
  <2>2. running[s].number <= edits
    BY <1>0, Zenon DEF OrderInv, NothingNewer
  <2>3. \A i \in 1 .. Len(queue[s]) : running[s].number < queue[s][i].number
    BY <1>0, Zenon DEF OrderInv, QueuesGrow
  <2>4. NothingNewer' /\ EditsInOrder'
    BY <1>0, <1>1, <1>2, <2>1, <2>2, <2>3, EditDocumentOrder, Zenon
  <2>5. QueuesGrow'
    BY <1>1, <1>2, Zenon DEF OrderInv, QueuesGrow, SessionIds, NoEdit
  <2> QED
    BY <2>4, <2>5, Zenon DEF OrderInv
<1>4. CASE createModelReferenceFails(s)
  <2>1. textN' = textN /\ writer' = writer
    BY <1>4, Zenon DEF createModelReferenceFails, docVars
  <2> QED
    BY <1>1, <1>2, <2>1, OrderKept, Zenon
<1> QED
  BY <1>3, <1>4

LEMMA ApplyOrder ==
  ASSUME TypeOK, OrderInv, NEW c \in Chats, NEW f \in Files, NEW p \in Lines,
         applyCodeEdit(c, f, p)
  PROVE  OrderInv'
<1> DEFINE old == editingSessions[c]
           s == IF old = NoSession THEN Len(chatOf) + 1 ELSE old
           e == [file |-> f, line |-> p, number |-> edits + 1]
<1>1. /\ s \in SessionIds /\ edits' = edits + 1 /\ disposed' = disposed /\ running' = running
      /\ textN' = textN /\ writer' = writer
      /\ queue' = queue \/ queue' = [queue EXCEPT ![s] = Append(@, e)]
  BY Zenon DEF applyCodeEdit, docVars
<1>2. /\ queue \in [SessionIds -> Seq(Edit)] /\ edits \in 0 .. MaxEdits /\ MaxEdits \in Nat
      /\ textN \in [Files -> [Lines -> Texts]]
      /\ running \in [SessionIds -> Edit \cup {NoEdit}]
      /\ edits < MaxEdits
  BY EditsAssumption, Zenon DEF TypeOK, applyCodeEdit, Document
<1>0. edits \in Int
  BY <1>2
<1>3. e \in Edit /\ e.number = edits + 1
  BY <1>2 DEF Edit
<1> HIDE DEF s, e
<1>4. ASSUME NEW u \in SessionIds, NEW i \in 1 .. Len(queue'[u])
      PROVE  \/ /\ i \in 1 .. Len(queue[u]) /\ queue'[u][i] = queue[u][i]
                /\ \A j \in 1 .. (i - 1) : queue'[u][j] = queue[u][j]
             \/ /\ queue'[u][i].number = edits + 1 /\ i - 1 = Len(queue[u])
                /\ \A j \in 1 .. (i - 1) : queue'[u][j] = queue[u][j]
  <2>0. queue[u] \in Seq(Edit) /\ queue[s] \in Seq(Edit)
    BY <1>1, <1>2, Zenon
  <2>1. CASE queue'[u] = queue[u]
    BY <2>0, <2>1, <1>4, Zenon
  <2>2. CASE u = s /\ queue'[s] = Append(queue[s], e)
    <3>1. /\ Len(Append(queue[s], e)) = Len(queue[s]) + 1
          /\ \A j \in 1 .. Len(queue[s]) : Append(queue[s], e)[j] = queue[s][j]
          /\ Append(queue[s], e)[Len(queue[s]) + 1] = e
          /\ Len(queue[s]) \in Nat
      BY <2>0, <1>3
    <3>2. i \in 1 .. Len(queue[s]) \/ i = Len(queue[s]) + 1
      BY <1>4, <2>2, <3>1
    <3> QED
      BY <1>3, <2>2, <3>1, <3>2
  <2>3. queue'[u] = queue[u] \/ (u = s /\ queue'[s] = Append(queue[s], e))
    BY <1>1, <1>2, Zenon
  <2> QED
    BY <2>1, <2>2, <2>3, Zenon
<1>5. ASSUME NEW u \in SessionIds, NEW i \in 1 .. Len(queue[u])
      PROVE  queue[u][i].number \in Int /\ queue[u][i].number < edits + 1
  <2>1. queue[u][i] \in Edit
    BY <1>2, <1>5
  <2>2. queue[u][i].number \in Int
    BY <2>1, <1>2 DEF Edit
  <2>3. queue[u][i].number <= edits
    BY Zenon, <1>5 DEF OrderInv, QueuesGrow
  <2> QED
    BY <2>2, <2>3, <1>0
<1>6. ASSUME NEW u \in SessionIds, running[u] # NoEdit
      PROVE  running[u].number <= edits + 1 /\ running[u].number < edits + 1
  <2>1. running[u].number \in Int
    BY <1>2, <1>6 DEF Edit
  <2>2. running[u].number <= edits
    BY <1>6, Zenon DEF OrderInv, NothingNewer
  <2> QED
    BY <2>1, <2>2, <1>0
<1>7. ASSUME NEW g \in Files, NEW q \in Lines, writer[g][q] # NoSession
      PROVE  textN[g][q] <= edits + 1 /\ textN[g][q] < edits + 1
  <2>1. textN[g][q] \in Int
    BY <1>2 DEF Texts, Typed
  <2>2. textN[g][q] <= edits
    BY <1>7, Zenon DEF OrderInv, NothingNewer
  <2> QED
    BY <2>1, <2>2, <1>0
<1>8. QueuesGrow'
  <2>1. ASSUME NEW u \in SessionIds, NEW i \in 1 .. Len(queue'[u])
        PROVE  /\ queue'[u][i].number <= edits'
               /\ \A j \in 1 .. (i - 1) : queue'[u][j].number < queue'[u][i].number
               /\ running'[u] # NoEdit => running'[u].number < queue'[u][i].number
    <3>1. CASE /\ i \in 1 .. Len(queue[u]) /\ queue'[u][i] = queue[u][i]
               /\ \A j \in 1 .. (i - 1) : queue'[u][j] = queue[u][j]
      <4>1. queue[u][i].number \in Int /\ queue[u][i].number < edits + 1
        BY Zenon, <2>1, <3>1, <1>5
      <4>2. queue'[u][i].number <= edits'
        <5>1. queue'[u][i].number = queue[u][i].number /\ edits' = edits + 1
          BY Zenon, <3>1, <1>1
        <5> QED
          BY <4>1, <5>1, <1>0
      <4> QED
        BY <3>1, <4>2, <1>1, Zenon DEF OrderInv, QueuesGrow
    <3>2. CASE /\ queue'[u][i].number = edits + 1 /\ i - 1 = Len(queue[u])
               /\ \A j \in 1 .. (i - 1) : queue'[u][j] = queue[u][j]
      <4>1. queue'[u][i].number = edits + 1 /\ edits' = edits + 1
        BY Zenon, <3>2, <1>1
      <4>2. queue'[u][i].number <= edits'
        BY <4>1, <1>0
      <4>3. \A j \in 1 .. (i - 1) : queue'[u][j].number < queue'[u][i].number
        BY Zenon, <2>1, <3>2, <4>1, <1>5
      <4>4. running'[u] # NoEdit => running'[u].number < queue'[u][i].number
        BY Zenon, <2>1, <4>1, <1>1, <1>6
      <4> QED
        BY Zenon, <4>2, <4>3, <4>4
    <3> QED
      BY Zenon, <2>1, <3>1, <3>2, <1>4
  <2> QED
    BY <2>1, Zenon DEF QueuesGrow, SessionIds, NoEdit
<1>9. NothingNewer'
  BY <1>1, <1>6, <1>7, Zenon DEF NothingNewer, SessionIds, NoEdit, NoSession
<1>10. EditsInOrder'
  <2>1. ASSUME NEW u \in SessionIds \ disposed, NEW g \in Files, NEW q \in Lines,
               writer[g][q] = u
        PROVE  /\ running[u] # NoEdit => textN[g][q] < running[u].number
               /\ \A i \in 1 .. Len(queue'[u]) : textN[g][q] < queue'[u][i].number
    <3>1. running[u] # NoEdit => textN[g][q] < running[u].number
      BY <2>1, Zenon DEF OrderInv, EditsInOrder
    <3>2. writer[g][q] # NoSession
      BY <2>1 DEF NoSession, SessionIds
    <3>3. ASSUME NEW i \in 1 .. Len(queue'[u]) PROVE textN[g][q] < queue'[u][i].number
      <4>1. CASE i \in 1 .. Len(queue[u]) /\ queue'[u][i] = queue[u][i]
        BY <2>1, <4>1, Zenon DEF OrderInv, EditsInOrder
      <4>2. CASE queue'[u][i].number = edits + 1
        BY <4>2, <3>2, <1>7, Zenon
      <4> QED
        BY <3>3, <4>1, <4>2, <1>4, Zenon
    <3> QED
      BY <3>1, <3>3, Zenon
  <2> QED
    BY <1>1, <2>1, Zenon DEF EditsInOrder, SessionIds, NoEdit
<1> QED
  BY <1>8, <1>9, <1>10, Zenon DEF OrderInv

\* What Dispose does to the queues.
LEMMA DisposeQueues ==
  ASSUME TypeOK, NEW s \in SessionIds, NEW H, NEW T, Dispose(s, H, T)
  PROVE  /\ disposed \subseteq disposed'
         /\ \A u \in SessionIds : queue'[u] = queue[u] \/ queue'[u] = <<>>
<1>1. queue \in [SessionIds -> Seq(Edit)] /\ queue' = [queue EXCEPT ![s] = <<>>]
  BY Zenon DEF Dispose, TypeOK
<1>2. disposed' = disposed \cup {s}
  BY Zenon DEF Dispose
<1> QED
  BY <1>1, <1>2, Zenon

LEMMA NextOrder == TypeOK /\ OrderInv /\ [Next]_vars => OrderInv'
<1> SUFFICES ASSUME TypeOK, OrderInv, [Next]_vars PROVE OrderInv'
  OBVIOUS
<1>0. UNCHANGED <<edits, sessionVars, queueVars, docVars>> => OrderInv'
  BY OrderKept, Zenon DEF sessionVars, queueVars, docVars
<1>1. ASSUME NEW c \in Chats, accept(c) \/ reject(c) PROVE OrderInv'
  <2>1. editingSessions[c] \in SessionIds
    BY <1>1 DEF accept, reject, CanDecide
  <2>2. \E H, T : Dispose(editingSessions[c], H, T)
    BY <1>1, Zenon DEF accept, reject
  <2>3. edits' = edits /\ running' = running
    BY <1>1, Zenon DEF accept, reject
  <2>4. ASSUME NEW f \in Files, NEW p \in Lines
        PROVE  \/ writer'[f][p] = writer[f][p] /\ textN'[f][p] = textN[f][p]
               \/ writer'[f][p] = NoSession
    <3>1. CASE accept(c)
      BY <3>1, Zenon DEF accept, docVars
    <3>2. CASE reject(c)
      <4>1. /\ textN'[f][p] = Discarded(editingSessions[c], f)[p]
            /\ writer'[f][p] = IF p \in DiscardedLines(editingSessions[c], f)
                               THEN NoSession ELSE writer[f][p]
        BY <3>2, Zenon DEF reject
      <4> QED
        BY <4>1, Zenon DEF Discarded
    <3> QED
      BY <1>1, <3>1, <3>2, Zenon
  <2> QED
    BY <2>1, <2>2, <2>3, <2>4, DisposeQueues, OrderKept, SMTT(30)
<1>2. ASSUME NEW c \in Chats, addRequest(c) \/ dispose(c) PROVE OrderInv'
  <2>1. /\ edits' = edits /\ running' = running /\ textN' = textN /\ writer' = writer
    BY <1>2, Zenon DEF addRequest, dispose, docVars
  <2>2. \/ editingSessions[c] \in SessionIds /\ Dispose(editingSessions[c], hunks, text0)
        \/ UNCHANGED <<disposed, queue>>
    BY <1>2, Zenon DEF addRequest, dispose
  <2> QED
    BY <2>1, <2>2, DisposeQueues, OrderKept, Zenon
<1>3. ASSUME NEW f \in Files, NEW p \in Lines, userTypes(f, p) PROVE OrderInv'
  <2>1. edits' = edits /\ UNCHANGED <<disposed, queue, running>>
    BY <1>3, Zenon DEF userTypes, sessionVars, queueVars
  <2>2. /\ textN' = [textN EXCEPT ![f] = [textN[f] EXCEPT ![p] = Typed]]
        /\ writer' = [writer EXCEPT ![f][p] = NoSession]
    BY <1>3, Zenon DEF userTypes
  <2>3. /\ textN \in [Files -> [Lines -> Texts]]
        /\ writer \in [Files -> [Lines -> SessionIds \cup {NoSession}]]
    BY Zenon DEF TypeOK, Document
  <2>4. ASSUME NEW g \in Files, NEW q \in Lines
        PROVE  \/ writer'[g][q] = writer[g][q] /\ textN'[g][q] = textN[g][q]
               \/ writer'[g][q] = NoSession
    BY <2>2, <2>3, Zenon
  <2> QED
    BY <2>1, <2>4, OrderKept, Zenon
<1>4. ASSUME NEW k \in Copies, calculateDiff(k) \/ updateView(k) PROVE OrderInv'
  BY <1>0, <1>4, Zenon DEF calculateDiff, updateView
<1>5. ASSUME NEW f \in Files, openEditor(f) PROVE OrderInv'
  BY <1>0, <1>5, Zenon DEF openEditor
<1>6. ASSUME NEW c \in Chats, completeResponse(c) \/ getOrRestoreSession(c) \/ setCodeEdits(c)
      PROVE  OrderInv'
  BY <1>0, <1>6, Zenon DEF completeResponse, getOrRestoreSession, setCodeEdits
<1>7. ASSUME NEW c \in Chats, NEW i, applyPlanStep(c, i) PROVE OrderInv'
  BY <1>0, <1>7, Zenon DEF applyPlanStep
<1>8. CASE UNCHANGED vars
  BY <1>0, <1>8, Zenon DEF vars
<1> QED
  BY <1>1, <1>2, <1>3, <1>4, <1>5, <1>6, <1>7, <1>8, ApplyOrder, ProcessOrder, ModelOrder, Zenon
     DEF Next

LEMMA InitOrder == Init => OrderInv
<1> SUFFICES ASSUME Init PROVE OrderInv
  OBVIOUS
<1>1. QueuesGrow
  BY DEF Init, QueuesGrow
<1>2. NothingNewer /\ EditsInOrder
  BY DEF Init, NothingNewer, EditsInOrder, SessionIds, NoSession
<1> QED
  BY <1>1, <1>2, Zenon DEF OrderInv

\* The edits of a session reach the documents in the order of their arrival,
\* also while the document of an earlier one is loading and when sessions end
\* with edits under way (_progressiveEditsQueue, processWorkspaceEdit).
THEOREM EditsAlwaysInOrder == Spec => []EditsInOrder
<1>1. OrderInv => EditsInOrder
  BY Zenon DEF OrderInv
<1> QED
  BY <1>1, InitOrder, EditsTyped, NextOrder, PTL DEF Spec

-----------------------------------------------------------------------------
(* The hunks *)

\* No document and no copy has this text.
Unwritten(n) ==
    /\ \A f \in Files, p \in Lines : textN[f][p] # n
    /\ \A k \in Copies, p \in Lines : text0[k][p] # n

\* The number of an edit that a session has still to make.
Holds(s, n) ==
    \/ running[s] # NoEdit /\ running[s].number = n
    \/ \E i \in 1 .. Len(queue[s]) : queue[s][i].number = n

\* An edit writes a text that is nowhere yet.
EditsFresh ==
    /\ \A n \in 1 .. MaxEdits : n > edits => Unwritten(n)
    /\ \A s \in SessionIds, n \in 1 .. MaxEdits : Holds(s, n) =>
          /\ n <= edits /\ Unwritten(n)
          /\ \A t \in SessionIds : t # s => ~Holds(t, n)

\* The lines of a session are in a file that it knows, unless it has ended.
WritersKnow ==
    /\ \A k \in known : k[2] \in loaded
    /\ \A s \in disposed : queue[s] = <<>>
    /\ \A f \in Files, p \in Lines, s \in SessionIds : writer[f][p] = s =>
          /\ textN[f][p] \in 1 .. MaxEdits
          /\ f \in loaded
          /\ <<s, f>> \in known \/ s \in disposed
          /\ running[s] # NoEdit => running[s].file # f

\* A session's texts are not in its textModel0.
OwnTextApart ==
    \A k \in known \ disturbed : \A p, q \in Lines :
        writer[k[2]][p] = k[1] => textN[k[2]][p] # text0[k][q]

\* A line of a session's copy is in the hunks, or in the last diff, if that has
\* been computed.
Shown(k, p) ==
    IF views[k] = <<>> THEN p \in LinesIn(hunks[k])
    ELSE views[k][Len(views[k])].ready => p \in views[k][Len(views[k])].lines

LinesShown ==
    \A k \in known \ disturbed : \A p \in Lines :
        writer[k[2]][p] = k[1] => Shown(k, p)

HunkInv == EditsFresh /\ WritersKnow /\ OwnTextApart /\ LinesShown

\* The merged changes are the lines of the diff.
LEMMA MergedLines == ASSUME NEW d \in SUBSET Lines PROVE LinesIn(MergedChanges(d)) = d
<1>1. ASSUME NEW p \in d PROVE Together(d, p, p)
  <2>1. p \in Nat /\ \A r \in d : r \in Nat
    BY EditsAssumption, Zenon
  <2>2. \A r \in d : ~((r >= p /\ r < p) \/ (r >= p /\ r < p))
    BY <2>1
  <2> QED
    BY <2>2, Zenon DEF Together
<1>2. ASSUME NEW p \in d PROVE p \in LinesIn(MergedChanges(d))
  <2> DEFINE h == [lines |-> {q \in d : Together(d, p, q)}, state |-> "Pending"]
  <2>1. h \in MergedChanges(d)
    BY Zenon DEF MergedChanges
  <2>2. p \in h.lines
    BY <1>1, Zenon
  <2> HIDE DEF h
  <2> QED
    BY <2>1, <2>2, Zenon DEF LinesIn
<1>3. ASSUME NEW p \in LinesIn(MergedChanges(d)) PROVE p \in d
  <2>1. PICK h \in MergedChanges(d) : p \in h.lines
    BY Zenon DEF LinesIn
  <2>2. PICK x \in d : h = [lines |-> {q \in d : Together(d, x, q)}, state |-> "Pending"]
    BY Zenon DEF MergedChanges
  <2> QED
    BY <2>1, <2>2, Zenon
<1> QED
  BY <1>2, <1>3, Zenon

\* Accepting hunks moves none of their lines.
LEMMA MirroredLines ==
  ASSUME TypeOK, NEW k \in Copies, NEW P
  PROVE  LinesIn(MirroredHunks(k, P)) = LinesIn(hunks[k])
<1> DEFINE After(h) == IF h.state = "Pending" /\ h.lines \cap P # {}
                       THEN [h EXCEPT !.state = "Accepted"] ELSE h
<1>1. ASSUME NEW h \in hunks[k] PROVE After(h).lines = h.lines
  <2>1. h \in Hunk
    BY Zenon DEF TypeOK
  <2>2. [h EXCEPT !.state = "Accepted"].lines = h.lines
    BY <2>1, Zenon DEF Hunk
  <2> QED
    BY <2>2, Zenon
<1>2. MirroredHunks(k, P) = {After(h) : h \in hunks[k]}
  BY Zenon DEF MirroredHunks
<1> HIDE DEF After
<1>3. ASSUME NEW p \in LinesIn(MirroredHunks(k, P)) PROVE p \in LinesIn(hunks[k])
  <2>1. PICK g \in MirroredHunks(k, P) : p \in g.lines
    BY Zenon DEF LinesIn
  <2>2. PICK h \in hunks[k] : g = After(h)
    BY <1>2, Zenon
  <2> QED
    BY <1>1, <2>1, <2>2, Zenon DEF LinesIn
<1>4. ASSUME NEW p \in LinesIn(hunks[k]) PROVE p \in LinesIn(MirroredHunks(k, P))
  <2>1. PICK h \in hunks[k] : p \in h.lines
    BY Zenon DEF LinesIn
  <2>2. After(h) \in MirroredHunks(k, P) /\ p \in After(h).lines
    BY <1>1, <1>2, <2>1, Zenon
  <2> QED
    BY <2>2, Zenon DEF LinesIn
<1> QED
  BY <1>3, <1>4, Zenon

\* A mirrored text is made of the copy's and of the lines that changed.
LEMMA MirroredValues ==
  ASSUME TypeOK, NEW k \in Copies, NEW P, NEW N, NEW r, NEW q \in Lines
  PROVE  \/ MirroredText(k, P, N, r)[q] = text0[k][q]
         \/ \E p \in P : MirroredText(k, P, N, r)[q] = N[p]
<1> DEFINE Taken == P \ LinesIn(Pending(k))
           Lands(p) == IF Exact(k, N, p) THEN p ELSE r
           x == CHOOSE p \in Taken : Lands(p) = q
<1>1. MirroredText(k, P, N, r)[q] =
         IF \E p \in Taken : Lands(p) = q THEN N[x] ELSE text0[k][q]
  BY Zenon DEF MirroredText
<1>2. ASSUME \E p \in Taken : Lands(p) = q PROVE x \in P
  <2> HIDE DEF Lands
  <2> QED
    BY <1>2, Zenon
<1> HIDE DEF Taken, Lands, x
<1> QED
  BY <1>1, <1>2, Zenon

\* A copy keeps its text when no line changed.
LEMMA MirroredNothing ==
  ASSUME TypeOK, NEW k \in Copies, NEW N \in Document, NEW r
  PROVE  MirroredText(k, {}, N, r) = text0[k]
<1>1. text0[k] \in Document /\ MirroredText(k, {}, N, r) \in Document
  BY MirroredTextType, Zenon DEF TypeOK
<1>2. \A q \in Lines : MirroredText(k, {}, N, r)[q] = text0[k][q]
  BY MirroredValues
<1>3. \A d, c \in [Lines -> Texts] : (\A q \in Lines : d[q] = c[q]) => d = c
  OBVIOUS
<1> QED
  BY <1>1, <1>2, <1>3, Zenon DEF Document

LEMMA SessionFacts ==
  /\ \A s \in SessionIds : s # NoSession
  /\ \A n \in 1 .. MaxEdits : n # Base /\ n # Typed
  /\ \A e \in Edit : e.number \in 1 .. MaxEdits /\ e.file \in Files /\ e.line \in Lines
<1>1. \A s \in SessionIds : s # NoSession
  BY DEF SessionIds, NoSession
<1>2. \A n \in 1 .. MaxEdits : n # Base /\ n # Typed
  BY DEF Base, Typed
<1>3. \A e \in Edit : e.number \in 1 .. MaxEdits /\ e.file \in Files /\ e.line \in Lines
  BY Zenon DEF Edit
<1> QED
  BY <1>1, <1>2, <1>3, Zenon

\* The edits to come stay fresh while nobody writes one and none is added.
LEMMA FreshKept ==
  ASSUME EditsFresh, edits' = edits,
         \A s \in SessionIds, n \in 1 .. MaxEdits : Holds(s, n)' => Holds(s, n),
         \A s \in SessionIds, n \in 1 .. MaxEdits : Holds(s, n)' /\ Unwritten(n) => Unwritten(n)',
         \A n \in 1 .. MaxEdits : n > edits /\ Unwritten(n) => Unwritten(n)'
  PROVE  EditsFresh'
  BY Zenon DEF EditsFresh

\* A step that leaves documents and copies alone: what waits for a document may
\* only be an edit of a file that was not loaded.
LEMMA HunksKept ==
  ASSUME TypeOK, HunkInv, UNCHANGED <<copyVars, docVars>>, disposed' = disposed,
         edits' = edits, loaded \subseteq loaded',
         \A s \in SessionIds, n \in 1 .. MaxEdits : Holds(s, n)' => Holds(s, n),
         \A s \in disposed : queue'[s] = <<>>,
         \A s \in SessionIds : running'[s] # NoEdit =>
            running'[s] = running[s] \/ running'[s].file \notin loaded
  PROVE  HunkInv'
<1>1. /\ known' = known /\ text0' = text0 /\ hunks' = hunks /\ views' = views
      /\ textN' = textN /\ writer' = writer /\ disturbed' = disturbed
  BY Zenon DEF copyVars, docVars
<1>2. ASSUME NEW n, Unwritten(n) PROVE Unwritten(n)'
  BY <1>1, <1>2, Zenon DEF Unwritten
<1>3. EditsFresh'
  BY <1>2, FreshKept, Zenon DEF HunkInv
<1>4. WritersKnow'
  <2>1. \A k \in known' : k[2] \in loaded'
    BY <1>1, Zenon DEF HunkInv, WritersKnow
  <2>2. ASSUME NEW f \in Files, NEW p \in Lines, NEW s \in SessionIds, writer'[f][p] = s
        PROVE  /\ textN'[f][p] \in 1 .. MaxEdits /\ f \in loaded'
               /\ <<s, f>> \in known' \/ s \in disposed'
               /\ running'[s] # NoEdit => running'[s].file # f
    BY <1>1, <2>2, Zenon DEF HunkInv, WritersKnow
  <2> QED
    BY <2>1, <2>2, Zenon DEF WritersKnow
<1>5. OwnTextApart'
  BY <1>1 DEF HunkInv, OwnTextApart
<1>6. LinesShown'
  BY <1>1, Zenon DEF HunkInv, LinesShown, Shown
<1> QED
  BY <1>3, <1>4, <1>5, <1>6, Zenon DEF HunkInv

\* What an edit does to the copies: one that has not known the file takes the
\* document as it was, the others at most the new text.
LEMMA EditDocumentCopies ==
  ASSUME TypeOK, NEW s \in SessionIds, NEW e \in Edit, EditDocument(s, e),
         NEW j \in Copies, NEW q \in Lines
  PROVE  \/ text0'[j][q] = text0[j][q]
         \/ j # <<s, e.file>> /\ text0'[j][q] = e.number
         \/ j = <<s, e.file>> /\ j \notin known /\ text0'[j][q] = textN[e.file][q]
<1> DEFINE f == e.file
           k == <<s, f>>
           N == [textN[f] EXCEPT ![e.line] = e.number]
<1>1. PICK r \in [SessionIds -> Lines] :
        text0' = [i \in Copies |->
           IF i = k /\ k \notin known THEN textN[f]
           ELSE IF i \in Listening(s, f) THEN MirroredText(i, {e.line}, N, r[i[1]])
           ELSE text0[i]]
  BY Zenon DEF EditDocument
<1>2. f \in Files /\ e.line \in Lines /\ textN[f] \in [Lines -> Texts]
  BY SessionFacts, Zenon DEF TypeOK, Document
<1>3. N[e.line] = e.number
  BY <1>2, Zenon
<1>4. k \notin Listening(s, f)
  BY <1>2, CopyFacts, Zenon DEF Listening
<1> HIDE DEF N, k, f
<1>5. CASE j = k
  <2>1. text0'[j] = IF k \notin known THEN textN[f] ELSE text0[j]
    BY <1>1, <1>4, <1>5, Zenon
  <2> QED
    BY <1>5, <2>1, Zenon DEF k, f
<1>6. CASE j # k
  <2>1. text0'[j] = IF j \in Listening(s, f) THEN MirroredText(j, {e.line}, N, r[j[1]])
                    ELSE text0[j]
    BY <1>1, <1>6, Zenon
  <2>2. \A P, M, x : \/ MirroredText(j, P, M, x)[q] = text0[j][q]
                     \/ \E p \in P : MirroredText(j, P, M, x)[q] = M[p]
    BY MirroredValues
  <2>3. \/ MirroredText(j, {e.line}, N, r[j[1]])[q] = text0[j][q]
        \/ \E p \in {e.line} : MirroredText(j, {e.line}, N, r[j[1]])[q] = N[p]
    BY <2>2
  <2>4. \A p \in {e.line} : N[p] = e.number
    BY <1>3, Zenon
  <2> QED
    BY <1>6, <2>1, <2>3, <2>4, Zenon DEF k, f
<1> QED
  BY <1>5, <1>6, Zenon

\* An edit is made.
LEMMA EditHunks ==
  ASSUME TypeOK, HunkInv, NEW s \in SessionIds, NEW e \in Edit, EditDocument(s, e),
         edits' = edits, disposed' = disposed, loaded \subseteq loaded', e.file \in loaded',
         e.number <= edits, Unwritten(e.number),
         <<s, e.file>> \in known \/ \A p \in Lines : writer[e.file][p] # s,
         \A t \in SessionIds, n \in 1 .. MaxEdits :
            Holds(t, n)' => Holds(t, n) /\ n # e.number,
         \A t \in disposed : queue'[t] = <<>>,
         running'[s] = NoEdit, \A t \in SessionIds : t # s => running'[t] = running[t]
  PROVE  HunkInv'
<1> DEFINE f == e.file
           k == <<s, f>>
<1>1. /\ f \in Files /\ e.line \in Lines /\ e.number \in 1 .. MaxEdits
      /\ k \in Copies /\ k[1] = s /\ k[2] = f
  BY SessionFacts, CopyFacts, Zenon
<1>2. /\ known' = known \cup {k} /\ disturbed' = disturbed
      /\ views' = [views EXCEPT ![k] = Append(@, Asked)]
      /\ hunks' = [j \in Copies |->
            IF j \in Listening(s, f) THEN MirroredHunks(j, {e.line}) ELSE hunks[j]]
  BY Zenon DEF EditDocument
<1>3. ASSUME NEW g \in Files, NEW p \in Lines
      PROVE  \/ g = f /\ p = e.line /\ textN'[g][p] = e.number /\ writer'[g][p] = s
             \/ textN'[g][p] = textN[g][p] /\ writer'[g][p] = writer[g][p]
  <2>1. /\ textN' = [textN EXCEPT ![f] = [textN[f] EXCEPT ![e.line] = e.number]]
        /\ writer' = [writer EXCEPT ![f][e.line] = s]
    BY Zenon DEF EditDocument
  <2>2. /\ textN \in [Files -> [Lines -> Texts]]
        /\ writer \in [Files -> [Lines -> SessionIds \cup {NoSession}]]
    BY Zenon DEF TypeOK, Document
  <2> HIDE DEF f
  <2> QED
    BY <1>1, <2>1, <2>2, Zenon
<1>4. ASSUME NEW j \in Copies, NEW q \in Lines
      PROVE  \/ text0'[j][q] = text0[j][q]
             \/ j # k /\ text0'[j][q] = e.number
             \/ j = k /\ j \notin known /\ text0'[j][q] = textN[f][q]
  BY EditDocumentCopies, Zenon
<1>5. ASSUME NEW j \in Copies PROVE LinesIn(hunks'[j]) = LinesIn(hunks[j])
  BY <1>2, MirroredLines, Zenon
<1> HIDE DEF f, k
<1>6. ASSUME NEW n \in 1 .. MaxEdits, n # e.number, Unwritten(n) PROVE Unwritten(n)'
  <2> HIDE DEF Unwritten
  <2>3. /\ \A g \in Files, p \in Lines : textN[g][p] # n
        /\ \A j \in Copies, p \in Lines : text0[j][p] # n
    BY <1>6, Zenon DEF Unwritten
  <2>1. ASSUME NEW g \in Files, NEW p \in Lines PROVE textN'[g][p] # n
    <3>1. textN'[g][p] = e.number \/ textN'[g][p] = textN[g][p]
      BY <1>3, Zenon
    <3> QED
      BY <1>6, <2>3, <3>1, Zenon
  <2>2. ASSUME NEW j \in Copies, NEW p \in Lines PROVE text0'[j][p] # n
    <3>1. \/ text0'[j][p] = text0[j][p] \/ text0'[j][p] = e.number
          \/ text0'[j][p] = textN[f][p]
      BY <1>4, Zenon
    <3> QED
      BY <1>1, <1>6, <2>3, <3>1, Zenon
  <2> QED
    BY <2>1, <2>2, Zenon DEF Unwritten
<1>7. EditsFresh'
  <2>1. \A n \in 1 .. MaxEdits : n > edits => n # e.number
    <3>1. edits \in Int /\ e.number \in Int
      <4>1. edits \in 0 .. MaxEdits
        BY Zenon DEF TypeOK
      <4> QED
        BY <1>1, <4>1, EditsAssumption
    <3> QED
      BY <3>1
  <2> QED
    BY <1>6, <2>1, FreshKept, Zenon DEF HunkInv
<1>8. WritersKnow'
  <2>1. \A j \in known' : j[2] \in loaded'
    BY <1>1, <1>2, Zenon DEF HunkInv, WritersKnow, f
  <2>2. ASSUME NEW g \in Files, NEW p \in Lines, NEW t \in SessionIds, writer'[g][p] = t
        PROVE  /\ textN'[g][p] \in 1 .. MaxEdits /\ g \in loaded'
               /\ <<t, g>> \in known' \/ t \in disposed'
               /\ running'[t] # NoEdit => running'[t].file # g
    <3>1. CASE g = f /\ textN'[g][p] = e.number /\ writer'[g][p] = s
      BY <1>1, <1>2, <2>2, <3>1, Zenon DEF f, k
    <3>2. CASE textN'[g][p] = textN[g][p] /\ writer'[g][p] = writer[g][p]
      BY <1>2, <2>2, <3>2, Zenon DEF HunkInv, WritersKnow
    <3> QED
      BY <1>3, <3>1, <3>2, Zenon
  <2> QED
    BY <2>1, <2>2, Zenon DEF WritersKnow
<1>9. ASSUME NEW j \in known' \ disturbed', NEW p \in Lines, writer'[j[2]][p] = j[1]
      PROVE  /\ j \in Copies /\ j[1] \in SessionIds /\ j[2] \in Files
             /\ \/ j = k /\ p = e.line /\ textN'[j[2]][p] = e.number
                \/ /\ j \in known \ disturbed /\ writer[j[2]][p] = j[1]
                   /\ textN'[j[2]][p] = textN[j[2]][p]
  <2>1. j \in Copies /\ j[1] \in SessionIds /\ j[2] \in Files /\ j = <<j[1], j[2]>>
    BY <1>1, <1>2, <1>9, CopyFacts, Zenon DEF TypeOK
  <2>2. CASE j[2] = f /\ p = e.line /\ textN'[j[2]][p] = e.number /\ writer'[j[2]][p] = s
    BY <1>9, <2>1, <2>2, Zenon DEF k
  <2>3. CASE textN'[j[2]][p] = textN[j[2]][p] /\ writer'[j[2]][p] = writer[j[2]][p]
    <3>1. writer[j[2]][p] = j[1]
      BY <1>9, <2>3, Zenon
    <3>2. j \in known \ disturbed
      BY <1>1, <1>2, <1>9, <2>1, <3>1, Zenon DEF f, k
    <3> QED
      BY <2>1, <2>3, <3>1, <3>2, Zenon
  <2> QED
    BY <1>3, <2>1, <2>2, <2>3, Zenon
<1>10. OwnTextApart'
  <2>1. ASSUME NEW j \in known' \ disturbed', NEW p \in Lines, NEW q \in Lines,
               writer'[j[2]][p] = j[1]
        PROVE  textN'[j[2]][p] # text0'[j][q]
    <3>1. j \in Copies
      BY <1>9, <2>1, Zenon
    <3>2. CASE j = k /\ p = e.line /\ textN'[j[2]][p] = e.number
      <4>1. text0[j][q] # e.number /\ textN[f][q] # e.number
        BY <1>1, <3>1, Zenon DEF Unwritten
      <4>2. text0'[j][q] = text0[j][q] \/ text0'[j][q] = textN[f][q]
        BY <1>4, <3>1, <3>2, Zenon
      <4> QED
        BY <3>2, <4>1, <4>2, Zenon
    <3>3. CASE /\ j \in known \ disturbed /\ writer[j[2]][p] = j[1]
               /\ textN'[j[2]][p] = textN[j[2]][p]
      <4>1. textN[j[2]][p] # text0[j][q]
        BY <3>3, Zenon DEF HunkInv, OwnTextApart
      <4>2. textN[j[2]][p] # e.number
        BY <1>9, <2>1, ZenonT(60) DEF Unwritten
      <4> QED
        BY <1>4, <3>1, <3>3, <4>1, <4>2, Zenon
    <3> QED
      BY <1>9, <2>1, <3>2, <3>3, Zenon
  <2> QED
    BY <2>1, Zenon DEF OwnTextApart
<1>11. LinesShown'
  <2>1. ASSUME NEW j \in known' \ disturbed', NEW p \in Lines, writer'[j[2]][p] = j[1]
        PROVE  Shown(j, p)'
    <3>1. views \in [Copies -> Seq(View)] /\ j \in Copies
      BY <1>9, <2>1, Zenon DEF TypeOK
    <3>2. CASE j = k
      <4>1. views'[j] = Append(views[j], Asked) /\ views[j] \in Seq(View)
        BY <1>2, <3>1, <3>2, Zenon
      <4>2. Asked \in View /\ ~Asked.ready
        BY Zenon DEF Asked, View
      <4>3. views'[j] # <<>> /\ views'[j][Len(views'[j])] = Asked
        BY <4>1, <4>2
      <4> QED
        BY <4>2, <4>3, Zenon DEF Shown
    <3>3. CASE j # k
      <4>1. views'[j] = views[j] /\ LinesIn(hunks'[j]) = LinesIn(hunks[j])
        BY <1>2, <1>5, <3>1, <3>3, Zenon
      <4>2. Shown(j, p)
        BY <1>9, <2>1, <3>3, Zenon DEF HunkInv, LinesShown
      <4>3. LinesIn(hunks[j])' = LinesIn(hunks'[j])
        BY Zenon DEF LinesIn
      <4> QED
        BY <4>1, <4>2, <4>3, Zenon DEF Shown
    <3> QED
      BY <3>2, <3>3, Zenon
  <2> QED
    BY <2>1, Zenon DEF LinesShown
<1> QED
  BY <1>7, <1>8, <1>10, <1>11, Zenon DEF HunkInv

\* A session makes the first edit of its queue, or waits for the document.
LEMMA ProcessHunks ==
  ASSUME TypeOK, OrderInv, HunkInv, NEW s \in SessionIds, processWorkspaceEdit(s)
  PROVE  HunkInv'
<1> DEFINE e == Head(queue[s])
<1>1. queue \in [SessionIds -> Seq(Edit)] /\ queue[s] # <<>> /\ running[s] = NoEdit
  BY Zenon DEF processWorkspaceEdit, Runnable, TypeOK
<1>2. /\ e = queue[s][1] /\ e \in Edit /\ 1 \in 1 .. Len(queue[s])
      /\ \A i \in 1 .. Len(Tail(queue[s])) :
           /\ Tail(queue[s])[i] = queue[s][i + 1] /\ i + 1 \in 1 .. Len(queue[s])
           /\ 1 \in 1 .. ((i + 1) - 1)
  BY <1>1
<1>3. /\ queue' = [queue EXCEPT ![s] = Tail(@)]
      /\ edits' = edits /\ disposed' = disposed /\ loaded' = loaded
  BY Zenon DEF processWorkspaceEdit, sessionVars
<1>4. queue'[s] = Tail(queue[s]) /\ \A t \in SessionIds : t # s => queue'[t] = queue[t]
  BY <1>1, <1>3, Zenon
<1>5. \/ /\ <<s, e.file>> \in known \/ e.file \in loaded
         /\ EditDocument(s, e) /\ running' = running
      \/ /\ e.file \notin loaded
         /\ running' = [running EXCEPT ![s] = e] /\ UNCHANGED <<copyVars, docVars>>
  BY Zenon DEF processWorkspaceEdit
<1> HIDE DEF e
<1>6. running \in [SessionIds -> Edit \cup {NoEdit}] /\ disposed \subseteq SessionIds
  BY Zenon DEF TypeOK
<1>7. Holds(s, e.number) /\ e.number \in 1 .. MaxEdits
  BY <1>2, SessionFacts, Zenon DEF Holds
<1>8. e.number <= edits /\ Unwritten(e.number)
  BY <1>7, Zenon DEF HunkInv, EditsFresh
<1>9. s \notin disposed /\ \A t \in disposed : queue'[t] = <<>>
  BY <1>1, <1>4, <1>6, Zenon DEF HunkInv, WritersKnow
<1>10. ASSUME NEW i \in 1 .. Len(queue'[s])
       PROVE  /\ i + 1 \in 1 .. Len(queue[s]) /\ queue'[s][i] = queue[s][i + 1]
              /\ e.number < queue'[s][i].number
  <2>1. /\ i + 1 \in 1 .. Len(queue[s]) /\ queue'[s][i] = queue[s][i + 1]
        /\ 1 \in 1 .. ((i + 1) - 1)
    BY <1>2, <1>4, Zenon
  <2> QED
    BY <1>2, <2>1, Zenon DEF OrderInv, QueuesGrow
<1>11. ASSUME NEW t \in SessionIds, t # s, NEW n, running'[t] = running[t], Holds(t, n)'
       PROVE  Holds(t, n)
  BY <1>4, <1>11, Zenon DEF Holds
<1>12. CASE /\ <<s, e.file>> \in known \/ e.file \in loaded
            /\ EditDocument(s, e) /\ running' = running
  <2>1. ASSUME NEW t \in SessionIds, NEW n \in 1 .. MaxEdits, Holds(t, n)'
        PROVE  Holds(t, n) /\ n # e.number
    <3>1. CASE t # s
      BY <1>7, <1>11, <1>12, <2>1, <3>1, Zenon DEF HunkInv, EditsFresh
    <3>2. CASE t = s
      <4>1. PICK i \in 1 .. Len(queue'[s]) : queue'[s][i].number = n
        BY <1>1, <1>12, <2>1, <3>2, Zenon DEF Holds
      <4>2. e.number < n
        BY <1>10, <4>1, Zenon
      <4>3. n # e.number
        BY <1>7, <4>2
      <4> QED
        BY <1>10, <3>2, <4>1, <4>3, Zenon DEF Holds
    <3> QED
      BY <3>1, <3>2, Zenon
  <2>2. e.file \in loaded'
    <3>1. <<s, e.file>>[2] = e.file
      BY Zenon
    <3> QED
      BY <1>3, <1>12, <3>1, Zenon DEF HunkInv, WritersKnow
  <2>3. <<s, e.file>> \in known \/ \A p \in Lines : writer[e.file][p] # s
    BY <1>2, <1>9, SessionFacts, Zenon DEF HunkInv, WritersKnow
  <2>4. /\ running'[s] = NoEdit /\ \A t \in SessionIds : t # s => running'[t] = running[t]
        /\ loaded \subseteq loaded'
    BY <1>1, <1>3, <1>12, Zenon
  <2> QED
    BY <1>2, <1>3, <1>8, <1>9, <1>12, <2>1, <2>2, <2>3, <2>4, EditHunks, Zenon
<1>13. CASE /\ e.file \notin loaded
            /\ running' = [running EXCEPT ![s] = e] /\ UNCHANGED <<copyVars, docVars>>
  <2>1. running'[s] = e /\ \A t \in SessionIds : t # s => running'[t] = running[t]
    BY <1>6, <1>13, Zenon
  <2>2. ASSUME NEW t \in SessionIds, NEW n \in 1 .. MaxEdits, Holds(t, n)' PROVE Holds(t, n)
    <3>1. CASE t # s
      BY <1>11, <2>1, <2>2, <3>1, Zenon
    <3>2. CASE t = s
      BY <1>7, <1>10, <2>1, <2>2, <3>2, Zenon DEF Holds
    <3> QED
      BY <3>1, <3>2, Zenon
  <2>3. \A t \in SessionIds : running'[t] # NoEdit =>
           running'[t] = running[t] \/ running'[t].file \notin loaded
    BY <1>13, <2>1, Zenon
  <2>4. loaded \subseteq loaded'
    BY <1>3, Zenon
  <2> QED
    BY <1>3, <1>9, <1>13, <2>2, <2>3, <2>4, HunksKept, Zenon
<1> QED
  BY <1>5, <1>12, <1>13, Zenon

\* The document an edit waited for is there, or there is none.
LEMMA ModelHunks ==
  ASSUME TypeOK, OrderInv, HunkInv, NEW s \in SessionIds,
         createModelReference(s) \/ createModelReferenceFails(s)
  PROVE  HunkInv'
<1> DEFINE e == running[s]
<1>1. /\ running \in [SessionIds -> Edit \cup {NoEdit}] /\ running[s] # NoEdit
      /\ running' = [running EXCEPT ![s] = NoEdit]
      /\ queue' = queue /\ edits' = edits /\ disposed' = disposed
  BY Zenon DEF createModelReference, createModelReferenceFails, TypeOK, sessionVars
<1>2. running'[s] = NoEdit /\ \A t \in SessionIds : t # s => running'[t] = running[t]
  BY <1>1, Zenon
<1>3. e \in Edit /\ Holds(s, e.number) /\ e.number \in 1 .. MaxEdits
  BY <1>1, SessionFacts, Zenon DEF Holds
<1>4. \A t \in disposed : queue'[t] = <<>>
  BY <1>1, Zenon DEF HunkInv, WritersKnow
<1>5. ASSUME NEW t \in SessionIds, NEW n \in 1 .. MaxEdits, Holds(t, n)'
      PROVE  Holds(t, n) /\ n # e.number
  <2>1. CASE t # s
    <3>1. Holds(t, n)
      BY <1>1, <1>2, <1>5, <2>1, Zenon DEF Holds
    <3> QED
      BY <1>3, <2>1, <3>1, Zenon DEF HunkInv, EditsFresh
  <2>2. CASE t = s
    <3>1. PICK i \in 1 .. Len(queue[s]) : queue[s][i].number = n
      BY <1>1, <1>2, <1>5, <2>2, Zenon DEF Holds
    <3>2. e.number < n
      BY <1>1, <3>1, Zenon DEF OrderInv, QueuesGrow
    <3>3. n # e.number
      BY <1>3, <3>2
    <3> QED
      BY <2>2, <3>1, <3>3, Zenon DEF Holds
  <2> QED
    BY <2>1, <2>2, Zenon
<1>6. CASE createModelReference(s)
  <2>1. loaded \subseteq loaded' /\ e.file \in loaded' /\ EditDocument(s, e)
    BY <1>6, Zenon DEF createModelReference
  <2>2. e.number <= edits /\ Unwritten(e.number)
    BY <1>3, Zenon DEF HunkInv, EditsFresh
  <2>3. \A p \in Lines : writer[e.file][p] # s
    BY <1>1, <1>3, SessionFacts, Zenon DEF HunkInv, WritersKnow
  <2> HIDE DEF e
  <2> QED
    BY <1>1, <1>2, <1>3, <1>4, <1>5, <2>1, <2>2, <2>3, EditHunks, Zenon
<1>7. CASE createModelReferenceFails(s)
  <2>1. UNCHANGED <<copyVars, docVars>> /\ loaded \subseteq loaded'
    BY <1>7, Zenon DEF createModelReferenceFails
  <2>2. \A t \in SessionIds : running'[t] # NoEdit =>
           running'[t] = running[t] \/ running'[t].file \notin loaded
    BY <1>2, Zenon
  <2> QED
    BY <1>1, <1>4, <1>5, <2>1, <2>2, HunksKept, Zenon
<1> QED
  BY <1>6, <1>7, Zenon

\* An edit is received.
LEMMA ApplyHunks ==
  ASSUME TypeOK, HunkInv, NEW c \in Chats, NEW f \in Files, NEW p \in Lines,
         applyCodeEdit(c, f, p)
  PROVE  HunkInv'
<1>1. /\ known' = known /\ text0' = text0 /\ hunks' = hunks /\ views' = views
      /\ textN' = textN /\ writer' = writer /\ disturbed' = disturbed
      /\ loaded' = loaded /\ disposed' = disposed /\ running' = running
      /\ edits' = edits + 1
  BY Zenon DEF applyCodeEdit, copyVars, docVars
<1>2. edits \in Nat /\ edits + 1 \in 1 .. MaxEdits
  <2>1. edits \in 0 .. MaxEdits /\ edits < MaxEdits
    BY Zenon DEF applyCodeEdit, TypeOK
  <2> QED
    BY <2>1, EditsAssumption
<1>3. \/ queue' = queue
      \/ \E s \in SessionIds \ disposed :
            queue' = [queue EXCEPT ![s] = Append(@, [file |-> f, line |-> p, number |-> edits + 1])]
  BY Zenon DEF applyCodeEdit
<1>4. queue \in [SessionIds -> Seq(Edit)]
  BY Zenon DEF TypeOK
<1>5. PICK s : /\ \A t \in SessionIds, n \in 1 .. MaxEdits :
                    Holds(t, n)' => Holds(t, n) \/ (t = s /\ n = edits + 1)
               /\ \A t \in SessionIds : t # s \/ t \in disposed => queue'[t] = queue[t]
  <2>1. CASE queue' = queue
    BY <1>1, <2>1, Zenon DEF Holds
  <2>2. ASSUME NEW s \in SessionIds \ disposed,
               queue' = [queue EXCEPT ![s] = Append(@, [file |-> f, line |-> p, number |-> edits + 1])]
        PROVE  /\ \A t \in SessionIds, n \in 1 .. MaxEdits :
                    Holds(t, n)' => Holds(t, n) \/ (t = s /\ n = edits + 1)
               /\ \A t \in SessionIds : t # s \/ t \in disposed => queue'[t] = queue[t]
    <3> DEFINE e == [file |-> f, line |-> p, number |-> edits + 1]
    <3>1. e \in Edit /\ e.number = edits + 1
      BY <1>2, Zenon DEF Edit
    <3>2. queue'[s] = Append(queue[s], e) /\ queue[s] \in Seq(Edit)
      BY <1>4, <2>2, Zenon
    <3>3. \A t \in SessionIds : t # s \/ t \in disposed => queue'[t] = queue[t]
      BY <1>4, <2>2, Zenon
    <3> HIDE DEF e
    <3>4. \A i \in 1 .. Len(queue'[s]) :
             queue'[s][i] = e \/ (i \in 1 .. Len(queue[s]) /\ queue'[s][i] = queue[s][i])
      BY <3>1, <3>2
    <3>5. ASSUME NEW t \in SessionIds, NEW n \in 1 .. MaxEdits, Holds(t, n)'
          PROVE  Holds(t, n) \/ (t = s /\ n = edits + 1)
      <4>1. CASE t # s
        BY <1>1, <3>3, <3>5, <4>1, Zenon DEF Holds
      <4>2. CASE t = s
        BY <1>1, <3>1, <3>4, <3>5, <4>2, Zenon DEF Holds
      <4> QED
        BY <4>1, <4>2, Zenon
    <3> QED
      BY <3>3, <3>5, Zenon
  <2> QED
    BY <1>3, <2>1, <2>2, Zenon
<1>6. ASSUME NEW n, Unwritten(n) PROVE Unwritten(n)'
  BY <1>1, <1>6, Zenon DEF Unwritten
<1>7. \A n \in 1 .. MaxEdits : /\ n > edits' => n > edits
                               /\ n <= edits => n <= edits'
                               /\ n <= edits => n # edits + 1
                               /\ n = edits + 1 => n > edits /\ n <= edits' /\ ~(n <= edits)
  BY <1>1, <1>2
<1>8. EditsFresh'
  <2>1. ASSUME NEW n \in 1 .. MaxEdits, n > edits' PROVE Unwritten(n)'
    BY <1>6, <1>7, <2>1, Zenon DEF HunkInv, EditsFresh
  <2>2. ASSUME NEW t \in SessionIds, NEW n \in 1 .. MaxEdits, Holds(t, n)'
        PROVE  /\ n <= edits' /\ Unwritten(n)'
               /\ \A u \in SessionIds : u # t => ~Holds(u, n)'
    <3>1. CASE Holds(t, n)
      <4>1. /\ n <= edits /\ Unwritten(n)
            /\ \A u \in SessionIds : u # t => ~Holds(u, n)
        BY <3>1, Zenon DEF HunkInv, EditsFresh
      <4>2. n <= edits' /\ n # edits + 1
        BY <1>7, <4>1, Zenon
      <4>3. ASSUME NEW u \in SessionIds, u # t PROVE ~Holds(u, n)'
        BY <1>5, <4>1, <4>2, <4>3, Zenon
      <4> QED
        BY <1>6, <4>1, <4>2, <4>3, Zenon
    <3>2. CASE t = s /\ n = edits + 1
      BY <1>5, <1>6, <1>7, <3>2, Zenon DEF HunkInv, EditsFresh
    <3> QED
      BY <1>5, <2>2, <3>1, <3>2, Zenon
  <2> QED
    BY <2>1, <2>2, Zenon DEF EditsFresh
<1>9. WritersKnow'
  <2>1. disposed \subseteq SessionIds
    BY Zenon DEF TypeOK
  <2>2. \A t \in disposed' : queue'[t] = <<>>
    BY <1>1, <1>5, <2>1, Zenon DEF HunkInv, WritersKnow
  <2> QED
    BY <1>1, <2>2, Zenon DEF HunkInv, WritersKnow
<1>10. OwnTextApart' /\ LinesShown'
  <2>1. OwnTextApart'
    BY <1>1 DEF HunkInv, OwnTextApart
  <2>2. LinesShown'
    BY <1>1, Zenon DEF HunkInv, LinesShown, Shown
  <2> QED
    BY <2>1, <2>2, Zenon
<1> QED
  BY <1>8, <1>9, <1>10, Zenon DEF HunkInv

\* A diff is computed or applied.
LEMMA ViewHunks ==
  ASSUME TypeOK, HunkInv, NEW k \in Copies, calculateDiff(k) \/ updateView(k)
  PROVE  HunkInv'
<1>1. /\ known' = known /\ text0' = text0 /\ textN' = textN /\ writer' = writer
      /\ disturbed' = disturbed /\ loaded' = loaded /\ disposed' = disposed
      /\ running' = running /\ queue' = queue /\ edits' = edits
  BY Zenon DEF calculateDiff, updateView, docVars, sessionVars, queueVars
<1>2. ASSUME NEW n, Unwritten(n) PROVE Unwritten(n)'
  BY <1>1, <1>2, Zenon DEF Unwritten
<1>3. ASSUME NEW t \in SessionIds, NEW n, Holds(t, n)' PROVE Holds(t, n)
  BY <1>1, <1>3, Zenon DEF Holds
<1>4. EditsFresh'
  BY <1>1, <1>2, <1>3, FreshKept, Zenon DEF HunkInv
<1>5. WritersKnow' /\ OwnTextApart'
  <2>1. WritersKnow'
    BY <1>1, Zenon DEF HunkInv, WritersKnow
  <2>2. OwnTextApart'
    BY <1>1 DEF HunkInv, OwnTextApart
  <2> QED
    BY <2>1, <2>2, Zenon
<1>6. /\ views \in [Copies -> Seq(View)] /\ hunks \in [Copies -> SUBSET Hunk]
      /\ views[k] \in Seq(View) /\ known \subseteq Copies
  BY Zenon DEF TypeOK
<1>7. ASSUME NEW j \in known' \ disturbed', NEW p \in Lines, writer'[j[2]][p] = j[1]
      PROVE  Shown(j, p)'
  <2>1. j \in Copies /\ Shown(j, p) /\ textN[j[2]][p] # text0[j][p]
    BY <1>1, <1>6, <1>7, Zenon DEF HunkInv, LinesShown, OwnTextApart
  <2>2. CASE j # k
    <3>1. views'[j] = views[j] /\ hunks'[j] = hunks[j]
      <4>1. CASE calculateDiff(k)
        BY <1>6, <2>1, <2>2, <4>1, Zenon DEF calculateDiff
      <4>2. CASE updateView(k)
        BY <1>6, <2>1, <2>2, <4>2, Zenon DEF updateView
      <4> QED
        BY <4>1, <4>2, Zenon
    <3> QED
      BY <2>1, <3>1, Zenon DEF Shown, LinesIn
  <2>3. CASE j = k /\ calculateDiff(k)
    <3> DEFINE d == [ready |-> TRUE, lines |-> Differing(k[2], k)]
    <3>1. PICK i \in 1 .. Len(views[k]) : views' = [views EXCEPT ![k][i] = d]
      BY <2>3, Zenon DEF calculateDiff
    <3>2. views'[k] = [views[k] EXCEPT ![i] = d]
      BY <1>6, <3>1, Zenon
    <3>3. d.ready /\ p \in d.lines
      BY <2>1, <2>3, Zenon DEF Differing
    <3> HIDE DEF d
    <3>4. /\ Len(views'[k]) = Len(views[k]) /\ Len(views[k]) \in 1 .. Len(views[k])
          /\ views[k] # <<>> /\ views'[k] # <<>>
      BY <1>6, <3>1, <3>2
    <3>5. \/ views'[k][Len(views'[k])] = d
          \/ views'[k][Len(views'[k])] = views[k][Len(views[k])]
      BY <1>6, <3>1, <3>2, <3>4
    <3> QED
      BY <2>1, <2>3, <3>3, <3>4, <3>5, Zenon DEF Shown
  <2>4. CASE j = k /\ updateView(k)
    <3>1. /\ views[k] # <<>> /\ Head(views[k]).ready
          /\ hunks'[k] = MergedChanges(Head(views[k]).lines) /\ views'[k] = Tail(views[k])
      BY <1>6, <2>4, Zenon DEF updateView
    <3>2. Head(views[k]) = views[k][1] /\ Head(views[k]) \in View /\ Len(views[k]) \in Nat \ {0}
      BY <1>6, <3>1
    <3>3. CASE Len(views[k]) = 1
      <4>1. p \in Head(views[k]).lines /\ Head(views[k]).lines \in SUBSET Lines
        BY <2>1, <2>4, <3>1, <3>2, <3>3, Zenon DEF Shown, View
      <4>2. p \in LinesIn(hunks'[k])
        BY <3>1, <4>1, MergedLines, Zenon
      <4>3. views'[k] = <<>>
        <5>1. Len(views'[k]) = 0 /\ views'[k] \in Seq(View)
          BY <1>6, <3>1, <3>3
        <5> QED
          BY <5>1
      <4> QED
        BY <2>4, <4>2, <4>3, Zenon DEF Shown, LinesIn
    <3>4. CASE Len(views[k]) # 1
      <4>1. /\ Len(views'[k]) = Len(views[k]) - 1 /\ views'[k] # <<>>
            /\ views'[k][Len(views'[k])] = views[k][Len(views[k])]
        <5>1. \A n \in Nat \ {0} :
                 n # 1 => n - 1 # 0 /\ n - 1 \in 1 .. (n - 1) /\ (n - 1) + 1 = n
          OBVIOUS
        <5>2. \A v \in Seq(View) : v # <<>> =>
                 /\ Len(Tail(v)) = Len(v) - 1
                 /\ \A i \in 1 .. (Len(v) - 1) : Tail(v)[i] = v[i + 1]
          OBVIOUS
        <5>3. /\ Len(views'[k]) = Len(views[k]) - 1 /\ Len(views'[k]) # 0
              /\ views'[k][Len(views[k]) - 1] = views[k][(Len(views[k]) - 1) + 1]
              /\ (Len(views[k]) - 1) + 1 = Len(views[k])
          BY <1>6, <3>1, <3>2, <3>4, <5>1, <5>2, ZenonT(60)
        <5>4. views'[k] # <<>>
          <6>1. Len(<<>>) = 0
            BY Zenon
          <6> QED
            BY <5>3, <6>1, Zenon
        <5> QED
          BY <5>3, <5>4, Zenon
      <4> QED
        BY <2>1, <2>4, <3>1, <4>1, Zenon DEF Shown
    <3> QED
      BY <3>3, <3>4, Zenon
  <2> QED
    BY <2>2, <2>3, <2>4, Zenon
<1>8. LinesShown'
  BY <1>7, Zenon DEF LinesShown
<1> QED
  BY <1>4, <1>5, <1>8, Zenon DEF HunkInv

\* The user types.
LEMMA TypingHunks ==
  ASSUME TypeOK, HunkInv, NEW f \in Files, NEW p \in Lines, userTypes(f, p)
  PROVE  HunkInv'
<1> DEFINE N == [textN[f] EXCEPT ![p] = Typed]
           L == Listening(NoSession, f)
<1>1. /\ known' = known /\ views' = views /\ disturbed' = disturbed /\ loaded' = loaded
      /\ disposed' = disposed /\ running' = running /\ queue' = queue /\ edits' = edits
  BY Zenon DEF userTypes, sessionVars, queueVars
<1>2. ASSUME NEW g \in Files, NEW q \in Lines
      PROVE  \/ writer'[g][q] = NoSession /\ textN'[g][q] = Typed
             \/ writer'[g][q] = writer[g][q] /\ textN'[g][q] = textN[g][q]
  <2>1. /\ textN' = [textN EXCEPT ![f] = [textN[f] EXCEPT ![p] = Typed]]
        /\ writer' = [writer EXCEPT ![f][p] = NoSession]
    BY Zenon DEF userTypes
  <2>2. /\ textN \in [Files -> [Lines -> Texts]]
        /\ writer \in [Files -> [Lines -> SessionIds \cup {NoSession}]]
    BY Zenon DEF TypeOK, Document
  <2> QED
    BY <2>1, <2>2, Zenon
<1>3. ASSUME NEW j \in Copies, NEW q \in Lines
      PROVE  text0'[j][q] = text0[j][q] \/ text0'[j][q] = Typed
  <2>1. PICK r \in [SessionIds -> Lines] :
          text0' = [i \in Copies |->
             IF i \in L THEN MirroredText(i, {p}, N, r[i[1]]) ELSE text0[i]]
    BY Zenon DEF userTypes
  <2>2. textN[f] \in [Lines -> Texts]
    BY Zenon DEF TypeOK, Document
  <2>3. \A i \in {p} : N[i] = Typed
    BY <2>2, Zenon
  <2> HIDE DEF N, L
  <2>4. text0'[j] = IF j \in L THEN MirroredText(j, {p}, N, r[j[1]]) ELSE text0[j]
    BY <2>1, Zenon
  <2>5. \A P, M, x : \/ MirroredText(j, P, M, x)[q] = text0[j][q]
                     \/ \E i \in P : MirroredText(j, P, M, x)[q] = M[i]
    BY MirroredValues
  <2>6. \/ MirroredText(j, {p}, N, r[j[1]])[q] = text0[j][q]
        \/ \E i \in {p} : MirroredText(j, {p}, N, r[j[1]])[q] = N[i]
    BY <2>5
  <2> QED
    BY <2>3, <2>4, <2>6, Zenon
<1>4. ASSUME NEW j \in Copies PROVE LinesIn(hunks'[j]) = LinesIn(hunks[j])
  <2>1. hunks' = [i \in Copies |-> IF i \in L THEN MirroredHunks(i, {p}) ELSE hunks[i]]
    BY Zenon DEF userTypes
  <2> HIDE DEF L
  <2> QED
    BY <2>1, MirroredLines, Zenon
<1> HIDE DEF N, L
<1>5. ASSUME NEW n \in 1 .. MaxEdits, Unwritten(n) PROVE Unwritten(n)'
  <2>1. /\ n # Typed /\ \A g \in Files, q \in Lines : textN[g][q] # n
        /\ \A j \in Copies, q \in Lines : text0[j][q] # n
    BY <1>5, SessionFacts, Zenon DEF Unwritten
  <2>2. ASSUME NEW g \in Files, NEW q \in Lines PROVE textN'[g][q] # n
    <3>1. textN'[g][q] = Typed \/ textN'[g][q] = textN[g][q]
      BY <1>2, Zenon
    <3> QED
      BY <2>1, <3>1, Zenon
  <2>3. ASSUME NEW j \in Copies, NEW q \in Lines PROVE text0'[j][q] # n
    <3>1. text0'[j][q] = text0[j][q] \/ text0'[j][q] = Typed
      BY <1>3, Zenon
    <3> QED
      BY <2>1, <3>1, Zenon
  <2> QED
    BY <2>2, <2>3, Zenon DEF Unwritten
<1>6. ASSUME NEW t \in SessionIds, NEW n, Holds(t, n)' PROVE Holds(t, n)
  BY <1>1, <1>6, Zenon DEF Holds
<1>7. EditsFresh'
  BY <1>1, <1>5, <1>6, FreshKept, Zenon DEF HunkInv
<1>8. ASSUME NEW g \in Files, NEW q \in Lines, NEW t \in SessionIds, writer'[g][q] = t
      PROVE  writer[g][q] = t /\ textN'[g][q] = textN[g][q]
  BY <1>2, <1>8, SessionFacts, Zenon
<1>9. WritersKnow'
  <2>1. ASSUME NEW g \in Files, NEW q \in Lines, NEW t \in SessionIds, writer'[g][q] = t
        PROVE  /\ textN'[g][q] \in 1 .. MaxEdits /\ g \in loaded'
               /\ <<t, g>> \in known' \/ t \in disposed'
               /\ running'[t] # NoEdit => running'[t].file # g
    <3>1. writer[g][q] = t /\ textN'[g][q] = textN[g][q]
      BY <1>8, <2>1, ZenonT(60)
    <3> QED
      BY <1>1, <3>1, Zenon DEF HunkInv, WritersKnow
  <2>2. (\A j \in known' : j[2] \in loaded') /\ \A t \in disposed' : queue'[t] = <<>>
    BY <1>1, Zenon DEF HunkInv, WritersKnow
  <2> QED
    BY <2>1, <2>2, Zenon DEF WritersKnow
<1>10. ASSUME NEW j \in known' \ disturbed', NEW q \in Lines, writer'[j[2]][q] = j[1]
       PROVE  /\ j \in Copies /\ j \in known \ disturbed /\ writer[j[2]][q] = j[1]
              /\ textN'[j[2]][q] = textN[j[2]][q] /\ textN[j[2]][q] # Typed
  <2>1. j \in Copies /\ j[1] \in SessionIds /\ j[2] \in Files
    BY <1>1, <1>10, CopyFacts, Zenon DEF TypeOK
  <2>2. writer[j[2]][q] = j[1] /\ textN'[j[2]][q] = textN[j[2]][q]
    BY <1>8, <1>10, <2>1, Zenon
  <2>3. textN[j[2]][q] \in 1 .. MaxEdits
    BY <2>1, <2>2, Zenon DEF HunkInv, WritersKnow
  <2> QED
    BY <1>1, <1>10, <2>1, <2>2, <2>3, SessionFacts, Zenon
<1>11. OwnTextApart'
  <2>1. ASSUME NEW j \in known' \ disturbed', NEW q \in Lines, NEW x \in Lines,
               writer'[j[2]][q] = j[1]
        PROVE  textN'[j[2]][q] # text0'[j][x]
    <3>1. textN[j[2]][q] # text0[j][x]
      BY <1>10, <2>1 DEF HunkInv, OwnTextApart
    <3>2. text0'[j][x] = text0[j][x] \/ text0'[j][x] = Typed
      BY <1>3, <1>10, <2>1, Zenon
    <3> QED
      BY <1>10, <2>1, <3>1, <3>2, Zenon
  <2> QED
    BY <2>1, Zenon DEF OwnTextApart
<1>12. LinesShown'
  <2>1. ASSUME NEW j \in known' \ disturbed', NEW q \in Lines, writer'[j[2]][q] = j[1]
        PROVE  Shown(j, q)'
    <3>1. Shown(j, q) /\ j \in Copies
      BY <1>10, <2>1, Zenon DEF HunkInv, LinesShown
    <3>2. LinesIn(hunks[j])' = LinesIn(hunks'[j])
      BY Zenon DEF LinesIn
    <3>3. LinesIn(hunks[j])' = LinesIn(hunks[j])
      BY <1>4, <3>1, <3>2, Zenon
    <3> QED
      BY <1>1, <3>1, <3>3, Zenon DEF Shown
  <2> QED
    BY <2>1, Zenon DEF LinesShown
<1> QED
  BY <1>7, <1>9, <1>11, <1>12, Zenon DEF HunkInv

\* A session ends, whatever it does to the documents and the other copies on
\* the way, as long as only disturbed copies notice.
LEMMA DisposeHunks ==
  ASSUME TypeOK, HunkInv, NEW s \in SessionIds, NEW H, NEW T, Dispose(s, H, T),
         running' = running, edits' = edits, loaded' = loaded, disturbed \subseteq disturbed',
         \A n \in 1 .. MaxEdits : Unwritten(n) =>
            /\ \A f \in Files, p \in Lines : textN'[f][p] # n
            /\ \A j \in Copies, p \in Lines : T[j][p] # n,
         \A f \in Files, p \in Lines :
            \/ writer'[f][p] = NoSession
            \/ writer'[f][p] = writer[f][p] /\ textN'[f][p] = textN[f][p],
         \A j \in known \ disturbed' : j[1] # s =>
            T[j] = text0[j] /\ LinesIn(H[j]) = LinesIn(hunks[j])
  PROVE  HunkInv'
<1>1. /\ disposed' = disposed \cup {s} /\ known' = known \ CopiesOf(s)
      /\ queue' = [queue EXCEPT ![s] = <<>>]
      /\ views' = [k \in Copies |-> IF k[1] = s THEN <<>> ELSE views[k]]
      /\ hunks' = [k \in Copies |-> IF k[1] = s THEN {} ELSE H[k]]
      /\ text0' = [k \in Copies |-> IF k[1] = s THEN BlankDocument ELSE T[k]]
  BY Zenon DEF Dispose
<1>2. /\ queue \in [SessionIds -> Seq(Edit)] /\ disposed \subseteq SessionIds
      /\ known \subseteq Copies
  BY Zenon DEF TypeOK
<1>3. queue'[s] = <<>> /\ \A t \in SessionIds : t # s => queue'[t] = queue[t]
  BY <1>1, <1>2, Zenon
<1>4. ASSUME NEW n \in 1 .. MaxEdits, Unwritten(n) PROVE Unwritten(n)'
  <2>1. ASSUME NEW j \in Copies, NEW p \in Lines PROVE text0'[j][p] # n
    <3>1. BlankDocument[p] = Base /\ n # Base
      BY SessionFacts, Zenon DEF BlankDocument
    <3>2. T[j][p] # n
      BY <1>4, Zenon
    <3>3. text0'[j] = BlankDocument \/ text0'[j] = T[j]
      BY <1>1, Zenon
    <3> QED
      BY <3>1, <3>2, <3>3, Zenon
  <2>2. \A f \in Files, p \in Lines : textN'[f][p] # n
    BY <1>4, Zenon
  <2> QED
    BY <2>1, <2>2, Zenon DEF Unwritten
<1>5. ASSUME NEW t \in SessionIds, NEW n, Holds(t, n)' PROVE Holds(t, n)
  <2>1. CASE t # s
    BY <1>3, <1>5, <2>1, Zenon DEF Holds
  <2>2. CASE t = s
    <3>1. \A i \in 1 .. Len(<<>>) : FALSE
      OBVIOUS
    <3> QED
      BY <1>3, <1>5, <2>2, <3>1, Zenon DEF Holds
  <2> QED
    BY <2>1, <2>2, Zenon
<1>6. EditsFresh'
  BY <1>4, <1>5, FreshKept, Zenon DEF HunkInv
<1>7. ASSUME NEW k \in known' PROVE k \in known /\ k \in Copies /\ k[1] # s
  <2>1. k \in known /\ k \in Copies /\ k \notin CopiesOf(s)
    BY <1>1, <1>2, Zenon
  <2>2. \A j \in Copies : j[1] = s => j \in CopiesOf(s)
    BY Zenon DEF Copies, CopiesOf
  <2> QED
    BY <2>1, <2>2, Zenon
<1>8. WritersKnow'
  <2>1. \A k \in known' : k[2] \in loaded'
    BY <1>7, Zenon DEF HunkInv, WritersKnow
  <2>2. \A t \in disposed' : queue'[t] = <<>>
    BY <1>1, <1>2, <1>3, Zenon DEF HunkInv, WritersKnow
  <2>3. ASSUME NEW f \in Files, NEW p \in Lines, NEW t \in SessionIds, writer'[f][p] = t
        PROVE  /\ textN'[f][p] \in 1 .. MaxEdits /\ f \in loaded'
               /\ <<t, f>> \in known' \/ t \in disposed'
               /\ running'[t] # NoEdit => running'[t].file # f
    <3>1. writer[f][p] = t /\ textN'[f][p] = textN[f][p]
      BY <2>3, SessionFacts, Zenon
    <3>2. /\ textN[f][p] \in 1 .. MaxEdits /\ f \in loaded
          /\ <<t, f>> \in known \/ t \in disposed
          /\ running[t] # NoEdit => running[t].file # f
      BY <3>1, ZenonT(60) DEF HunkInv, WritersKnow
    <3>3. t # s => <<t, f>> \notin CopiesOf(s)
      BY Zenon DEF CopiesOf
    <3> QED
      BY <1>1, <3>1, <3>2, <3>3, Zenon
  <2> QED
    BY <2>1, <2>2, <2>3 DEF WritersKnow
<1>9. ASSUME NEW k \in known' \ disturbed', NEW p \in Lines, writer'[k[2]][p] = k[1]
      PROVE  /\ k \in known \ disturbed /\ writer[k[2]][p] = k[1]
             /\ textN'[k[2]][p] = textN[k[2]][p] /\ text0'[k] = text0[k]
             /\ views'[k] = views[k] /\ LinesIn(hunks'[k]) = LinesIn(hunks[k])
  <2>1. k \in known \ disturbed /\ k \in known \ disturbed' /\ k \in Copies /\ k[1] # s
    BY <1>7, <1>9, Zenon
  <2>2. k[1] \in SessionIds /\ k[2] \in Files
    BY <2>1, CopyFacts, Zenon
  <2>3. writer[k[2]][p] = k[1] /\ textN'[k[2]][p] = textN[k[2]][p]
    <3>1. k[1] # NoSession
      BY <2>2, SessionFacts, Zenon
    <3>2. \/ writer'[k[2]][p] = NoSession
          \/ writer'[k[2]][p] = writer[k[2]][p] /\ textN'[k[2]][p] = textN[k[2]][p]
      BY <2>2, Zenon
    <3> QED
      BY <1>9, <3>1, <3>2, Zenon
  <2>4. text0'[k] = T[k] /\ views'[k] = views[k] /\ hunks'[k] = H[k]
    BY <1>1, <2>1, Zenon
  <2> QED
    BY <2>1, <2>3, <2>4, Zenon
<1>10. OwnTextApart'
  <2>1. ASSUME NEW k \in known' \ disturbed', NEW p \in Lines, NEW q \in Lines,
               writer'[k[2]][p] = k[1]
        PROVE  textN'[k[2]][p] # text0'[k][q]
    <3>1. /\ k \in known \ disturbed /\ writer[k[2]][p] = k[1]
          /\ textN'[k[2]][p] = textN[k[2]][p] /\ text0'[k] = text0[k]
      BY <1>9, <2>1, ZenonT(60)
    <3>2. textN[k[2]][p] # text0[k][q]
      BY <3>1 DEF HunkInv, OwnTextApart
    <3> QED
      BY <3>1, <3>2, Zenon
  <2> QED
    BY <2>1, Zenon DEF OwnTextApart
<1>11. LinesShown'
  <2>1. ASSUME NEW k \in known' \ disturbed', NEW p \in Lines, writer'[k[2]][p] = k[1]
        PROVE  Shown(k, p)'
    <3>1. /\ k \in known \ disturbed /\ writer[k[2]][p] = k[1]
          /\ views'[k] = views[k] /\ LinesIn(hunks'[k]) = LinesIn(hunks[k])
      BY <1>9, <2>1, Zenon
    <3>2. Shown(k, p)
      BY <3>1, Zenon DEF HunkInv, LinesShown
    <3>3. LinesIn(hunks[k])' = LinesIn(hunks'[k])
      BY Zenon DEF LinesIn
    <3> QED
      BY <3>1, <3>2, <3>3, Zenon DEF Shown
  <2> QED
    BY <2>1, Zenon DEF LinesShown
<1> QED
  BY <1>6, <1>8, <1>10, <1>11, Zenon DEF HunkInv

\* A session is accepted, or ends with its response.
LEMMA EndHunks ==
  ASSUME TypeOK, HunkInv, NEW s \in SessionIds, Dispose(s, hunks, text0),
         running' = running, edits' = edits, loaded' = loaded, UNCHANGED docVars
  PROVE  HunkInv'
<1>1. textN' = textN /\ writer' = writer /\ disturbed' = disturbed
  BY Zenon DEF docVars
<1>2. ASSUME NEW n \in 1 .. MaxEdits, Unwritten(n)
      PROVE  /\ \A f \in Files, p \in Lines : textN'[f][p] # n
             /\ \A j \in Copies, p \in Lines : text0[j][p] # n
  BY <1>1, <1>2, Zenon DEF Unwritten
<1>3. \A f \in Files, p \in Lines :
         writer'[f][p] = writer[f][p] /\ textN'[f][p] = textN[f][p]
  BY <1>1, Zenon
<1>4. disturbed \subseteq disturbed'
  BY <1>1, Zenon
<1> QED
  BY <1>2, <1>3, <1>4, DisposeHunks, ZenonT(60)

\* What a discarded document is made of.
LEMMA DiscardedValues ==
  ASSUME TypeOK, NEW s \in SessionIds, NEW f \in Files, NEW p \in Lines
  PROVE  /\ Discarded(s, f)[p] = text0[<<s, f>>][p] \/ Discarded(s, f)[p] = textN[f][p]
         /\ p \notin DiscardedLines(s, f) => Discarded(s, f)[p] = textN[f][p]
  BY Zenon DEF Discarded

\* A session is rejected.
LEMMA RejectHunks == ASSUME TypeOK, HunkInv, NEW c \in Chats, reject(c) PROVE HunkInv'
<1> DEFINE s == editingSessions[c]
           Seen(k) == k \in Listening(s, k[2])
           H == [k \in Copies |-> IF Seen(k)
                   THEN MirroredHunks(k, DiscardedLines(s, k[2])) ELSE hunks[k]]
           T(r) == [k \in Copies |-> IF Seen(k)
                      THEN MirroredText(k, DiscardedLines(s, k[2]), Discarded(s, k[2]), r[k[1]])
                      ELSE text0[k]]
<1>1. /\ s \in SessionIds
      /\ textN' = [f \in Files |-> Discarded(s, f)]
      /\ writer' = [f \in Files |-> [p \in Lines |->
            IF p \in DiscardedLines(s, f) THEN NoSession ELSE writer[f][p]]]
      /\ disturbed' = disturbed \cup {k \in known : k[1] # s /\ DiscardedLines(s, k[2]) # {}}
      /\ running' = running /\ loaded' = loaded /\ edits' = edits
  BY Zenon DEF reject, CanDecide
<1>2. PICK r \in [SessionIds -> Lines] : Dispose(s, H, T(r))
  BY Zenon DEF reject
<1>3. ASSUME NEW k \in Copies, NEW p \in Lines
      PROVE  \/ T(r)[k][p] = text0[k][p]
             \/ \E q \in DiscardedLines(s, k[2]) : T(r)[k][p] = Discarded(s, k[2])[q]
  <2>1. \A P, M, x : \/ MirroredText(k, P, M, x)[p] = text0[k][p]
                     \/ \E i \in P : MirroredText(k, P, M, x)[p] = M[i]
    BY MirroredValues
  <2>2. \/ T(r)[k] = text0[k]
        \/ T(r)[k] = MirroredText(k, DiscardedLines(s, k[2]), Discarded(s, k[2]), r[k[1]])
    BY Zenon
  <2> HIDE DEF T, s
  <2> QED
    BY <2>1, <2>2
<1>4. ASSUME NEW k \in known \ disturbed', k[1] # s
      PROVE  T(r)[k] = text0[k] /\ LinesIn(H[k]) = LinesIn(hunks[k])
  <2>1. k \in Copies /\ DiscardedLines(s, k[2]) = {}
    BY <1>1, <1>4, Zenon DEF TypeOK
  <2>2. Discarded(s, k[2]) \in Document
    <3>1. /\ k[2] \in Files /\ <<s, k[2]>> \in Copies /\ textN \in [Files -> Document]
          /\ text0 \in [Copies -> Document]
      BY <1>1, <2>1, CopyFacts, Zenon DEF TypeOK
    <3> HIDE DEF s
    <3> QED
      BY <3>1 DEF Discarded, Document
  <2> HIDE DEF s
  <2>3. MirroredText(k, {}, Discarded(s, k[2]), r[k[1]]) = text0[k]
    BY <2>1, <2>2, MirroredNothing, Zenon
  <2>4. T(r)[k] = text0[k]
    BY <2>1, <2>3, Zenon
  <2>5. LinesIn(H[k]) = LinesIn(hunks[k])
    BY <2>1, MirroredLines, Zenon
  <2> QED
    BY <2>4, <2>5, Zenon
<1> HIDE DEF H, T, Seen
<1>5. ASSUME NEW n \in 1 .. MaxEdits, Unwritten(n), NEW f \in Files, NEW p \in Lines
      PROVE  Discarded(s, f)[p] # n
  <2>1. Discarded(s, f)[p] = text0[<<s, f>>][p] \/ Discarded(s, f)[p] = textN[f][p]
    BY <1>1, DiscardedValues, Zenon
  <2>2. <<s, f>> \in Copies
    BY <1>1, CopyFacts, Zenon
  <2> QED
    BY <1>5, <2>1, <2>2, Zenon DEF Unwritten
<1>6. ASSUME NEW n \in 1 .. MaxEdits, Unwritten(n)
      PROVE  /\ \A f \in Files, p \in Lines : textN'[f][p] # n
             /\ \A k \in Copies, p \in Lines : T(r)[k][p] # n
  <2>1. \A f \in Files, p \in Lines : textN'[f][p] # n
    BY <1>1, <1>5, <1>6, Zenon
  <2>2. ASSUME NEW k \in Copies, NEW p \in Lines PROVE T(r)[k][p] # n
    <3>1. k[2] \in Files /\ text0[k][p] # n
      BY <1>6, CopyFacts, Zenon DEF Unwritten
    <3>2. \A q \in DiscardedLines(s, k[2]) : q \in Lines
      <4>1. <<s, k[2]>> \in Copies
        BY <1>1, <3>1, CopyFacts, Zenon
      <4>2. hunks[<<s, k[2]>>] \in SUBSET Hunk
        BY <4>1, Zenon DEF TypeOK
      <4> HIDE DEF s
      <4> QED
        BY <4>2, Zenon DEF DiscardedLines, LinesIn, Pending, Hunk
    <3>3. \A q \in DiscardedLines(s, k[2]) : Discarded(s, k[2])[q] # n
      BY <1>5, <1>6, <3>1, <3>2, Zenon
    <3> HIDE DEF s
    <3> QED
      BY <1>3, <3>1, <3>3, Zenon
  <2> QED
    BY <2>1, <2>2, Zenon
<1>7. ASSUME NEW f \in Files, NEW p \in Lines
      PROVE  \/ writer'[f][p] = NoSession
             \/ writer'[f][p] = writer[f][p] /\ textN'[f][p] = textN[f][p]
  <2>1. /\ textN'[f][p] = Discarded(s, f)[p]
        /\ writer'[f][p] = IF p \in DiscardedLines(s, f) THEN NoSession ELSE writer[f][p]
    BY <1>1, Zenon
  <2> QED
    BY <1>1, <2>1, DiscardedValues, Zenon
<1>8. disturbed \subseteq disturbed'
  BY <1>1, Zenon
<1> HIDE DEF s
<1>9. PICK newHunks, newText0 : newHunks = H /\ newText0 = T(r)
  BY Zenon
<1>10. /\ Dispose(s, newHunks, newText0)
       /\ \A n \in 1 .. MaxEdits : Unwritten(n) =>
             /\ \A f \in Files, p \in Lines : textN'[f][p] # n
             /\ \A k \in Copies, p \in Lines : newText0[k][p] # n
       /\ \A k \in known \ disturbed' : k[1] # s =>
             newText0[k] = text0[k] /\ LinesIn(newHunks[k]) = LinesIn(hunks[k])
  BY <1>2, <1>4, <1>6, <1>9, Zenon
<1> QED
  BY <1>1, <1>7, <1>8, <1>10, DisposeHunks, Zenon

LEMMA InitHunks == Init => HunkInv
<1> SUFFICES ASSUME Init PROVE HunkInv
  OBVIOUS
<1>1. \A n \in 1 .. MaxEdits : Unwritten(n)
  BY SessionFacts, Zenon DEF Init, Unwritten
<1>2. \A s \in SessionIds : \A n : ~Holds(s, n)
  <2>1. \A i \in 1 .. Len(<<>>) : FALSE
    OBVIOUS
  <2> QED
    BY <2>1, Zenon DEF Init, Holds
<1>3. EditsFresh
  BY <1>1, <1>2, Zenon DEF EditsFresh
<1>4. WritersKnow
  BY SessionFacts, Zenon DEF Init, WritersKnow
<1>5. OwnTextApart /\ LinesShown
  BY Zenon DEF Init, OwnTextApart, LinesShown
<1> QED
  BY <1>3, <1>4, <1>5, Zenon DEF HunkInv

LEMMA NextHunks == TypeOK /\ OrderInv /\ HunkInv /\ [Next]_vars => HunkInv'
<1> SUFFICES ASSUME TypeOK, OrderInv, HunkInv, [Next]_vars PROVE HunkInv'
  BY Zenon
<1>1. ASSUME loaded \subseteq loaded', edits' = edits, disposed' = disposed,
             UNCHANGED <<queueVars, copyVars, docVars>>
      PROVE  HunkInv'
  <2>1. queue' = queue /\ running' = running
    BY <1>1, Zenon DEF queueVars
  <2>2. ASSUME NEW s \in SessionIds, NEW n, Holds(s, n)' PROVE Holds(s, n)
    BY <2>1, <2>2, Zenon DEF Holds
  <2>3. \A s \in disposed : queue'[s] = <<>>
    BY <2>1, Zenon DEF HunkInv, WritersKnow
  <2>4. \A s \in SessionIds : running'[s] = running[s]
    BY <2>1, Zenon
  <2> QED
    BY <1>1, <2>2, <2>3, <2>4, HunksKept, Zenon
<1>2. ASSUME UNCHANGED <<sessionVars, queueVars, copyVars, docVars, loaded, edits>> PROVE HunkInv'
  BY <1>1, <1>2, Zenon DEF sessionVars
<1>3. ASSUME NEW f \in Files, openEditor(f) PROVE HunkInv'
  BY <1>1, <1>3, Zenon DEF openEditor, sessionVars
<1>4. ASSUME NEW c \in Chats, completeResponse(c) \/ getOrRestoreSession(c) \/ setCodeEdits(c)
      PROVE  HunkInv'
  BY <1>2, <1>4, Zenon DEF completeResponse, getOrRestoreSession, setCodeEdits
<1>5. ASSUME NEW c \in Chats, NEW i, applyPlanStep(c, i) PROVE HunkInv'
  BY <1>2, <1>5, Zenon DEF applyPlanStep
<1>6. CASE UNCHANGED vars
  BY <1>2, <1>6, Zenon DEF vars
<1>7. ASSUME NEW c \in Chats, accept(c) \/ addRequest(c) \/ dispose(c) PROVE HunkInv'
  <2>1. running' = running /\ edits' = edits /\ loaded' = loaded /\ UNCHANGED docVars
    BY <1>7, Zenon DEF accept, addRequest, dispose
  <2>2. \/ editingSessions[c] \in SessionIds /\ Dispose(editingSessions[c], hunks, text0)
        \/ UNCHANGED <<disposed, queue, copyVars>>
    BY <1>7, Zenon DEF accept, CanDecide, addRequest, dispose
  <2>3. CASE UNCHANGED <<disposed, queue, copyVars>>
    BY <1>1, <2>1, <2>3, Zenon DEF queueVars
  <2> QED
    BY <2>1, <2>2, <2>3, EndHunks, Zenon
<1> QED
  BY <1>3, <1>4, <1>5, <1>6, <1>7, ApplyHunks, ProcessHunks, ModelHunks, ViewHunks,
     TypingHunks, RejectHunks, Zenon DEF Next

LEMMA HunksAlways == Spec => [](TypeOK /\ HunkInv)
  BY InitOrder, InitHunks, EditsTyped, NextOrder, NextHunks, PTL DEF Spec

\* When no diff of a file is under way, every line that the edits of a session
\* have written in it is in one of the session's hunks (updateView), for any
\* number of sessions that share files, unless another session's reject has
\* changed the file.
THEOREM EditsShown == Spec => []EditsInHunks
<1>1. HunkInv => EditsInHunks
  BY Zenon DEF HunkInv, LinesShown, Shown, EditsInHunks
<1> QED
  BY <1>1, HunksAlways, PTL

\* Rejecting a session (reject, discardAll) while no diff of its files is under
\* way leaves no line that one of its edits has written, if the user and other
\* sessions have not typed into its hunks and no other reject changed its files.
THEOREM RejectsLeaveNothing == Spec => RejectLeavesNothing
<1> DEFINE Clean(c) ==
             LET s == editingSessions[c]
             IN  /\ reject(c)
                 /\ \A k \in CopiesOf(s) :
                       views[k] = <<>> /\ Pending(k) = hunks[k] /\ k \notin disturbed
                 => \A f \in Files, p \in Lines : writer'[f][p] # s
<1>1. ASSUME TypeOK, HunkInv PROVE \A c \in Chats : Clean(c)
  <2> SUFFICES ASSUME NEW c \in Chats, reject(c),
                      \A k \in CopiesOf(editingSessions[c]) :
                         views[k] = <<>> /\ Pending(k) = hunks[k] /\ k \notin disturbed,
                      NEW f \in Files, NEW p \in Lines, writer'[f][p] = editingSessions[c]
               PROVE  FALSE
    BY Zenon
  <2> DEFINE s == editingSessions[c]
             k == <<s, f>>
  <2>1. /\ s \in SessionIds \ disposed
        /\ writer'[f][p] = IF p \in DiscardedLines(s, f) THEN NoSession ELSE writer[f][p]
    BY Zenon DEF reject, CanDecide
  <2>2. k[1] = s /\ k[2] = f /\ k \in CopiesOf(s)
    BY Zenon DEF CopiesOf
  <2>3. p \notin DiscardedLines(s, f) /\ writer[f][p] = s
    BY <2>1, SessionFacts, Zenon
  <2>4. k \in known
    BY <1>1, <2>1, <2>3, Zenon DEF HunkInv, WritersKnow
  <2> HIDE DEF k
  <2>5. Shown(k, p)
    BY <1>1, <2>2, <2>3, <2>4, Zenon DEF HunkInv, LinesShown
  <2>6. p \in LinesIn(Pending(k))
    BY <2>2, <2>5, Zenon DEF Shown
  <2> QED
    BY <2>3, <2>6, Zenon DEF DiscardedLines, k
<1>2. TypeOK /\ HunkInv => [\A c \in Chats : Clean(c)]_vars
  BY <1>1, Zenon
<1>3. Spec => [][\A c \in Chats : Clean(c)]_vars
  <2> HIDE DEF Clean
  <2> QED
    BY <1>2, HunksAlways, PTL
<1> QED
  BY <1>3, Zenon DEF RejectLeavesNothing
=============================================================================
