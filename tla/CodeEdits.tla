----------------------------- MODULE CodeEdits -----------------------------
(***************************************************************************)
(* The code editing sessions of the agent                                  *)
(* (aideAgent/browser/aideAgentCodeEditingService.ts), the hunks they keep *)
(* of each file (aideAgent/common/aideAgentEditingSession.ts) and the plan *)
(* of a chat (aideAgentPlanModel.ts), as ChatModel uses them.              *)
(*                                                                         *)
(* A session holds, of each file it has edited, the text without its edits *)
(* (textModel0) and hunks: the lines in which the document (textModelN)    *)
(* differs from it.  Every edit asks the editor worker for a new diff and  *)
(* does not wait for it.  Meanwhile more edits arrive, the user types, and *)
(* the session is accepted, rejected or closed.                            *)
(*                                                                         *)
(* A document is a function from a few of its lines to texts.  A text is   *)
(* the number of the edit that wrote it, Typed or Base.                    *)
(***************************************************************************)
EXTENDS Integers, Sequences, FiniteSets

CONSTANTS
    Chats,          \* session ids of chats
    Files,          \* resources
    Lines,          \* line numbers, of every file
    MaxEdits,       \* bound: edits of the agent
    MaxSessions,    \* bound: editing sessions ever started
    MaxTyped,       \* bound: changes the user types
    MaxClosed,      \* bound: chats closed
    MaxSteps        \* bound: plan steps of a chat

ASSUME EditsAssumption ==
    /\ Lines \subseteq Nat
    /\ {MaxEdits, MaxSessions, MaxTyped, MaxClosed, MaxSteps} \subseteq Nat

\* Changes that are at most this many lines apart are one hunk.
_HUNK_THRESHOLD == 8

Base == 0
Typed == -1
Texts == Typed .. MaxEdits
Document == [Lines -> Texts]
SessionIds == 1 .. MaxSessions
NoSession == 0
Edit == [file : Files, line : Lines, number : 1 .. MaxEdits]
NoEdit == [number |-> 0]
HunkStates == {"Pending", "Accepted"}
Hunk == [lines : SUBSET Lines, state : HunkStates]
\* A diff that was asked for, and one that the worker has computed.
View == [ready : BOOLEAN, lines : SUBSET Lines]
Asked == [ready |-> FALSE, lines |-> {}]
\* A file as one session knows it.
Copies == SessionIds \X Files

VARIABLES
    open,             \* chats with a live ChatModel
    editingSessions,  \* [Chats -> session or NoSession]: _editingSessions
    chatOf,           \* the chats of the sessions started, in order
    disposed,         \* sessions that were disposed
    queue,            \* [SessionIds -> edits in _progressiveEditsQueue]
    running,          \* [SessionIds -> the edit waiting for its document]
    known,            \* copies in _codeEdits
    ignoring,         \* copies with ignoreTextModelNChanges
    text0,            \* [Copies -> textModel0]
    hunks,            \* [Copies -> hunks]
    views,            \* [Copies -> calls of updateView under way]
    textN,            \* [Files -> document]
    loaded,           \* files that have a text model
    writer,           \* [Files -> session that wrote each line last, if one did]
    disturbed,        \* copies of files that another session's reject has changed
    edits,            \* number of edits received
    typed,            \* number of changes typed
    closed,           \* number of chats closed
    plan,             \* [Chats -> indexes of its steps; <<>> is also no plan]
    steps,            \* [Chats -> number of steps the agent has announced]
    lastExchangeComplete,
    sessionHasEdits,  \* chats whose widget shows edits
    thrown            \* errors thrown by progress handlers

sessionVars == <<editingSessions, chatOf, disposed>>
queueVars == <<queue, running>>
copyVars == <<known, ignoring, text0, hunks, views>>
planVars == <<plan, steps>>
keyVars == <<lastExchangeComplete, sessionHasEdits>>
docVars == <<textN, writer, disturbed>>
vars == <<open, sessionVars, queueVars, copyVars, docVars, loaded, edits, typed,
          closed, planVars, keyVars, thrown>>

Init ==
    /\ open = Chats
    /\ editingSessions = [c \in Chats |-> NoSession]
    /\ chatOf = <<>>
    /\ disposed = {}
    /\ queue = [s \in SessionIds |-> <<>>]
    /\ running = [s \in SessionIds |-> NoEdit]
    /\ known = {}
    /\ ignoring = {}
    /\ text0 = [k \in Copies |-> [p \in Lines |-> Base]]
    /\ hunks = [k \in Copies |-> {}]
    /\ views = [k \in Copies |-> <<>>]
    /\ textN = [f \in Files |-> [p \in Lines |-> Base]]
    /\ loaded \in SUBSET Files
    /\ writer = [f \in Files |-> [p \in Lines |-> NoSession]]
    /\ disturbed = {}
    /\ edits = 0
    /\ typed = 0
    /\ closed = 0
    /\ plan = [c \in Chats |-> <<>>]
    /\ steps = [c \in Chats |-> 0]
    /\ lastExchangeComplete = FALSE
    /\ sessionHasEdits = {}
    /\ thrown = {}

-----------------------------------------------------------------------------
\* Hunks and the mirror of changes.

Differing(f, k) == {p \in Lines : textN[f][p] # text0[k][p]}

\* No gap between p and q in the lines d is wider than the threshold.
Together(d, p, q) ==
    \A r \in d : (r >= p /\ r < q) \/ (r >= q /\ r < p) =>
        \E t \in d : t > r /\ t - (r + 1) <= _HUNK_THRESHOLD

MergedChanges(d) ==
    {[lines |-> {q \in d : Together(d, p, q)}, state |-> "Pending"] : p \in d}

LinesIn(H) == UNION {h.lines : h \in H}
Pending(k) == {h \in hunks[k] : h.state = "Pending"}

\* The projection of a change into textModel0 is right when every earlier line
\* in which the texts differ is in a pending hunk, and no hunk before is accepted.
Exact(k, N, p) ==
    /\ \A q \in Lines : q < p /\ N[q] # text0[k][q] => q \in LinesIn(Pending(k))
    /\ \A h \in hunks[k] \ Pending(k) : \A q \in h.lines : q >= p

\* The lines P of a document became N.  A copy takes this as a sign to accept
\* the pending hunks that changed ...
MirroredHunks(k, P) ==
    {IF h.state = "Pending" /\ h.lines \cap P # {}
     THEN [h EXCEPT !.state = "Accepted"] ELSE h : h \in hunks[k]}

\* ... and takes over the other changes, at line r if it projects them wrongly.
MirroredText(k, P, N, r) ==
    LET Taken == P \ LinesIn(Pending(k))
        Lands(p) == IF Exact(k, N, p) THEN p ELSE r
    IN  [q \in Lines |-> IF \E p \in Taken : Lands(p) = q
                         THEN N[CHOOSE p \in Taken : Lands(p) = q]
                         ELSE text0[k][q]]

CopiesOf(s) == {s} \X Files

\* The copies that see a change of file f which session s makes.
Listening(s, f) == {k \in known \ ignoring : k[1] # s /\ k[2] = f}

-----------------------------------------------------------------------------
\* Fault: an edit does not wait for the one before it.
RunnableAtOnce(s) == queue[s] # <<>>

\* Promise jobs run before any other event is handled.
Runnable(s) == running[s] = NoEdit /\ queue[s] # <<>>
Idle == \A s \in SessionIds : ~Runnable(s)

\* ChatResponseModel.applyCodeEdit and apply: the edit is queued.  A disposed
\* queue throws.
applyCodeEdit(c, f, p) ==
    LET old == editingSessions[c]
        s == IF old = NoSession THEN Len(chatOf) + 1 ELSE old
        e == [file |-> f, line |-> p, number |-> edits + 1]
    IN  /\ Idle
        /\ c \in open
        /\ edits < MaxEdits
        /\ s \in SessionIds
        /\ chatOf' = IF old = NoSession THEN Append(chatOf, c) ELSE chatOf
        /\ editingSessions' = [editingSessions EXCEPT ![c] = s]
        /\ edits' = edits + 1
        /\ IF s \in disposed
           THEN thrown' = thrown \cup {"Object has been disposed"} /\ queue' = queue
           ELSE queue' = [queue EXCEPT ![s] = Append(@, e)] /\ thrown' = thrown
        /\ lastExchangeComplete' = FALSE
        /\ UNCHANGED <<open, disposed, running, copyVars, docVars, loaded, typed, closed,
                       planVars, sessionHasEdits>>

\* Fault: no new diff is asked for while one is under way.
EditDocumentOnce(s, e) ==
    LET f == e.file
        k == <<s, f>>
        N == [textN[f] EXCEPT ![e.line] = e.number]
    IN  /\ textN' = [textN EXCEPT ![f] = N]
        /\ writer' = [writer EXCEPT ![f][e.line] = s]
        /\ known' = known \cup {k}
        /\ ignoring' = ignoring \cup {k}
        /\ views' = [views EXCEPT ![k] = IF @ = <<>> THEN <<Asked>> ELSE @]
        /\ UNCHANGED <<hunks, disturbed>>
        /\ text0' = IF k \in known THEN text0 ELSE [text0 EXCEPT ![k] = textN[f]]

\* The rest of processWorkspaceEdit once there is a text model: a first edit
\* copies the document; the flag is set, the edit made and a diff asked for.
EditDocument(s, e) ==
    LET f == e.file
        k == <<s, f>>
        N == [textN[f] EXCEPT ![e.line] = e.number]
    IN  /\ textN' = [textN EXCEPT ![f] = N]
        /\ writer' = [writer EXCEPT ![f][e.line] = s]
        /\ known' = known \cup {k}
        /\ ignoring' = ignoring \cup {k}
        /\ views' = [views EXCEPT ![k] = Append(@, Asked)]
        /\ UNCHANGED disturbed
        /\ hunks' = [j \in Copies |->
              IF j \in Listening(s, f) THEN MirroredHunks(j, {e.line}) ELSE hunks[j]]
        /\ \E r \in [SessionIds -> Lines] :
              text0' = [j \in Copies |->
                 IF j = k /\ k \notin known THEN textN[f]
                 ELSE IF j \in Listening(s, f) THEN MirroredText(j, {e.line}, N, r[j[1]])
                 ELSE text0[j]]

processWorkspaceEdit(s) ==
    LET e == Head(queue[s])
    IN  /\ Runnable(s)
        /\ queue' = [queue EXCEPT ![s] = Tail(@)]
        /\ IF <<s, e.file>> \in known \/ e.file \in loaded
           THEN EditDocument(s, e) /\ running' = running
           ELSE running' = [running EXCEPT ![s] = e] /\ UNCHANGED <<copyVars, docVars>>
        /\ UNCHANGED <<open, sessionVars, loaded, edits, typed, closed, planVars, keyVars, thrown>>

\* createModelReference resolves, also for a session disposed meanwhile.
createModelReference(s) ==
    /\ Idle
    /\ running[s] # NoEdit
    /\ loaded' = loaded \cup {running[s].file}
    /\ EditDocument(s, running[s])
    /\ running' = [running EXCEPT ![s] = NoEdit]
    /\ UNCHANGED <<open, sessionVars, queue, edits, typed, closed, planVars, keyVars, thrown>>

createModelReferenceFails(s) ==
    /\ Idle
    /\ running[s] # NoEdit
    /\ running' = [running EXCEPT ![s] = NoEdit]
    /\ UNCHANGED <<open, sessionVars, queue, copyVars, docVars, loaded, edits, typed, closed,
                   planVars, keyVars, thrown>>

\* The user opens a file: there is a text model of it from now on.
openEditor(f) ==
    /\ Idle
    /\ f \notin loaded
    /\ loaded' = loaded \cup {f}
    /\ UNCHANGED <<open, sessionVars, queueVars, copyVars, docVars, edits, typed, closed,
                   planVars, keyVars, thrown>>

\* Fault: a diff is dropped when a later one was asked for.
calculateDiffOfLast(k) ==
    /\ Idle
    /\ views[k] # <<>>
    /\ ~views[k][Len(views[k])].ready
    /\ views' = [views EXCEPT ![k][Len(views[k])] =
                    [ready |-> TRUE, lines |-> Differing(k[2], k)]]
    /\ UNCHANGED <<open, sessionVars, queueVars, known, ignoring, text0, hunks, docVars, loaded,
                   edits, typed, closed, planVars, keyVars, thrown>>

\* calculateDiff: the worker answers in the order it was asked.
calculateDiff(k) ==
    /\ Idle
    /\ \E i \in 1 .. Len(views[k]) :
          /\ ~views[k][i].ready
          /\ \A j \in 1 .. (i - 1) : views[k][j].ready
          /\ views' = [views EXCEPT ![k][i] = [ready |-> TRUE, lines |-> Differing(k[2], k)]]
    /\ UNCHANGED <<open, sessionVars, queueVars, known, ignoring, text0, hunks, docVars, loaded,
                   edits, typed, closed, planVars, keyVars, thrown>>

\* Fault: the flag is cleared only if the active editor shows the file.
updateViewIfActive(k) ==
    /\ Idle
    /\ views[k] # <<>>
    /\ Head(views[k]).ready
    /\ hunks' = [hunks EXCEPT ![k] = MergedChanges(Head(views[k]).lines)]
    /\ ignoring' \in {ignoring, ignoring \ {k}}
    /\ views' = [views EXCEPT ![k] = Tail(@)]
    /\ UNCHANGED <<open, sessionVars, queueVars, known, text0, docVars, loaded, edits, typed,
                   closed, planVars, keyVars, thrown>>

\* The rest of updateView: recompute, and the flag is cleared.
updateView(k) ==
    /\ Idle
    /\ views[k] # <<>>
    /\ Head(views[k]).ready
    /\ hunks' = [hunks EXCEPT ![k] = MergedChanges(Head(views[k]).lines)]
    /\ ignoring' = ignoring \ {k}
    /\ views' = [views EXCEPT ![k] = Tail(@)]
    /\ UNCHANGED <<open, sessionVars, queueVars, known, text0, docVars, loaded, edits, typed,
                   closed, planVars, keyVars, thrown>>

userTypes(f, p) ==
    LET N == [textN[f] EXCEPT ![p] = Typed]
        L == Listening(NoSession, f)
    IN  /\ Idle
        /\ f \in loaded
        /\ typed < MaxTyped
        /\ typed' = typed + 1
        /\ textN' = [textN EXCEPT ![f] = N]
        /\ writer' = [writer EXCEPT ![f][p] = NoSession]
        /\ hunks' = [j \in Copies |-> IF j \in L THEN MirroredHunks(j, {p}) ELSE hunks[j]]
        /\ \E r \in [SessionIds -> Lines] :
              text0' = [j \in Copies |->
                 IF j \in L THEN MirroredText(j, {p}, N, r[j[1]]) ELSE text0[j]]
        /\ UNCHANGED <<open, sessionVars, queueVars, known, ignoring, views, disturbed, loaded,
                       edits, closed, planVars, keyVars, thrown>>

-----------------------------------------------------------------------------
\* The end of a session.

BlankDocument == [p \in Lines |-> Base]

\* Fault: the flags of the session's copies survive it.
DisposeKeepsFlags(s, newHunks, newText0) ==
    /\ disposed' = disposed \cup {s}
    /\ queue' = [queue EXCEPT ![s] = <<>>]
    /\ known' = known \ CopiesOf(s)
    /\ UNCHANGED ignoring
    /\ views' = [k \in Copies |-> IF k[1] = s THEN <<>> ELSE views[k]]
    /\ hunks' = [k \in Copies |-> IF k[1] = s THEN {} ELSE newHunks[k]]
    /\ text0' = [k \in Copies |-> IF k[1] = s THEN BlankDocument ELSE newText0[k]]

\* dispose, given what became of the other sessions' copies.
Dispose(s, newHunks, newText0) ==
    /\ disposed' = disposed \cup {s}
    /\ queue' = [queue EXCEPT ![s] = <<>>]
    /\ known' = known \ CopiesOf(s)
    /\ ignoring' = ignoring \ CopiesOf(s)
    /\ views' = [k \in Copies |-> IF k[1] = s THEN <<>> ELSE views[k]]
    /\ hunks' = [k \in Copies |-> IF k[1] = s THEN {} ELSE newHunks[k]]
    /\ text0' = [k \in Copies |-> IF k[1] = s THEN BlankDocument ELSE newText0[k]]

\* onDidComplete of a live session: the session goes, and the plans of all chats.
Completed(c) ==
    /\ editingSessions' = [editingSessions EXCEPT ![c] = NoSession]
    /\ plan' = [d \in Chats |-> <<>>]

\* What the commands' preconditions ask for.
CanDecide(c) ==
    /\ Idle
    /\ c \in open
    /\ lastExchangeComplete
    /\ c \in sessionHasEdits
    /\ editingSessions[c] \in SessionIds \ disposed

accept(c) ==
    /\ CanDecide(c)
    /\ Dispose(editingSessions[c], hunks, text0)
    /\ Completed(c)
    /\ UNCHANGED <<open, chatOf, running, docVars, loaded, edits, typed, closed, steps, keyVars,
                   thrown>>

\* Fault: only one hunk is discarded.
DiscardedFirst(s, f) ==
    LET H == Pending(<<s, f>>)
    IN  IF H = {} THEN {} ELSE (CHOOSE h \in H : TRUE).lines

\* discardAll: every pending hunk gets the text of textModel0.
DiscardedLines(s, f) == LinesIn(Pending(<<s, f>>))

Discarded(s, f) ==
    [p \in Lines |-> IF p \in DiscardedLines(s, f) THEN text0[<<s, f>>][p] ELSE textN[f][p]]

reject(c) ==
    LET s == editingSessions[c]
        Seen(k) == k \in Listening(s, k[2])
    IN  /\ CanDecide(c)
        /\ textN' = [f \in Files |-> Discarded(s, f)]
        /\ writer' = [f \in Files |-> [p \in Lines |->
              IF p \in DiscardedLines(s, f) THEN NoSession ELSE writer[f][p]]]
        /\ disturbed' = disturbed \cup
              {k \in known : k[1] # s /\ DiscardedLines(s, k[2]) # {}}
        /\ \E r \in [SessionIds -> Lines] :
              Dispose(s,
                 [k \in Copies |-> IF Seen(k)
                    THEN MirroredHunks(k, DiscardedLines(s, k[2])) ELSE hunks[k]],
                 [k \in Copies |-> IF Seen(k)
                    THEN MirroredText(k, DiscardedLines(s, k[2]), Discarded(s, k[2]), r[k[1]])
                    ELSE text0[k]])
        /\ Completed(c)
        /\ UNCHANGED <<open, chatOf, running, loaded, edits, typed, closed, steps, keyVars, thrown>>

\* A new request accepts the edits of the chat's session (autoAcceptLastExchange).
addRequest(c) ==
    /\ Idle
    /\ c \in open
    /\ lastExchangeComplete' = FALSE
    /\ IF editingSessions[c] \in SessionIds \ disposed
       THEN Dispose(editingSessions[c], hunks, text0) /\ Completed(c)
       ELSE UNCHANGED <<disposed, queue, copyVars, editingSessions, plan>>
    /\ UNCHANGED <<open, chatOf, running, docVars, loaded, edits, typed, closed, steps,
                   sessionHasEdits, thrown>>

completeResponse(c) ==
    /\ Idle
    /\ c \in open
    /\ lastExchangeComplete' = TRUE
    /\ UNCHANGED <<open, sessionVars, queueVars, copyVars, docVars, loaded, edits, typed, closed,
                   planVars, sessionHasEdits, thrown>>

\* ChatModel.dispose disposes the responses, and the response that started the
\* editing session disposes it.  The service keeps it in its map.
dispose(c) ==
    /\ Idle
    /\ c \in open
    /\ closed < MaxClosed
    /\ closed' = closed + 1
    /\ open' = open \ {c}
    /\ IF editingSessions[c] \in SessionIds \ disposed
       THEN Dispose(editingSessions[c], hunks, text0)
       ELSE UNCHANGED <<disposed, queue, copyVars>>
    /\ plan' = [plan EXCEPT ![c] = <<>>]
    /\ UNCHANGED <<editingSessions, chatOf, running, docVars, loaded, edits, typed, steps, keyVars,
                   thrown>>

getOrRestoreSession(c) ==
    /\ Idle
    /\ c \notin open
    /\ open' = open \cup {c}
    /\ UNCHANGED <<sessionVars, queueVars, copyVars, docVars, loaded, edits, typed, closed, planVars,
                   keyVars, thrown>>

\* The widget of a chat sets its context key from the pending hunks.
setCodeEdits(c) ==
    LET s == editingSessions[c]
        some == s # NoSession /\ \E k \in CopiesOf(s) : Pending(k) # {}
    IN  /\ Idle
        /\ c \in open
        /\ sessionHasEdits' = IF some THEN sessionHasEdits \cup {c} ELSE sessionHasEdits \ {c}
        /\ UNCHANGED <<open, sessionVars, queueVars, copyVars, docVars, loaded, edits, typed, closed,
                       planVars, lastExchangeComplete, thrown>>

\* applyPlanStep and updateSteps.  The agent announces steps in order, and may
\* add to any step it has announced.
applyPlanStep(c, i) ==
    LET found == i < Len(plan[c])
        mismatch == found /\ plan[c][i + 1] # i
    IN  /\ Idle
        /\ c \in open
        /\ i <= steps[c]
        /\ found \/ Len(plan[c]) < MaxSteps
        /\ steps' = [steps EXCEPT ![c] = IF i = @ THEN i + 1 ELSE @]
        /\ plan' = IF found THEN plan ELSE [plan EXCEPT ![c] = Append(@, i)]
        /\ thrown' = IF mismatch THEN thrown \cup {"Index mismatch"} ELSE thrown
        /\ lastExchangeComplete' = (lastExchangeComplete /\ mismatch)
        /\ UNCHANGED <<open, sessionVars, queueVars, copyVars, docVars, loaded, edits, typed, closed,
                       sessionHasEdits>>

-----------------------------------------------------------------------------
Next ==
    \/ \E c \in Chats, f \in Files, p \in Lines : applyCodeEdit(c, f, p)
    \/ \E s \in SessionIds :
          processWorkspaceEdit(s) \/ createModelReference(s) \/ createModelReferenceFails(s)
    \/ \E k \in Copies : calculateDiff(k) \/ updateView(k)
    \/ \E f \in Files : openEditor(f) \/ \E p \in Lines : userTypes(f, p)
    \/ \E c \in Chats :
          \/ accept(c) \/ reject(c) \/ addRequest(c) \/ completeResponse(c)
          \/ dispose(c) \/ getOrRestoreSession(c) \/ setCodeEdits(c)
          \/ \E i \in 0 .. (MaxSteps - 1) : applyPlanStep(c, i)

Spec == Init /\ [][Next]_vars

\* Promise jobs run, text models load or fail to, the worker answers.
Fairness ==
    /\ \A s \in SessionIds :
          /\ WF_vars(processWorkspaceEdit(s))
          /\ WF_vars(createModelReference(s) \/ createModelReferenceFails(s))
    /\ \A k \in Copies : WF_vars(calculateDiff(k)) /\ WF_vars(updateView(k))

FairSpec == Spec /\ Fairness

-----------------------------------------------------------------------------
TypeOK ==
    /\ open \subseteq Chats
    /\ editingSessions \in [Chats -> SessionIds \cup {NoSession}]
    /\ chatOf \in Seq(Chats) /\ Len(chatOf) <= MaxSessions
    /\ disposed \subseteq SessionIds
    /\ queue \in [SessionIds -> Seq(Edit)]
    /\ running \in [SessionIds -> Edit \cup {NoEdit}]
    /\ known \subseteq Copies
    /\ ignoring \subseteq known
    /\ text0 \in [Copies -> Document]
    /\ hunks \in [Copies -> SUBSET Hunk]
    /\ views \in [Copies -> Seq(View)]
    /\ textN \in [Files -> Document]
    /\ loaded \subseteq Files
    /\ writer \in [Files -> [Lines -> SessionIds \cup {NoSession}]]
    /\ disturbed \subseteq Copies
    /\ edits \in 0 .. MaxEdits
    /\ typed \in 0 .. MaxTyped
    /\ closed \in 0 .. MaxClosed
    /\ plan \in [Chats -> Seq(0 .. (MaxSteps - 1))]
    /\ steps \in [Chats -> 0 .. MaxSteps]
    /\ lastExchangeComplete \in BOOLEAN
    /\ sessionHasEdits \subseteq Chats
    /\ thrown \subseteq {"Object has been disposed", "Index mismatch"}

\* updateView is not awaited, and any of several calls clears the flag: while it
\* is set some call is still to end, so that changes are not ignored for ever.
IgnoringEnds == \A k \in ignoring : views[k] # <<>>

\* When no call of updateView is under way, every line an edit of the session
\* has written is in one of its hunks, whatever diffs were stale on the way: it
\* can be shown and discarded.  Only when another session that shares the file
\* is rejected may a line the session wrote get into its textModel0.
EditsInHunks ==
    \A k \in known \ disturbed : \A p \in Lines :
        views[k] = <<>> /\ writer[k[2]][p] = k[1] => p \in LinesIn(hunks[k])

\* The queue makes the edits of a session in the order of their arrival, also
\* while the document of an earlier one is loading.
EditsInOrder ==
    \A s \in SessionIds \ disposed : \A f \in Files, p \in Lines :
        writer[f][p] = s =>
            /\ running[s] # NoEdit => textN[f][p] < running[s].number
            /\ \A i \in 1 .. Len(queue[s]) : textN[f][p] < queue[s][i].number

\* Rejecting a session with no diff and no edit under way leaves no text of its
\* edits, except in hunks the user has typed into.
RejectLeavesNothing ==
    [][\A c \in Chats :
         LET s == editingSessions[c]
         IN  /\ reject(c)
             /\ \A k \in CopiesOf(s) :
                   views[k] = <<>> /\ Pending(k) = hunks[k] /\ k \notin disturbed
             => \A f \in Files, p \in Lines : writer'[f][p] # s]_vars

\* Every diff asked for is applied in the end, or its session has ended.
ViewsSettle == \A k \in Copies : views[k] # <<>> ~> views[k] = <<>>

\* Progress handlers do not run into the assertions of the queue and the plan.
NothingThrown == thrown = {}
=============================================================================
