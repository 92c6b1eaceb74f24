---------------------------- MODULE AgentStreams ----------------------------
(***************************************************************************)
(* The agent extension's side of the exchanges: AideAgentSessionProvider    *)
(* and its AideResponseStreamCollection.                                    *)
(*                                                                          *)
(* Every request, and every cancellation, is one call to the sidecar (an    *)
(* external process) that answers with a stream of events; the body of      *)
(* reportAgentEventsToChat reads one such stream and is called a reader     *)
(* here.  Readers run concurrently and share the collection.  The events of *)
(* a reader concern the session it was started for; one of them carries no  *)
(* session id.  The host that opens a response stream (aideAgent.initResponse) *)
(* may answer with a stream, with undefined or with an error: it is         *)
(* specified in ChatExchange and appears here by these three outcomes.      *)
(*                                                                          *)
(* Exchange ids are unique, so a stream is named by a number, its key by    *)
(* that number and its session: a lookup with another session finds nothing.*)
(***************************************************************************)
EXTENDS Integers, Sequences

CONSTANTS
    Sessions,    \* session ids
    NoSession,   \* the missing request_id of a cancelled ExecutionState
    MaxStreams,  \* bound: response streams the host opens
    MaxReaders   \* bound: calls of reportAgentEventsToChat

ASSUME StreamAssumptions ==
    /\ NoSession \notin Sessions
    /\ MaxStreams \in Nat
    /\ MaxReaders \in Nat

VARIABLES
    editorUrl,   \* the extension's HTTP server listens
    owner,       \* session of every stream ever added, by stream
    collection,  \* streams in responseStreamCollection
    latest,      \* _latestResponseStream, 0 is undefined
    thinking,    \* streams with an entry in lastThinkingText
    closed,      \* streams whose close was called
    canceled,    \* streams whose token the host cancelled
    opening,     \* [session -> newExchangeIdForSession calls under way]
    readers      \* the reportAgentEventsToChat calls, in order

streamVars == <<collection, latest, thinking, closed>>
vars == <<editorUrl, owner, streamVars, canceled, opening, readers>>

Streams == DOMAIN owner

\* branch and stream are the locals that matter across an await: where
\* createNewResponseStream was called, and its result.
Reader ==
    [session: Sessions,
     origin: {"request", "cancel"},
     state: {"reading", "creating", "added", "resuming", "done", "failed"},
     streamStarted: BOOLEAN,
     branch: {"error", "catch"},
     stream: Nat]

NewReader(s, origin) ==
    [session |-> s, origin |-> origin, state |-> "reading",
     streamStarted |-> FALSE, branch |-> "error", stream |-> 0]

Init ==
    /\ editorUrl = FALSE
    /\ owner = <<>>
    /\ collection = {}
    /\ latest = 0
    /\ thinking = {}
    /\ closed = {}
    /\ canceled = {}
    /\ opening = [s \in Sessions |-> 0]
    /\ readers = <<>>

-----------------------------------------------------------------------------
(* AideResponseStreamCollection *)

\* Fault: the stream is filed before the exchange has an id.
addUnowned(s) ==
    /\ collection' = collection \cup {Len(owner) + 1}
    /\ UNCHANGED owner

\* addResponseStream for a stream the host just opened.
addResponseStream(s) ==
    /\ owner' = Append(owner, s)
    /\ collection' = collection \cup {Len(owner) + 1}

\* The streams a lookup with session s can find.
OpenStreams(s) == {r \in collection : owner[r] = s}

\* Fault: the text tracked for the stream is kept.
closeAndKeepText(R) ==
    /\ closed' = closed \cup R
    /\ collection' = collection \ R
    /\ latest' = IF R = {} THEN latest ELSE 0
    /\ UNCHANGED thinking

\* Fault: _latestResponseStream is not reset.
closeAndKeepLatest(R) ==
    /\ closed' = closed \cup R
    /\ collection' = collection \ R
    /\ thinking' = thinking \ R
    /\ UNCHANGED latest

\* closeAndRemoveResponseStream for each stream in R: the lookup makes it the
\* latest, the removal resets that.
closeAndRemoveResponseStreams(R) ==
    /\ closed' = closed \cup R
    /\ collection' = collection \ R
    /\ thinking' = thinking \ R
    /\ latest' = IF R = {} THEN latest ELSE 0

\* Fault: the session is not part of the key.
closeAllAnySession(s) == closeAndRemoveResponseStreams(collection)

\* Fault: nothing is closed.
closeNothing(s) == UNCHANGED streamVars

\* The loop over getAllResponseStreams that follows most final events: it runs
\* over the streams of all sessions and finds those of session s.
closeAll(s) == closeAndRemoveResponseStreams(OpenStreams(s))

-----------------------------------------------------------------------------
(* Requests, cancellations and exchanges *)

\* getNextOpenPort found a port and the request handler listens.
listen ==
    /\ ~editorUrl
    /\ editorUrl' = TRUE
    /\ UNCHANGED <<owner, streamVars, canceled, opening, readers>>

\* handleEvent and processEvent up to the sidecar's answer.  A request that
\* comes before the server listens is dropped without a word (no step).
handleEvent(s) ==
    /\ editorUrl
    /\ Len(readers) < MaxReaders
    /\ readers' = Append(readers, NewReader(s, "request"))
    /\ UNCHANGED <<editorUrl, owner, streamVars, canceled, opening>>

\* The token listener of addResponseStream: it outlives the stream.
onCancellationRequested(r) ==
    /\ r \notin canceled
    /\ Len(readers) < MaxReaders
    /\ canceled' = canceled \cup {r}
    /\ readers' = Append(readers, NewReader(owner[r], "cancel"))
    /\ UNCHANGED <<editorUrl, owner, streamVars, opening>>

\* newExchangeIdForSession, called by the sidecar over HTTP.
newExchangeIdForSession(s) ==
    /\ editorUrl
    /\ Len(owner) + opening[s] < MaxStreams
    /\ opening' = [opening EXCEPT ![s] = @ + 1]
    /\ UNCHANGED <<editorUrl, owner, streamVars, canceled, readers>>

newExchangeOpened(s) ==
    /\ opening[s] > 0
    /\ Len(owner) < MaxStreams
    /\ opening' = [opening EXCEPT ![s] = @ - 1]
    /\ addResponseStream(s)
    /\ UNCHANGED <<editorUrl, latest, thinking, closed, canceled,
                   readers>>

\* initResponse was undefined or rejected.
newExchangeRefused(s) ==
    /\ opening[s] > 0
    /\ opening' = [opening EXCEPT ![s] = @ - 1]
    /\ UNCHANGED <<editorUrl, owner, streamVars, canceled, readers>>

\* undoToCheckpoint and provideEditStreamed look a stream up and report on it.
lookUp(r) ==
    /\ r \in collection
    /\ latest' = r
    /\ UNCHANGED <<editorUrl, owner, collection, thinking, closed,
                   canceled, opening, readers>>

-----------------------------------------------------------------------------
(* reportAgentEventsToChat: events that name an open stream *)

Reading(n) == readers[n].state = "reading"

\* The reader returns or throws: its locals are gone.
Ends(n, state) ==
    readers' = [readers EXCEPT ![n] =
                  [NewReader(readers[n].session, readers[n].origin)
                   EXCEPT !.state = state]]

GoesOn(n) == readers' = [readers EXCEPT ![n].streamStarted = TRUE]

\* What every such event does first: it counts as a start of the stream, and
\* the first one shows 'Loading...'.
Handles(n, r) ==
    /\ Reading(n)
    /\ r \in OpenStreams(readers[n].session)
    /\ UNCHANGED <<editorUrl, owner, canceled, opening>>

\* Parts, stages and steps are reported on the stream.
reportProgress(n, r) ==
    /\ Handles(n, r)
    /\ GoesOn(n)
    /\ latest' = r
    /\ UNCHANGED <<collection, thinking, closed>>

\* ToolThinking: the text is remembered to report only what is new.
reportThinking(n, r) ==
    /\ Handles(n, r)
    /\ GoesOn(n)
    /\ latest' = r
    /\ thinking' = thinking \cup {r}
    /\ UNCHANGED <<collection, closed>>

\* markLastMessageAsComplete after a question or a cancelled edit: the stream
\* stays open.
markLastMessageAsComplete(n, r) ==
    /\ Handles(n, r)
    /\ GoesOn(n)
    /\ latest' = r
    /\ thinking' = thinking \ {r}
    /\ UNCHANGED <<collection, closed>>

\* FinishedExchange goes on reading, MarkedComplete returns.
finishExchange(n, r) ==
    /\ Handles(n, r)
    /\ GoesOn(n) \/ Ends(n, "done")
    /\ closeAndRemoveResponseStreams({r})

\* AskFollowupQuestions goes on reading, AttemptCompletion and ToolCallError
\* return.
finishSession(n, r) ==
    /\ Handles(n, r)
    /\ GoesOn(n) \/ Ends(n, "done")
    /\ closeAll(readers[n].session)

-----------------------------------------------------------------------------
(* reportAgentEventsToChat: cancellation, errors, the end of the stream *)

\* The error whose message ends with 'cancelled by user'.
cancelledByUser(n) ==
    /\ Reading(n)
    /\ closeAll(readers[n].session)
    /\ Ends(n, "done")
    /\ UNCHANGED <<editorUrl, owner, canceled, opening>>

\* ExecutionState Cancelled, with or without a session id.
executionCancelled(n) ==
    /\ Reading(n)
    /\ \E s \in {readers[n].session, NoSession} : closeAll(s)
    /\ GoesOn(n)
    /\ UNCHANGED <<editorUrl, owner, canceled, opening>>

\* latestResponseStream ?? await createNewResponseStream(...): with a
\* latest stream the error is reported there (whatever its session) and the
\* streams of the reader's session are closed; otherwise the reader waits for a new one.
ReportError(n, branch) ==
    \/ /\ latest # 0
       /\ closeAll(readers[n].session)
       /\ Ends(n, "done")
    \/ /\ latest = 0
       /\ readers' = [readers EXCEPT ![n].state = "creating",
                                     ![n].branch = branch]
       /\ UNCHANGED streamVars

\* Any other error event.
errorEvent(n) ==
    /\ Reading(n)
    /\ ReportError(n, "error")
    /\ UNCHANGED <<editorUrl, owner, canceled, opening>>

\* The catch branch.
catchError(n) == ReportError(n, "catch")

\* The sidecar refuses (started is false) or the connection breaks.
connectionFails(n) ==
    /\ Reading(n)
    /\ catchError(n)
    /\ UNCHANGED <<editorUrl, owner, canceled, opening>>

\* A stream that ends before anything started counts as a failed connection.
endOfStream(n) ==
    /\ Reading(n)
    /\ \/ /\ readers[n].streamStarted
          /\ Ends(n, "done")
          /\ UNCHANGED streamVars
       \/ /\ ~readers[n].streamStarted
          /\ catchError(n)
    /\ UNCHANGED <<editorUrl, owner, canceled, opening>>

\* createNewResponseStream, through newExchangeIdForSession: the host opened a
\* stream, which is added.
createNewResponseStream(n) ==
    /\ readers[n].state = "creating"
    /\ Len(owner) < MaxStreams
    /\ addResponseStream(readers[n].session)
    /\ readers' = [readers EXCEPT ![n].state = "added",
                                  ![n].stream = Len(owner) + 1]
    /\ UNCHANGED <<editorUrl, latest, thinking, closed, canceled, opening>>

\* Without a stream an error event is given up and a caught error is thrown
\* again.
NoStream(n) ==
    Ends(n, IF readers[n].branch = "error" THEN "done" ELSE "failed")

\* The host answered undefined.
streamUndefined(n) ==
    /\ readers[n].state = "creating"
    /\ NoStream(n)
    /\ UNCHANGED <<editorUrl, owner, streamVars, canceled, opening>>

\* createNewResponseStream goes on: it looks the stream up, which another
\* reader may have closed and removed meanwhile.
lookUpNew(n) ==
    /\ readers[n].state = "added"
    /\ \/ /\ readers[n].stream \in collection
          /\ latest' = readers[n].stream
          /\ readers' = [readers EXCEPT ![n].state = "resuming"]
       \/ /\ readers[n].stream \notin collection
          /\ NoStream(n)
          /\ UNCHANGED latest
    /\ UNCHANGED <<editorUrl, owner, collection, thinking, closed, canceled,
                   opening>>

\* The reader throws while it handles an error.
ThrowAgain(n) ==
    \/ readers[n].branch = "error" /\ catchError(n)
    \/ /\ readers[n].branch = "catch"
       /\ Ends(n, "failed")
       /\ UNCHANGED streamVars

\* The host rejected.
streamRejected(n) ==
    /\ readers[n].state = "creating"
    /\ ThrowAgain(n)
    /\ UNCHANGED <<editorUrl, owner, canceled, opening>>

\* Back in the reader, which reports on the new stream; that throws if another
\* reader closed it meanwhile.
resume(n) ==
    /\ readers[n].state = "resuming"
    /\ \/ /\ readers[n].stream \notin closed
          /\ closeAll(readers[n].session)
          /\ Ends(n, "done")
       \/ /\ readers[n].stream \in closed
          /\ ThrowAgain(n)
    /\ UNCHANGED <<editorUrl, owner, canceled, opening>>

-----------------------------------------------------------------------------
(* Specification *)

HostAnswers ==
    \/ \E s \in Sessions : newExchangeOpened(s) \/ newExchangeRefused(s)
    \/ \E n \in DOMAIN readers :
        \/ createNewResponseStream(n)
        \/ streamUndefined(n)
        \/ streamRejected(n)

Event(n, r) ==
    \/ reportProgress(n, r)
    \/ reportThinking(n, r)
    \/ markLastMessageAsComplete(n, r)
    \/ finishExchange(n, r)
    \/ finishSession(n, r)

Stops(n) ==
    \/ cancelledByUser(n)
    \/ executionCancelled(n)
    \/ errorEvent(n)
    \/ connectionFails(n)
    \/ endOfStream(n)

Next ==
    \/ listen
    \/ \E s \in Sessions : handleEvent(s) \/ newExchangeIdForSession(s)
    \/ \E r \in Streams : onCancellationRequested(r) \/ lookUp(r)
    \/ HostAnswers
    \/ \E n \in DOMAIN readers :
        \/ \E r \in Streams : Event(n, r)
        \/ Stops(n)
        \/ lookUpNew(n) \/ resume(n)

Spec == Init /\ [][Next]_vars

\* The host answers every call and an await on a settled promise resumes.  The
\* sidecar owes nothing.
Fairness ==
    /\ WF_vars(HostAnswers)
    /\ WF_vars(\E n \in DOMAIN readers : lookUpNew(n) \/ resume(n))

FairSpec == Spec /\ Fairness

-----------------------------------------------------------------------------
(* Properties *)

TypeOK ==
    /\ editorUrl \in BOOLEAN
    /\ owner \in Seq(Sessions)
    /\ collection \subseteq Streams
    /\ latest \in Nat
    /\ thinking \subseteq Streams
    /\ closed \subseteq Streams
    /\ canceled \subseteq Streams
    /\ opening \in [Sessions -> Nat]
    /\ readers \in Seq(Reader)

\* A stream is in the collection until it is closed and never after; the
\* latest stream is one of them.  So no report of a reader that did not wait
\* is made on a closed stream, where it would throw, and no stream is lost
\* without being closed.
OpenUntilClosed ==
    /\ collection = Streams \ closed
    /\ latest \in collection \cup {0}

\* The text tracked for a stream's thinking is dropped with the stream.
ThinkingOfOpenStreams == thinking \subseteq collection

\* However many readers run, one step closes streams of one session only.
ClosesOneSession ==
    [][\A r, q \in closed' \ closed : owner'[r] = owner'[q]]_vars

\* A stream that was opened only to report an error does not stay open.
ErrorStreamsClose ==
    \A n \in 1..MaxReaders, r \in 1..MaxStreams :
        (/\ n \in DOMAIN readers
         /\ readers[n].state \in {"added", "resuming"}
         /\ readers[n].stream = r) ~> r \in closed

\* "we don't want to create a new exchange when the post-cancellation events
\* come in via the old stream" (aideAgentProvider.ts): a request's reader that
\* runs into an error after its session was cancelled opens no exchange for it.
NoExchangeAfterCancellation ==
    [][\A n \in DOMAIN readers :
        (/\ readers[n].origin = "request"
         /\ Reading(n)
         /\ \E k \in DOMAIN readers :
              /\ n < k
              /\ readers[k].session = readers[n].session
              /\ readers[k].origin = "cancel")
        => readers'[n].state # "creating"]_vars
=============================================================================
