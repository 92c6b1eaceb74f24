------------------------- MODULE AgentStreamsProofs -------------------------
(***************************************************************************)
(* Proofs about AgentStreams: streams are in the collection exactly until   *)
(* they are closed, for any number of sessions, streams and readers.        *)
(*                                                                          *)
(* The inductive invariant is the conjunction of the type invariant and the *)
(* two invariants; it is kept apart in the part on the streams and the part *)
(* on the readers, since every action is a step of each.                    *)
(***************************************************************************)
EXTENDS AgentStreams, TLAPS, SequenceTheorems

StreamInv ==
    /\ owner \in Seq(Sessions)
    /\ collection \subseteq Streams
    /\ latest \in Nat
    /\ thinking \subseteq Streams
    /\ closed \subseteq Streams
    /\ canceled \subseteq Streams
    /\ OpenUntilClosed
    /\ ThinkingOfOpenStreams

Rest ==
    /\ editorUrl \in BOOLEAN
    /\ opening \in [Sessions -> Nat]

StreamsInv == StreamInv /\ Rest /\ readers \in Seq(Reader)

-----------------------------------------------------------------------------
(* The operators *)

\* Closing and removing any open streams keeps the invariant of the streams.
LEMMA CloseKeeps ==
    ASSUME StreamInv, NEW R \in SUBSET collection,
           closeAndRemoveResponseStreams(R), UNCHANGED <<owner, canceled>>
    PROVE  StreamInv'
<1>1. /\ collection' = collection \ R
      /\ closed' = closed \cup R
      /\ thinking' = thinking \ R
      /\ latest' = latest \/ latest' = 0
      /\ R # {} => latest' = 0
      /\ owner' = owner /\ canceled' = canceled
  BY DEF closeAndRemoveResponseStreams
<1>2. Streams' = Streams
  BY <1>1 DEF Streams
<1>3. latest' \in Nat /\ latest' \in collection' \cup {0}
  BY <1>1 DEF StreamInv, OpenUntilClosed
<1>4. collection' = Streams' \ closed'
  BY <1>1, <1>2 DEF StreamInv, OpenUntilClosed
<1> QED
  BY <1>1, <1>2, <1>3, <1>4
  DEF StreamInv, OpenUntilClosed, ThinkingOfOpenStreams

\* So does the loop over all streams, whatever the session id.
LEMMA CloseAllKeeps ==
    ASSUME StreamInv, NEW s, closeAll(s), UNCHANGED <<owner, canceled>>
    PROVE  StreamInv'
<1>1. OpenStreams(s) \in SUBSET collection
  BY DEF OpenStreams
<1> QED
  BY <1>1, CloseKeeps DEF closeAll

\* A new stream is the next number and belongs to the session.
LEMMA AddKeeps ==
    ASSUME StreamInv, NEW s \in Sessions, addResponseStream(s),
           UNCHANGED <<latest, thinking, closed, canceled>>
    PROVE  StreamInv' /\ Len(owner) + 1 \in Nat
<1>1. /\ owner' \in Seq(Sessions)
      /\ Streams' = Streams \cup {Len(owner) + 1}
      /\ Len(owner) + 1 \notin Streams
      /\ Len(owner) + 1 \in Nat
  BY DEF StreamInv, addResponseStream, Streams
<1>2. collection' = collection \cup {Len(owner) + 1}
  BY DEF addResponseStream
<1>3. collection' = Streams' \ closed'
  BY <1>1, <1>2 DEF StreamInv, OpenUntilClosed
<1> QED
  BY <1>1, <1>2, <1>3 DEF StreamInv, OpenUntilClosed, ThinkingOfOpenStreams

\* Looking a stream up keeps it.
LEMMA LookUpKeeps ==
    ASSUME StreamInv, NEW r \in collection, latest' = r,
           UNCHANGED <<owner, collection, closed, canceled>>,
           thinking' \in {thinking, thinking \cup {r}, thinking \ {r}}
    PROVE  StreamInv'
<1>1. Streams' = Streams /\ r \in Streams
  BY DEF Streams, StreamInv
<1>2. r \in Nat
  BY <1>1 DEF Streams, StreamInv
<1> QED
  BY <1>1, <1>2 DEF StreamInv, OpenUntilClosed, ThinkingOfOpenStreams

\* Nothing that the invariant of the streams mentions changes.
LEMMA SameKeeps ==
    ASSUME StreamInv, UNCHANGED <<owner, streamVars, canceled>>
    PROVE  StreamInv'
BY DEF StreamInv, streamVars, Streams, OpenUntilClosed, ThinkingOfOpenStreams

\* A new reader is a reader.
LEMMA AppendReader ==
    ASSUME readers \in Seq(Reader), NEW s \in Sessions,
           NEW o \in {"request", "cancel"},
           readers' = Append(readers, NewReader(s, o))
    PROVE  readers' \in Seq(Reader)
<1>1. NewReader(s, o) \in Reader
  BY DEF NewReader, Reader
<1> QED
  BY <1>1

\* A reader that ends or goes on is a reader.
LEMMA ReaderChanges ==
    ASSUME readers \in Seq(Reader), NEW n \in DOMAIN readers,
           NEW e \in Reader,
           readers' = [readers EXCEPT ![n] = e]
    PROVE  readers' \in Seq(Reader)
BY ExceptSeq
\* A reader that returns or throws is one.
LEMMA EndsKeeps ==
    ASSUME readers \in Seq(Reader), NEW n \in DOMAIN readers,
           NEW state \in {"done", "failed"}, Ends(n, state)
    PROVE  readers' \in Seq(Reader)
<1>1. readers[n] \in Reader
  OBVIOUS
<1>2. [NewReader(readers[n].session, readers[n].origin) EXCEPT !.state = state]
        \in Reader
  BY <1>1, Zenon DEF NewReader, Reader
<1> QED
  BY <1>2, ReaderChanges DEF Ends

\* A reader that goes on is one.
LEMMA GoesOnKeeps ==
    ASSUME readers \in Seq(Reader), NEW n \in DOMAIN readers, GoesOn(n)
    PROVE  readers' \in Seq(Reader)
<1>1. readers[n] \in Reader
  OBVIOUS
<1>2. [readers[n] EXCEPT !.streamStarted = TRUE] \in Reader
  BY <1>1, Zenon DEF Reader
<1> QED
  BY <1>2, ReaderChanges DEF GoesOn

\* Reporting an error, on the latest stream or on one to be created, keeps the
\* invariant.
LEMMA ReportErrorKeeps ==
    ASSUME StreamInv, readers \in Seq(Reader), NEW n \in DOMAIN readers,
           NEW branch \in {"error", "catch"}, ReportError(n, branch),
           UNCHANGED <<owner, canceled>>
    PROVE  StreamInv' /\ readers' \in Seq(Reader)
<1>1. CASE closeAll(readers[n].session) /\ Ends(n, "done")
  BY <1>1, CloseAllKeeps, EndsKeeps
<1>2. CASE /\ readers' = [readers EXCEPT ![n].state = "creating",
                                         ![n].branch = branch]
           /\ UNCHANGED streamVars
  <2>1. readers[n] \in Reader
    OBVIOUS
  <2>2. [readers[n] EXCEPT !.state = "creating", !.branch = branch] \in Reader
    BY <2>1, Zenon DEF Reader
  <2>3. readers' = [readers EXCEPT ![n] =
                      [readers[n] EXCEPT !.state = "creating",
                                         !.branch = branch]]
    BY <1>2, <2>1, Zenon DEF Reader
  <2> QED
    BY <1>2, <2>2, <2>3, ReaderChanges, SameKeeps
<1> QED
  BY <1>1, <1>2 DEF ReportError

\* Throwing while an error is handled keeps the invariant.
LEMMA ThrowAgainKeeps ==
    ASSUME StreamInv, readers \in Seq(Reader), NEW n \in DOMAIN readers,
           ThrowAgain(n), UNCHANGED <<owner, canceled>>
    PROVE  StreamInv' /\ readers' \in Seq(Reader)
<1>1. CASE catchError(n)
  BY <1>1, ReportErrorKeeps DEF catchError
<1>2. CASE Ends(n, "failed") /\ UNCHANGED streamVars
  BY <1>2, EndsKeeps, SameKeeps
<1> QED
  BY <1>1, <1>2 DEF ThrowAgain

-----------------------------------------------------------------------------
(* The actions *)

\* Requests, cancellations and the exchanges the sidecar asks for.
LEMMA CallsKeep ==
    ASSUME StreamsInv, NEW s \in Sessions
    PROVE  /\ handleEvent(s) => StreamsInv'
           /\ newExchangeIdForSession(s) => StreamsInv'
           /\ newExchangeOpened(s) => StreamsInv'
           /\ newExchangeRefused(s) => StreamsInv'
<1> USE DEF StreamsInv, Rest
<1>2. handleEvent(s) => StreamsInv'
  BY SameKeeps, AppendReader DEF handleEvent
<1>3. /\ newExchangeIdForSession(s) => Rest'
      /\ newExchangeOpened(s) => Rest'
      /\ newExchangeRefused(s) => Rest'
  <2> DEFINE Types == editorUrl \in BOOLEAN
  <2>1. /\ newExchangeIdForSession(s) => opening' \in [Sessions -> Nat]
        /\ newExchangeOpened(s) => opening' \in [Sessions -> Nat]
        /\ newExchangeRefused(s) => opening' \in [Sessions -> Nat]
    BY DEF newExchangeIdForSession, newExchangeOpened, newExchangeRefused
  <2>2. /\ newExchangeIdForSession(s) => Types'
        /\ newExchangeOpened(s) => Types'
        /\ newExchangeRefused(s) => Types'
    BY Zenon
    DEF newExchangeIdForSession, newExchangeOpened, newExchangeRefused
  <2> QED
    BY <2>1, <2>2, Zenon
<1>4. newExchangeIdForSession(s) => StreamInv' /\ readers' \in Seq(Reader)
  BY SameKeeps DEF newExchangeIdForSession
<1>5. newExchangeOpened(s) => StreamInv' /\ readers' \in Seq(Reader)
  BY AddKeeps DEF newExchangeOpened
<1>6. newExchangeRefused(s) => StreamInv' /\ readers' \in Seq(Reader)
  BY SameKeeps DEF newExchangeRefused
<1> QED
  BY <1>2, <1>3, <1>4, <1>5, <1>6

\* A cancelled token and a lookup from outside the readers.
LEMMA StreamCallsKeep ==
    ASSUME StreamsInv, NEW r \in Streams
    PROVE  /\ onCancellationRequested(r) => StreamsInv'
           /\ lookUp(r) => StreamsInv'
<1> USE DEF StreamsInv, Rest
<1>1. ASSUME onCancellationRequested(r) PROVE StreamsInv'
  <2>1. owner[r] \in Sessions
    BY DEF StreamInv, Streams
  <2>2. readers' \in Seq(Reader)
    BY <1>1, <2>1, AppendReader DEF onCancellationRequested
  <2>3. canceled' \subseteq Streams'
    BY <1>1 DEF onCancellationRequested, StreamInv, Streams
  <2>4. StreamInv'
    BY <1>1, <2>3 DEF onCancellationRequested, StreamInv, streamVars, Streams,
      OpenUntilClosed, ThinkingOfOpenStreams
  <2> QED
    BY <1>1, <2>2, <2>4 DEF onCancellationRequested
<1>2. lookUp(r) => StreamsInv'
  BY LookUpKeeps DEF lookUp
<1> QED
  BY <1>1, <1>2
\* Events that name an open stream.
LEMMA EventsKeep ==
    ASSUME StreamsInv, NEW n \in DOMAIN readers, NEW r \in Streams, Event(n, r)
    PROVE  StreamsInv'
<1>1. /\ r \in collection
      /\ r \in OpenStreams(readers[n].session)
      /\ UNCHANGED <<editorUrl, owner, canceled, opening>>
      /\ GoesOn(n) \/ Ends(n, "done")
  BY DEF Event, reportProgress, reportThinking, markLastMessageAsComplete,
    finishExchange, finishSession, Handles, OpenStreams
<1>2. readers' \in Seq(Reader)
  BY <1>1, GoesOnKeeps, EndsKeeps DEF StreamsInv
<1>3. Rest'
  BY <1>1, Zenon DEF StreamsInv, Rest
<1>4. StreamInv'
  <2> USE DEF StreamsInv
  <2>1. CASE reportProgress(n, r)
    BY <1>1, <2>1, LookUpKeeps DEF reportProgress
  <2>2. CASE reportThinking(n, r)
    BY <1>1, <2>2, LookUpKeeps DEF reportThinking
  <2>3. CASE markLastMessageAsComplete(n, r)
    BY <1>1, <2>3, LookUpKeeps DEF markLastMessageAsComplete
  <2>4. CASE finishExchange(n, r)
    BY <1>1, <2>4, CloseKeeps DEF finishExchange
  <2>5. CASE finishSession(n, r)
    BY <1>1, <2>5, CloseAllKeeps DEF finishSession
  <2> QED
    BY <2>1, <2>2, <2>3, <2>4, <2>5 DEF Event
<1> QED
  BY <1>2, <1>3, <1>4 DEF StreamsInv

\* Cancellations, errors and the end of the sidecar's stream.
LEMMA StopsKeep ==
    ASSUME StreamsInv, NEW n \in DOMAIN readers, Stops(n)
    PROVE  StreamsInv'
<1>1. UNCHANGED <<editorUrl, owner, canceled, opening>>
  BY Zenon DEF Stops, cancelledByUser, executionCancelled, errorEvent,
    connectionFails, endOfStream
<1>2. Rest'
  BY <1>1, Zenon DEF StreamsInv, Rest
<1>3. StreamInv' /\ readers' \in Seq(Reader)
  <2> USE DEF StreamsInv
  <2>1. CASE cancelledByUser(n)
    BY <1>1, <2>1, CloseAllKeeps, EndsKeeps DEF cancelledByUser
  <2>2. CASE executionCancelled(n)
    BY <1>1, <2>2, CloseAllKeeps, GoesOnKeeps DEF executionCancelled
  <2>3. CASE errorEvent(n)
    BY <1>1, <2>3, ReportErrorKeeps DEF errorEvent
  <2>4. CASE connectionFails(n)
    BY <1>1, <2>4, ReportErrorKeeps DEF connectionFails, catchError
  <2>5. CASE endOfStream(n)
    <3>1. CASE Ends(n, "done") /\ UNCHANGED streamVars
      BY <1>1, <3>1, EndsKeeps, SameKeeps
    <3>2. CASE catchError(n)
      BY <1>1, <3>2, ReportErrorKeeps DEF catchError
    <3> QED
      BY <2>5, <3>1, <3>2 DEF endOfStream
  <2> QED
    BY <2>1, <2>2, <2>3, <2>4, <2>5 DEF Stops
<1> QED
  BY <1>2, <1>3 DEF StreamsInv

\* A reader that waits for a stream to report an error on.
LEMMA AwaitsKeep ==
    ASSUME StreamsInv, NEW n \in DOMAIN readers
    PROVE  /\ createNewResponseStream(n) => StreamsInv'
           /\ streamUndefined(n) => StreamsInv'
           /\ streamRejected(n) => StreamsInv'
           /\ lookUpNew(n) => StreamsInv'
           /\ resume(n) => StreamsInv'
<1> USE DEF StreamsInv
<1>1. readers[n] \in Reader /\ readers[n].session \in Sessions
  <2>1. readers \in Seq(Reader)
    OBVIOUS
  <2>2. readers[n] \in Reader
    BY <2>1
  <2> QED
    BY <2>2 DEF Reader
<1>2. ASSUME NoStream(n) PROVE readers' \in Seq(Reader)
  BY <1>2, EndsKeeps DEF NoStream
<1>3. ASSUME \/ createNewResponseStream(n) \/ streamUndefined(n)
             \/ streamRejected(n) \/ lookUpNew(n) \/ resume(n)
      PROVE  Rest'
  <2>1. UNCHANGED <<editorUrl, opening>>
    BY <1>3, Zenon DEF createNewResponseStream, streamUndefined,
      streamRejected, lookUpNew, resume
  <2> QED
    BY <2>1, Zenon DEF Rest
<1>4. ASSUME createNewResponseStream(n) PROVE StreamsInv'
  <2>1. StreamInv' /\ Len(owner) + 1 \in Nat
    BY <1>1, <1>4, AddKeeps DEF createNewResponseStream
  <2>2. [readers[n] EXCEPT !.state = "added", !.stream = Len(owner) + 1]
          \in Reader
    BY <1>1, <2>1, Zenon DEF Reader
  <2>3. readers' = [readers EXCEPT ![n] =
                      [readers[n] EXCEPT !.state = "added",
                                         !.stream = Len(owner) + 1]]
    BY <1>1, <1>4, Zenon DEF createNewResponseStream, Reader
  <2> QED
    BY <1>3, <1>4, <2>1, <2>2, <2>3, ReaderChanges
<1>5. streamUndefined(n) => StreamsInv'
  BY <1>2, <1>3, SameKeeps DEF streamUndefined
<1>6. streamRejected(n) => StreamsInv'
  BY <1>3, ThrowAgainKeeps DEF streamRejected
<1>7. ASSUME lookUpNew(n) PROVE StreamsInv'
  <2>1. CASE /\ readers[n].stream \in collection
             /\ latest' = readers[n].stream
             /\ readers' = [readers EXCEPT ![n].state = "resuming"]
    <3>1. StreamInv'
      BY <1>7, <2>1, LookUpKeeps DEF lookUpNew
    <3>2. [readers[n] EXCEPT !.state = "resuming"] \in Reader
      BY <1>1 DEF Reader
    <3> QED
      BY <1>3, <1>7, <2>1, <3>1, <3>2, ReaderChanges
  <2>2. CASE NoStream(n) /\ UNCHANGED latest
    BY <1>2, <1>3, <1>7, <2>2, SameKeeps DEF lookUpNew, streamVars
  <2> QED
    BY <1>7, <2>1, <2>2 DEF lookUpNew
<1>8. ASSUME resume(n) PROVE StreamsInv'
  <2>1. CASE closeAll(readers[n].session) /\ Ends(n, "done")
    BY <1>3, <1>8, <2>1, CloseAllKeeps, EndsKeeps DEF resume
  <2>2. CASE ThrowAgain(n)
    BY <1>3, <1>8, <2>2, ThrowAgainKeeps DEF resume
  <2> QED
    BY <1>8, <2>1, <2>2 DEF resume
<1> QED
  BY <1>4, <1>5, <1>6, <1>7, <1>8

-----------------------------------------------------------------------------
(* The theorems *)

\* The invariant is inductive.
LEMMA StreamsInvInductive ==
    /\ Init => StreamsInv
    /\ StreamsInv /\ [Next]_vars => StreamsInv'
<1>1. Init => StreamsInv
  <2> SUFFICES ASSUME Init PROVE StreamsInv
    OBVIOUS
  <2>1. StreamInv
    BY DEF Init, StreamInv, Streams, OpenUntilClosed, ThinkingOfOpenStreams
  <2>2. opening \in [Sessions -> Nat] /\ readers \in Seq(Reader)
    BY DEF Init
  <2>3. Rest
    BY <2>2, Zenon DEF Init, Rest
  <2> QED
    BY <2>1, <2>2, <2>3 DEF StreamsInv
<1>2. ASSUME StreamsInv, Next PROVE StreamsInv'
  <2>1. CASE \/ listen
             \/ \E s \in Sessions :
                  \/ handleEvent(s)
                  \/ newExchangeIdForSession(s)
                  \/ newExchangeOpened(s)
                  \/ newExchangeRefused(s)
    <3>1. CASE listen
      <4>1. StreamInv' /\ readers' \in Seq(Reader)
        BY <1>2, <3>1, SameKeeps DEF listen, StreamsInv
      <4>2. Rest'
        BY <1>2, <3>1, Zenon DEF listen, StreamsInv, Rest
      <4> QED
        BY <4>1, <4>2 DEF StreamsInv
    <3> QED
      BY <1>2, <2>1, <3>1, CallsKeep, Zenon
  <2>2. CASE \E r \in Streams : onCancellationRequested(r) \/ lookUp(r)
    BY <1>2, <2>2, StreamCallsKeep, Zenon
  <2>3. CASE \E n \in DOMAIN readers :
               \/ \E r \in Streams : Event(n, r)
               \/ Stops(n)
    BY <1>2, <2>3, EventsKeep, StopsKeep, Zenon
  <2>4. CASE \E n \in DOMAIN readers :
               \/ createNewResponseStream(n) \/ streamUndefined(n)
               \/ streamRejected(n) \/ lookUpNew(n) \/ resume(n)
    BY <1>2, <2>4, AwaitsKeep, Zenon
  <2> QED
    BY <1>2, <2>1, <2>2, <2>3, <2>4, Zenon DEF Next, HostAnswers
<1>3. ASSUME StreamsInv, UNCHANGED vars PROVE StreamsInv'
  <2>1. /\ UNCHANGED <<owner, streamVars, canceled, readers>>
        /\ UNCHANGED <<editorUrl, opening>>
    BY <1>3 DEF vars
  <2>2. StreamInv'
    BY <1>3, <2>1, SameKeeps DEF StreamsInv
  <2> QED
    BY <1>3, <2>1, <2>2, Zenon DEF StreamsInv, Rest
<1> QED
  BY <1>1, <1>2, <1>3

\* Every reachable state of the provider is type correct, its collection holds
\* exactly the streams that are not closed, and the latest stream is one of
\* them (so a report on it never throws): for any number of sessions, streams
\* and concurrent readers.
THEOREM StreamsCorrect == Spec => [](TypeOK /\ OpenUntilClosed)
<1>1. StreamsInv => TypeOK /\ OpenUntilClosed
  BY DEF StreamsInv, StreamInv, Rest, TypeOK
<1> QED
  BY <1>1, StreamsInvInductive, PTL DEF Spec

\* The maps of the agent provider are well typed, for any number of streams
\* and sessions and any order of deliveries.
THEOREM StreamsTyped == Spec => []TypeOK
  BY StreamsCorrect, PTL

\* Thinking text is kept for open streams only, so that none is reported on a
\* stream that another reader has closed.
THEOREM ThinkingStaysOpen == Spec => []ThinkingOfOpenStreams
<1>1. StreamsInv => ThinkingOfOpenStreams
  BY DEF StreamsInv, StreamInv, Rest
<1> QED
  BY <1>1, StreamsInvInductive, PTL DEF Spec

\* The streams a step closes belong to one session.
OneOwner == \E s : \A r \in closed' \ closed : owner'[r] = s

\* The loop over all streams closes those of one session.
LEMMA CloseAllOneOwner ==
    ASSUME NEW s, closeAll(s), UNCHANGED owner
    PROVE  OneOwner
BY DEF closeAll, closeAndRemoveResponseStreams, OpenStreams, OneOwner

\* A reported error closes the streams of one session, if any.
LEMMA ReportErrorOneOwner ==
    ASSUME NEW n, NEW branch, ReportError(n, branch), UNCHANGED owner
    PROVE  OneOwner
<1>1. CASE closeAll(readers[n].session)
  BY <1>1, CloseAllOneOwner
<1>2. CASE UNCHANGED streamVars
  BY <1>2 DEF streamVars, OneOwner
<1> QED
  BY <1>1, <1>2 DEF ReportError

\* Every step closes streams of one session.
LEMMA NextOneOwner ==
    ASSUME Next
    PROVE  OneOwner
<1>1. CASE closed' = closed
  BY <1>1 DEF OneOwner
<1>2. ASSUME NEW n \in DOMAIN readers, NEW r \in Streams, Event(n, r)
      PROVE  OneOwner
  <2>1. owner' = owner
    BY <1>2 DEF Event, reportProgress, reportThinking,
      markLastMessageAsComplete, finishExchange, finishSession, Handles
  <2>2. CASE finishSession(n, r)
    BY <2>1, <2>2, CloseAllOneOwner DEF finishSession
  <2>3. CASE finishExchange(n, r)
    BY <2>1, <2>3 DEF finishExchange, closeAndRemoveResponseStreams, OneOwner
  <2> QED
    BY <1>1, <1>2, <2>2, <2>3
    DEF Event, reportProgress, reportThinking, markLastMessageAsComplete
<1>3. ASSUME NEW n \in DOMAIN readers, Stops(n)
      PROVE  OneOwner
  <2>1. owner' = owner
    BY <1>3 DEF Stops, cancelledByUser, executionCancelled, errorEvent,
      connectionFails, endOfStream
  <2>2. CASE cancelledByUser(n) \/ executionCancelled(n)
    BY <2>1, <2>2, CloseAllOneOwner DEF cancelledByUser, executionCancelled
  <2>3. CASE errorEvent(n) \/ connectionFails(n) \/ endOfStream(n)
    BY <1>1, <2>1, <2>3, ReportErrorOneOwner
    DEF errorEvent, connectionFails, endOfStream, catchError, streamVars
  <2> QED
    BY <1>3, <2>2, <2>3 DEF Stops
<1>4. ASSUME NEW n, ThrowAgain(n), UNCHANGED owner
      PROVE  OneOwner
  BY <1>1, <1>4, ReportErrorOneOwner DEF ThrowAgain, catchError, streamVars
<1>5. ASSUME NEW n \in DOMAIN readers, streamRejected(n) \/ resume(n)
      PROVE  OneOwner
  BY <1>4, <1>5, CloseAllOneOwner DEF streamRejected, resume
<1>6. ASSUME \/ listen
             \/ \E s \in Sessions :
                  \/ handleEvent(s) \/ newExchangeIdForSession(s)
                  \/ newExchangeOpened(s) \/ newExchangeRefused(s)
             \/ \E r \in Streams : onCancellationRequested(r) \/ lookUp(r)
             \/ \E n \in DOMAIN readers :
                  \/ createNewResponseStream(n) \/ streamUndefined(n)
                  \/ lookUpNew(n)
      PROVE  OneOwner
  <2>1. closed' = closed
    BY <1>6, Zenon DEF listen, handleEvent, newExchangeIdForSession,
      newExchangeOpened, newExchangeRefused, onCancellationRequested, lookUp,
      createNewResponseStream, streamUndefined, lookUpNew, streamVars
  <2> QED
    BY <1>1, <2>1
<1> QED
  BY <1>2, <1>3, <1>5, <1>6, Zenon DEF Next, HostAnswers

\* No step closes the streams of two sessions, whatever event or error a
\* reader handles and however many sessions have streams in the collection.
THEOREM SessionsCloseApart == Spec => ClosesOneSession
<1>1. [Next]_vars
        => [\A r, q \in closed' \ closed : owner'[r] = owner'[q]]_vars
  BY NextOneOwner DEF OneOwner
<1> QED
  BY <1>1, PTL DEF Spec, ClosesOneSession
=============================================================================
