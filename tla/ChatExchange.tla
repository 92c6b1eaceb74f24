---------------------------- MODULE ChatExchange ----------------------------
(***************************************************************************)
(* The life of an agent exchange across the two processes that share it.   *)
(*                                                                         *)
(* Workbench (main thread): ChatService and ChatModel own the sessions,    *)
(* the responses and the cancellation tokens; MainThreadChatAgents2        *)
(* registers every response it hands out.  Extension host:                 *)
(* ExtHostAideAgentAgents2 keeps one disposable store per session and one  *)
(* AideAgentResponseStream per response.  The two talk over the RPC        *)
(* protocol: calls and replies travel in order and are never lost.         *)
(*                                                                         *)
(* A session that is cleared and restored gets a new ChatModel under the   *)
(* same id, so a model is a pair <<session, generation>>.  Code that holds *)
(* a model across an await keeps using that object after it was disposed.  *)
(* A restored model also holds its deserialized responses: all of them are *)
(* complete, have no token and are touched by no later step, and they are  *)
(* not represented here.                                                   *)
(***************************************************************************)
EXTENDS Integers, Sequences, FiniteSets

CONSTANTS
    Sessions,       \* session ids
    PanelSessions,  \* those whose initialLocation is ChatAgentLocation.Panel
    MaxModels,      \* bound: ChatModel objects built per session id
    MaxRequests,    \* bound: sendRequest calls
    MaxCalls,       \* bound: $initResponse calls of the extension host
    MaxReports      \* bound: progress parts of one kind on one stream

ASSUME PanelAssumption == PanelSessions \subseteq Sessions

ASSUME BoundsAssumption ==
    /\ MaxModels \in Nat \ {0}
    /\ MaxRequests \in Nat
    /\ MaxCalls \in Nat
    /\ MaxReports \in Nat

Models == Sessions \X (1..MaxModels)

VARIABLES
    \* ChatService and ChatModel
    created,        \* [session -> ChatModel objects built for it so far]
    live,           \* keys of _sessionModels
    initState,      \* [model -> progress of initializeSession]
    persisted,      \* keys of _persistedSessions
    requests,       \* sendRequest calls made
    sending,        \* [model -> sendRequest calls awaiting initialization]
    preparing,      \* [model -> requests whose variables are being resolved]
    responses,      \* all ChatResponseModel objects, by id
    complete,       \* ids with _isComplete
    canceled,       \* ids with _isCanceled
    pending,        \* keys of _pendingExchanges
    fired,          \* ids whose CancellationTokenSource was cancelled
    lastExchangeId, \* _lastExchangeId; a request is named by the response
                    \* addRequest pushes with it; 0 is undefined
    lastExchangeComplete,  \* the context key of that name
    \* MainThreadChatAgents2
    awaiting,       \* [model -> $initResponse calls awaiting initialization]
    registered,     \* keys of _cancellationTokenMap and _pendingProgress
    watching,       \* $cancelExchange promises not resolved yet
    \* RPC
    toMain,         \* calls on their way to the main thread
    toExt,          \* calls and replies on their way to the extension host
    resolved,       \* replies of $cancelExchange on their way
    \* ExtHostAideAgentAgents2
    calls,          \* $initResponse calls made
    extSessions,    \* keys of _sessionDisposables
    invoked,        \* sessions whose agent got a request ($invokeAgent)
    sent,           \* [stream -> parts sent on it]
    closed,         \* streams with _isClosed
    extCanceled     \* ids whose extension-side token is cancelled

sessionVars == <<created, live, initState, persisted>>
requestVars == <<requests, sending, preparing>>
responseVars == <<responses, complete, canceled, lastExchangeComplete>>
tokenVars == <<pending, fired, watching, resolved>>
mainVars == <<awaiting, registered>>
extVars == <<calls, extSessions, invoked, sent, closed, extCanceled>>
vars == <<sessionVars, requestVars, responseVars, tokenVars, mainVars,
          lastExchangeId, toMain, toExt, extVars>>

-----------------------------------------------------------------------------
(* State *)

InitStates ==
    {"None", "Initializing", "Welcoming", "Initialized", "Failed"}

\* What a stream may report: "content" stands for every kind of part but the
\* two that are named in allowedProgressWhenCanceling.
Kinds == {"content", "stage", "endResponse"}

\* Fault: stages are dropped too.
allowedWithoutStage == {"endResponse"}

\* Fault: nothing is dropped.
allowedEverything == Kinds

allowedProgressWhenCanceling == {"endResponse", "stage"}

Parts == [Kinds -> Nat]

NoParts == [k \in Kinds |-> 0]

\* One more part of the given kind.
Plus(p, kind) == [p EXCEPT ![kind] = p[kind] + 1]

Response == [model: Models, parts: Parts]

Ids == DOMAIN responses

MainMsg ==
    [type: {"initResponse"}, session: Sessions]
        \cup [type: {"cancelExchange"}, id: Nat]
        \cup [type: {"progress"}, id: Nat, kind: Kinds]

ExtMsg ==
    [type: {"initSession", "releaseSession", "invokeAgent", "initError"},
     session: Sessions]
        \cup [type: {"initReply"}, id: Nat]

Init ==
    /\ created = [s \in Sessions |-> 0]
    /\ live = {}
    /\ initState = [m \in Models |-> "None"]
    /\ persisted = {}
    /\ requests = 0
    /\ sending = [m \in Models |-> 0]
    /\ preparing = [m \in Models |-> 0]
    /\ responses = <<>>
    /\ complete = {}
    /\ canceled = {}
    /\ pending = {}
    /\ fired = {}
    /\ lastExchangeId = 0
    /\ lastExchangeComplete = FALSE
    /\ awaiting = [m \in Models |-> 0]
    /\ registered = {}
    /\ watching = {}
    /\ toMain = <<>>
    /\ toExt = <<>>
    /\ resolved = {}
    /\ calls = 0
    /\ extSessions = {}
    /\ invoked = {}
    /\ sent = [r \in {} |-> NoParts]
    /\ closed = {}
    /\ extCanceled = {}

\* The model _sessionModels maps a live session to: the last one built.
ModelOf(s) == <<s, created[s]>>

-----------------------------------------------------------------------------
(* ChatService: sessions *)

\* Fault: the session is published before its model is built.
_startSessionEarly(s) ==
    /\ live' = live \cup {s}
    /\ UNCHANGED <<created, initState>>

\* _startSession up to the first await of initializeSession.
_startSession(s) ==
    /\ created[s] < MaxModels
    /\ created' = [created EXCEPT ![s] = @ + 1]
    /\ live' = live \cup {s}
    /\ initState' = [initState EXCEPT ![<<s, created[s] + 1>>] = "Initializing"]

\* A new session has a fresh id.
startSession(s) ==
    /\ created[s] = 0
    /\ _startSession(s)
    /\ UNCHANGED <<persisted, requestVars, responseVars, tokenVars, mainVars,
                   lastExchangeId, toMain, toExt, extVars>>

\* A live session is returned as it is (no step); a persisted one is rebuilt.
getOrRestoreSession(s) ==
    /\ s \notin live
    /\ s \in persisted
    /\ _startSession(s)
    /\ UNCHANGED <<persisted, requestVars, responseVars, tokenVars, mainVars,
                   lastExchangeId, toMain, toExt, extVars>>

\* Fault: a restored session is not announced again.
initializeSessionAgentOnce(m) ==
    /\ initState[m] = "Initializing"
    /\ initState' = [initState EXCEPT ![m] = "Welcoming"]
    /\ toExt' = IF m[2] > 1 THEN toExt
                ELSE Append(toExt, [type |-> "initSession", session |-> m[1]])
    /\ UNCHANGED <<created, live, persisted, requestVars, responseVars,
                   tokenVars, mainVars, lastExchangeId, toMain, extVars>>

\* The default agent is registered: tell the extension host, then await the
\* welcome message.  The model may have been disposed meanwhile.
initializeSessionAgent(m) ==
    /\ initState[m] = "Initializing"
    /\ initState' = [initState EXCEPT ![m] = "Welcoming"]
    /\ toExt' = Append(toExt, [type |-> "initSession", session |-> m[1]])
    /\ UNCHANGED <<created, live, persisted, requestVars, responseVars,
                   tokenVars, mainVars, lastExchangeId, toMain, extVars>>

\* model.initialize: waitForInitialization resolves.
initializeSessionDone(m) ==
    /\ initState[m] = "Welcoming"
    /\ initState' = [initState EXCEPT ![m] = "Initialized"]
    /\ UNCHANGED <<created, live, persisted, requestVars, responseVars,
                   tokenVars, mainVars, lastExchangeId, toMain, toExt, extVars>>

\* The catch branch: whatever model the session id maps to now is disposed.
initializeSessionFails(m) ==
    /\ initState[m] \in {"Initializing", "Welcoming"}
    /\ initState' = [initState EXCEPT ![m] = "Failed"]
    /\ live' = live \ {m[1]}
    /\ toExt' = Append(toExt, [type |-> "releaseSession", session |-> m[1]])
    /\ UNCHANGED <<created, persisted, requestVars, responseVars,
                   tokenVars, mainVars, lastExchangeId, toMain, extVars>>

-----------------------------------------------------------------------------
(* ChatService: requests *)

\* sendRequest up to waitForInitialization; an unknown session throws.
sendRequest(s) ==
    /\ s \in live
    /\ requests < MaxRequests
    /\ requests' = requests + 1
    /\ sending' = [sending EXCEPT ![ModelOf(s)] = @ + 1]
    /\ UNCHANGED <<sessionVars, preparing, responseVars, tokenVars, mainVars,
                   lastExchangeId, toMain, toExt, extVars>>

\* The awaited promise rejected, or the user is not authorized: nothing is sent.
sendRequestRejected(m) ==
    /\ sending[m] > 0
    /\ initState[m] \in {"Initialized", "Failed"}
    /\ sending' = [sending EXCEPT ![m] = @ - 1]
    /\ UNCHANGED <<sessionVars, requests, preparing, responseVars, tokenVars, mainVars,
                   lastExchangeId, toMain, toExt, extVars>>

\* _sendRequestAsync up to the await of resolveVariables, with model.addRequest:
\* the request is pushed with an open response of its own.
_sendRequestAsync(m) ==
    /\ sending[m] > 0
    /\ initState[m] = "Initialized"
    /\ sending' = [sending EXCEPT ![m] = @ - 1]
    /\ preparing' = [preparing EXCEPT ![m] = @ + 1]
    /\ responses' = Append(responses, [model |-> m, parts |-> NoParts])
    /\ lastExchangeId' = Len(responses) + 1
    /\ lastExchangeComplete' = FALSE
    /\ UNCHANGED <<sessionVars, requests, complete, canceled, tokenVars,
                   mainVars, toMain, toExt, extVars>>

\* The variables are resolved: the agent is invoked, whatever became of the
\* session meanwhile.
invokeAgentCall(m) ==
    /\ preparing[m] > 0
    /\ preparing' = [preparing EXCEPT ![m] = @ - 1]
    /\ toExt' = Append(toExt, [type |-> "invokeAgent", session |-> m[1]])
    /\ UNCHANGED <<sessionVars, requests, sending, responseVars, tokenVars,
                   mainVars, lastExchangeId, toMain, extVars>>

-----------------------------------------------------------------------------
(* ChatService and MainThreadChatAgents2: responses *)

\* $initResponse up to waitForInitialization; an unknown session throws.
initResponseCall ==
    /\ toMain # <<>>
    /\ Head(toMain).type = "initResponse"
    /\ toMain' = Tail(toMain)
    /\ LET s == Head(toMain).session
       IN  \/ /\ s \in live
              /\ awaiting' = [awaiting EXCEPT ![ModelOf(s)] = @ + 1]
              /\ UNCHANGED toExt
           \/ /\ s \notin live
              /\ toExt' = Append(toExt, [type |-> "initError", session |-> s])
              /\ UNCHANGED awaiting
    /\ UNCHANGED <<sessionVars, requestVars, responseVars, tokenVars,
                   registered, lastExchangeId, extVars>>

\* Fault: the maps of the main thread are not filled.
registerNothing(r) == UNCHANGED registered

\* What $initResponse sets in _cancellationTokenMap and _pendingProgress.
register(r) == registered' = registered \cup {r}

\* The rest of initiateResponse and $initResponse: a new response in the model
\* that was looked up before the await, its token, its registration, the reply.
initResponseReturns(m) ==
    /\ awaiting[m] > 0
    /\ initState[m] = "Initialized"
    /\ awaiting' = [awaiting EXCEPT ![m] = @ - 1]
    /\ responses' = Append(responses, [model |-> m, parts |-> NoParts])
    /\ lastExchangeId' = Len(responses) + 1
    /\ pending' = pending \cup {Len(responses) + 1}
    /\ register(Len(responses) + 1)
    /\ toExt' = Append(toExt, [type |-> "initReply", id |-> Len(responses) + 1])
    /\ UNCHANGED <<sessionVars, requestVars, complete, canceled,
                   lastExchangeComplete, fired, watching, resolved, toMain,
                   extVars>>

\* Fault: the rejection is lost with the session.
initResponseRejectsIfLive(m) ==
    /\ awaiting[m] > 0
    /\ initState[m] = "Failed"
    /\ m[1] \in live
    /\ awaiting' = [awaiting EXCEPT ![m] = @ - 1]
    /\ toExt' = Append(toExt, [type |-> "initError", session |-> m[1]])
    /\ UNCHANGED <<sessionVars, requestVars, responseVars, tokenVars,
                   registered, lastExchangeId, toMain, extVars>>

\* waitForInitialization rejected.
initResponseRejects(m) ==
    /\ awaiting[m] > 0
    /\ initState[m] = "Failed"
    /\ awaiting' = [awaiting EXCEPT ![m] = @ - 1]
    /\ toExt' = Append(toExt, [type |-> "initError", session |-> m[1]])
    /\ UNCHANGED <<sessionVars, requestVars, responseVars, tokenVars,
                   registered, lastExchangeId, toMain, extVars>>

\* ChatModel.completeResponse
completeResponse(r) ==
    /\ complete' = complete \cup {r}
    /\ lastExchangeComplete' = TRUE
    /\ UNCHANGED <<responses, canceled>>

\* ChatModel.acceptResponseProgress: there is no check that r is still open.
acceptResponseProgress(r, kind) ==
    /\ responses' = [responses EXCEPT ![r].parts = Plus(responses[r].parts, kind)]
    /\ lastExchangeComplete' = FALSE
    /\ UNCHANGED <<complete, canceled>>

\* ChatService.progressCallback
progressCallback(r, kind) ==
    LET dropped == kind \notin allowedProgressWhenCanceling /\ r \in fired
    IN  \/ dropped /\ UNCHANGED responseVars
        \/ ~dropped /\ kind = "endResponse" /\ completeResponse(r)
        \/ /\ ~dropped
           /\ kind # "endResponse"
           /\ acceptResponseProgress(r, kind)

\* $handleProgressChunk: a chunk for an unregistered response is dropped.
handleProgressChunk ==
    /\ toMain # <<>>
    /\ Head(toMain).type = "progress"
    /\ toMain' = Tail(toMain)
    /\ LET r == Head(toMain).id
       IN  \/ r \in registered /\ progressCallback(r, Head(toMain).kind)
           \/ r \notin registered /\ UNCHANGED responseVars
    /\ UNCHANGED <<sessionVars, requestVars, tokenVars, mainVars,
                   lastExchangeId, toExt, extVars>>

-----------------------------------------------------------------------------
(* ChatService and MainThreadChatAgents2: cancellation *)

\* Fault: the response is not completed.
cancelOnly(R) ==
    /\ canceled' = canceled \cup R
    /\ UNCHANGED <<responses, complete, lastExchangeComplete>>

\* ChatModel.cancelResponse for each response in R.
cancelResponses(R) ==
    /\ complete' = complete \cup R
    /\ canceled' = canceled \cup R
    /\ UNCHANGED <<responses, lastExchangeComplete>>

\* Fault: the listener stays after it was called.
fireAndKeepListeners(R) ==
    /\ fired' = fired \cup R
    /\ resolved' = resolved \cup (R \cap watching)
    /\ UNCHANGED watching

\* CancellationTokenSource.cancel: each listener is called once, and that of
\* $cancelExchange resolves its promise.
fireTokens(R) ==
    /\ fired' = fired \cup R
    /\ resolved' = resolved \cup (R \cap watching)
    /\ watching' = watching \ R

\* Fault: the entries stay in _pendingExchanges.
cancelWithoutDelete(R) ==
    /\ fireTokens(R)
    /\ cancelResponses(R)
    /\ UNCHANGED pending

\* Cancel each exchange in R and delete its entry.
cancelPending(R) ==
    /\ fireTokens(R)
    /\ cancelResponses(R)
    /\ pending' = pending \ R

\* Only an exchange that is still in _pendingExchanges is cancelled.
cancelExchange(r) ==
    /\ r \in pending
    /\ cancelPending({r})
    /\ UNCHANGED <<sessionVars, requestVars, mainVars, lastExchangeId,
                   toMain, toExt, extVars>>

\* Despite its name it takes no session: every pending exchange is cancelled.
cancelAllExchangesForSession ==
    /\ pending # {}
    /\ cancelPending(pending)
    /\ UNCHANGED <<sessionVars, requestVars, mainVars, lastExchangeId,
                   toMain, toExt, extVars>>

clearSession(s) ==
    /\ s \in live
    /\ persisted' = persisted \cup ({s} \cap PanelSessions)
    /\ live' = live \ {s}
    /\ cancelPending(pending)
    /\ toExt' = Append(toExt, [type |-> "releaseSession", session |-> s])
    /\ UNCHANGED <<created, initState, requestVars, mainVars, lastExchangeId,
                   toMain, extVars>>

\* Fault: a token that is cancelled already does not call a new listener.
watchOpenToken(r) ==
    /\ watching' = IF r \in fired THEN watching ELSE watching \cup {r}
    /\ UNCHANGED resolved

\* A promise that the token's cancellation resolves, or null at once when no
\* token is known.
watchToken(r) ==
    \/ /\ r \in registered
       /\ watching' = watching \cup {r}
       /\ UNCHANGED resolved
    \/ /\ r \notin registered
       /\ resolved' = resolved \cup {r}
       /\ UNCHANGED watching

\* $cancelExchange
cancelExchangeCall ==
    /\ toMain # <<>>
    /\ Head(toMain).type = "cancelExchange"
    /\ toMain' = Tail(toMain)
    /\ watchToken(Head(toMain).id)
    /\ UNCHANGED <<sessionVars, requestVars, responseVars, pending, fired,
                   mainVars, lastExchangeId, toExt, extVars>>

\* A listener added to a token that is already cancelled is called by a timer.
lateCancellationListener(r) ==
    /\ r \in watching \cap fired
    /\ watching' = watching \ {r}
    /\ resolved' = resolved \cup {r}
    /\ UNCHANGED <<sessionVars, requestVars, responseVars, pending, fired,
                   mainVars, lastExchangeId, toMain, toExt, extVars>>

-----------------------------------------------------------------------------
(* ExtHostAideAgentAgents2 *)

\* The next message for the extension host has this type.
Arrives(type) ==
    /\ toExt # <<>>
    /\ Head(toExt).type = type
    /\ toExt' = Tail(toExt)

\* $initSession
extInitSession ==
    /\ Arrives("initSession")
    /\ extSessions' = extSessions \cup {Head(toExt).session}
    /\ UNCHANGED <<sessionVars, requestVars, responseVars, tokenVars, mainVars,
                   lastExchangeId, toMain, calls, invoked, sent, closed,
                   extCanceled>>

\* $releaseSession: the session's streams are not closed.
releaseSession ==
    /\ Arrives("releaseSession")
    /\ extSessions' = extSessions \ {Head(toExt).session}
    /\ UNCHANGED <<sessionVars, requestVars, responseVars, tokenVars, mainVars,
                   lastExchangeId, toMain, calls, invoked, sent, closed,
                   extCanceled>>

\* $invokeAgent hands the request to the extension's agent.
invokeAgent ==
    /\ Arrives("invokeAgent")
    /\ invoked' = invoked \cup {Head(toExt).session}
    /\ UNCHANGED <<sessionVars, requestVars, responseVars, tokenVars, mainVars,
                   lastExchangeId, toMain, calls, extSessions, sent, closed,
                   extCanceled>>

\* initResponse, called by the agent for a session it was invoked in; without
\* disposables it returns undefined (no step).
initResponse(s) ==
    /\ s \in invoked
    /\ s \in extSessions
    /\ calls < MaxCalls
    /\ calls' = calls + 1
    /\ toMain' = Append(toMain, [type |-> "initResponse", session |-> s])
    /\ UNCHANGED <<sessionVars, requestVars, responseVars, tokenVars, mainVars,
                   lastExchangeId, toExt, extSessions, invoked, sent, closed,
                   extCanceled>>

\* initResponse after its await: a stream, and a $cancelExchange call whose
\* promise will cancel the token handed to the extension.
initResponseStream ==
    /\ Arrives("initReply")
    /\ LET r == Head(toExt).id
       IN  /\ sent' = [q \in DOMAIN sent \cup {r} |->
                          IF q = r THEN NoParts ELSE sent[q]]
           /\ toMain' = Append(toMain, [type |-> "cancelExchange", id |-> r])
    /\ UNCHANGED <<sessionVars, requestVars, responseVars, tokenVars, mainVars,
                   lastExchangeId, calls, extSessions, invoked, closed,
                   extCanceled>>

\* The awaited $initResponse rejected.
initResponseThrows ==
    /\ Arrives("initError")
    /\ UNCHANGED <<sessionVars, requestVars, responseVars, tokenVars, mainVars,
                   lastExchangeId, toMain, extVars>>

\* The $cancelExchange promise resolved: cts.cancel().
cancelExtToken(r) ==
    /\ r \in resolved
    /\ resolved' = resolved \ {r}
    /\ extCanceled' = extCanceled \cup {r}
    /\ UNCHANGED <<sessionVars, requestVars, responseVars, pending, fired,
                   watching, mainVars, lastExchangeId, toMain, toExt, calls,
                   extSessions, invoked, sent, closed>>

\* Every reporting method of the stream but close throws once it is closed;
\* markLastMessageAsComplete reports endResponse and leaves the stream open.
report(r, kind) ==
    /\ r \notin closed
    /\ sent[r][kind] < MaxReports
    /\ sent' = [sent EXCEPT ![r] = Plus(sent[r], kind)]
    /\ toMain' = Append(toMain, [type |-> "progress", id |-> r, kind |-> kind])
    /\ UNCHANGED <<sessionVars, requestVars, responseVars, tokenVars, mainVars,
                   lastExchangeId, toExt, calls, extSessions, invoked, closed,
                   extCanceled>>

\* close reports endResponse, also on a stream that is closed already.
close(r) ==
    /\ sent[r]["endResponse"] =< MaxReports
    /\ sent' = [sent EXCEPT ![r] = Plus(sent[r], "endResponse")]
    /\ closed' = closed \cup {r}
    /\ toMain' = Append(toMain, [type |-> "progress", id |-> r,
                                 kind |-> "endResponse"])
    /\ UNCHANGED <<sessionVars, requestVars, responseVars, tokenVars, mainVars,
                   lastExchangeId, toExt, calls, extSessions, invoked,
                   extCanceled>>

-----------------------------------------------------------------------------
(* Specification *)

ModelStep(m) ==
    \/ initializeSessionAgent(m)
    \/ initializeSessionDone(m)
    \/ initializeSessionFails(m)

AwaitStep(m) ==
    \/ sendRequestRejected(m)
    \/ _sendRequestAsync(m)
    \/ invokeAgentCall(m)
    \/ initResponseReturns(m)
    \/ initResponseRejects(m)

MainReceives ==
    \/ initResponseCall
    \/ handleProgressChunk
    \/ cancelExchangeCall

ExtReceives ==
    \/ extInitSession
    \/ releaseSession
    \/ invokeAgent
    \/ initResponseStream
    \/ initResponseThrows

Next ==
    \/ \E s \in Sessions :
        \/ startSession(s)
        \/ getOrRestoreSession(s)
        \/ sendRequest(s)
        \/ clearSession(s)
        \/ initResponse(s)
    \/ \E m \in Models : ModelStep(m) \/ AwaitStep(m)
    \/ MainReceives
    \/ ExtReceives
    \/ cancelAllExchangesForSession
    \/ \E r \in Ids :
        \/ cancelExchange(r)
        \/ lateCancellationListener(r)
        \/ cancelExtToken(r)
    \/ \E r \in DOMAIN sent :
        \/ close(r)
        \/ \E kind \in Kinds : report(r, kind)

Spec == Init /\ [][Next]_vars

\* Event loops and the RPC protocol make progress: messages and replies are
\* delivered, timers fire, initialization ends one way or the other, awaits on
\* a settled promise resume.  Users and the agent owe nothing.
Fairness ==
    /\ WF_vars(MainReceives)
    /\ WF_vars(ExtReceives)
    /\ WF_vars(\E m \in Models : ModelStep(m))
    /\ WF_vars(\E m \in Models : AwaitStep(m))
    /\ WF_vars(\E r \in Ids : lateCancellationListener(r))
    /\ WF_vars(\E r \in Ids : cancelExtToken(r))

FairSpec == Spec /\ Fairness

-----------------------------------------------------------------------------
(* Properties *)

SessionTypes ==
    /\ created \in [Sessions -> 0..MaxModels]
    /\ live \subseteq {s \in Sessions : created[s] > 0}
    /\ initState \in [Models -> InitStates]
    /\ persisted \subseteq Sessions

CallTypes ==
    /\ requests \in Nat
    /\ sending \in [Models -> Nat]
    /\ preparing \in [Models -> Nat]
    /\ awaiting \in [Models -> Nat]
    /\ calls \in Nat

ResponseTypes ==
    /\ responses \in Seq(Response)
    /\ complete \subseteq Ids
    /\ canceled \subseteq Ids
    /\ pending \subseteq Ids
    /\ fired \subseteq Ids
    /\ registered \subseteq Ids
    /\ lastExchangeId \in Nat
    /\ lastExchangeComplete \in BOOLEAN

ChannelTypes ==
    /\ toMain \in Seq(MainMsg)
    /\ toExt \in Seq(ExtMsg)

ExtTypes ==
    /\ watching \subseteq Nat
    /\ resolved \subseteq Nat
    /\ extSessions \subseteq Sessions
    /\ invoked \subseteq Sessions
    /\ DOMAIN sent \subseteq Nat
    /\ sent \in [DOMAIN sent -> Parts]
    /\ closed \subseteq DOMAIN sent
    /\ extCanceled \subseteq Nat

TypeOK ==
    /\ SessionTypes
    /\ CallTypes
    /\ ResponseTypes
    /\ ChannelTypes
    /\ ExtTypes

\* The messages of a channel that concern a given response, by position.
Calling(r) ==
    {i \in DOMAIN toMain : toMain[i].type = "cancelExchange" /\ toMain[i].id = r}

Replying(r) ==
    {i \in DOMAIN toExt : toExt[i].type = "initReply" /\ toExt[i].id = r}

InFlight(r, kind) ==
    {i \in DOMAIN toMain : /\ toMain[i].type = "progress"
                           /\ toMain[i].id = r
                           /\ toMain[i].kind = kind}

\* A response handed to the extension host can be cancelled exactly once: it
\* is in _pendingExchanges until its token is cancelled and never after, and
\* the canceled responses, all complete, are those of the cancelled tokens.
CancelOnce ==
    /\ registered = pending \cup fired
    /\ pending \cap fired = {}
    /\ canceled = fired
    /\ canceled \subseteq complete

\* $cancelExchange "will only resolve when the cancellation token has been
\* triggered": the extension's token follows the workbench's and never leads.
OnlyCancelledTokensResolve == resolved \cup extCanceled \subseteq fired

\* The messages of these types name responses in R only.
NamesOnly(q, types, R) ==
    \A i \in DOMAIN q : q[i].type \in types => q[i].id \in R

\* No message and no stream names a response the main thread does not know, so
\* no chunk is dropped and no $cancelExchange resolves for want of a token.
HandlesKnown ==
    /\ NamesOnly(toMain, {"cancelExchange", "progress"}, registered)
    /\ NamesOnly(toExt, {"initReply"}, registered)
    /\ watching \subseteq registered
    /\ DOMAIN sent \subseteq registered

\* Each response has exactly one cancellation relay: its id is travelling to
\* the extension host, or the $cancelExchange call is travelling back, or the
\* promise is waiting, or its reply is travelling, or the extension was told.
OneRelay ==
    \A r \in registered :
        Cardinality(Replying(r)) + Cardinality(Calling(r))
            + Cardinality({r} \cap watching) + Cardinality({r} \cap resolved)
            + Cardinality({r} \cap extCanceled) = 1

\* No part is lost or applied twice: what a stream sent is what the response
\* holds and what is still travelling.  Only content of a cancelled exchange
\* is dropped; stages get through even then.
PartsConserved ==
    \A r \in DOMAIN sent :
        LET Arrived(kind) == responses[r].parts[kind]
                                + Cardinality(InFlight(r, kind))
        IN  /\ Arrived("stage") = sent[r]["stage"]
            /\ r \notin fired => Arrived("content") = sent[r]["content"]
            /\ Arrived("content") =< sent[r]["content"]

\* The session that the extension host will know once it has handled
\* everything that is on its way.
WillKnow(s) ==
    \/ \E i \in DOMAIN toExt :
        /\ toExt[i] = [type |-> "initSession", session |-> s]
        /\ \A j \in DOMAIN toExt :
            j > i => toExt[j] # [type |-> "releaseSession", session |-> s]
    \/ /\ s \in extSessions
       /\ \A j \in DOMAIN toExt :
            toExt[j] # [type |-> "releaseSession", session |-> s]

\* A live session whose initialization got past initSession is one the
\* extension host can answer in, whatever earlier generations of the session
\* were cleared, restored or failed meanwhile.
LiveSessionsKnown ==
    \A s \in live :
        initState[ModelOf(s)] \in {"Welcoming", "Initialized"} => WillKnow(s)

\* After cancellation nothing but stages is added to the response, and it
\* stays canceled and complete, whatever the extension goes on reporting.
CancelledIsFrozen ==
    [][\A r \in fired :
        /\ responses'[r].parts["content"] = responses[r].parts["content"]
        /\ r \in canceled' \cap complete']_vars

\* A cancelled exchange is eventually cancelled in the extension, also when
\* the user cancels before the extension host has subscribed.
CancellationReachesExtension ==
    \A r \in 1..MaxCalls + MaxRequests : r \in fired ~> r \in extCanceled

\* Every $initResponse call that waits for a session is answered, also when
\* the session is cleared while it waits.
CallsAnswered ==
    \A m \in Models : awaiting[m] > 0 ~> awaiting[m] = 0

\* What the chat view shows of the responses.
Life == INSTANCE ExchangeLife
    WITH text <- [r \in Ids |-> responses[r].parts["content"]],
         finished <- complete,
         stopped <- canceled

\* ChatExchange implements ExchangeLife: only content of an exchange that is
\* not cancelled changes it, cancelling is final and completes the response.
ImplementsLife == Life!LifeSpec
=============================================================================
