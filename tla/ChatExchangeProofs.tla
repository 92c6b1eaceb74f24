------------------------- MODULE ChatExchangeProofs -------------------------
(***************************************************************************)
(* Proofs about ChatExchange, for any set of sessions and any bounds.      *)
(***************************************************************************)
EXTENDS ChatExchange, TLAPS

USE DEF sessionVars, requestVars, responseVars, tokenVars, mainVars, extVars

-----------------------------------------------------------------------------
(* Messages, models and parts *)

\* The messages the actions send are messages of their channel.
LEMMA MainMsgTypes ==
    /\ \A s \in Sessions : [type |-> "initResponse", session |-> s] \in MainMsg
    /\ \A r \in Nat : [type |-> "cancelExchange", id |-> r] \in MainMsg
    /\ \A r \in Nat, kind \in Kinds :
            [type |-> "progress", id |-> r, kind |-> kind] \in MainMsg
BY Zenon DEF MainMsg

\* The calls and replies sent to the extension host are messages of toExt.
LEMMA ExtMsgTypes ==
    /\ \A s \in Sessions :
        /\ [type |-> "initSession", session |-> s] \in ExtMsg
        /\ [type |-> "releaseSession", session |-> s] \in ExtMsg
        /\ [type |-> "invokeAgent", session |-> s] \in ExtMsg
        /\ [type |-> "initError", session |-> s] \in ExtMsg
    /\ \A r \in Nat : [type |-> "initReply", id |-> r] \in ExtMsg
BY Zenon DEF ExtMsg

\* The fields of a message that its handler reads.
LEMMA MainMsgFields ==
    \A x \in MainMsg :
        /\ x.type = "initResponse" => x.session \in Sessions
        /\ x.type = "cancelExchange" => x.id \in Nat
        /\ x.type = "progress" => x.id \in Nat /\ x.kind \in Kinds
BY Zenon DEF MainMsg

\* A reply carries a response id, every other message a session.
LEMMA ExtMsgFields ==
    \A x \in ExtMsg :
        /\ x.type = "initReply" => x.id \in Nat
        /\ x.type # "initReply" => x.session \in Sessions
BY Zenon DEF ExtMsg

\* The first message of a channel, and the rest of it.
LEMMA MainHead ==
    ASSUME TypeOK, toMain # <<>>
    PROVE  Head(toMain) \in MainMsg /\ Tail(toMain) \in Seq(MainMsg)
BY DEF TypeOK, ChannelTypes

\* The same for the channel to the extension host.
LEMMA ExtHead ==
    ASSUME TypeOK, toExt # <<>>
    PROVE  Head(toExt) \in ExtMsg /\ Tail(toExt) \in Seq(ExtMsg)
BY DEF TypeOK, ChannelTypes

\* A live session has a model.
LEMMA ModelOfType ==
    ASSUME TypeOK, NEW s \in live
    PROVE  ModelOf(s) \in Models
BY BoundsAssumption DEF TypeOK, SessionTypes, ModelOf, Models

\* The session of a model.
LEMMA SessionOfModel == \A m \in Models : m[1] \in Sessions
BY Zenon DEF Models

\* A response as addRequest and addResponse create it.
LEMMA NewResponseType ==
    \A m \in Models : [model |-> m, parts |-> NoParts] \in Response
BY Zenon DEF Response, NoParts, Parts

\* Counting one more part yields parts.
LEMMA PlusType ==
    ASSUME NEW p \in Parts, NEW kind \in Kinds
    PROVE  Plus(p, kind) \in Parts
BY DEF Plus, Parts

\* A new response gets a new id; the ids in use stay.
LEMMA AddResponse ==
    ASSUME TypeOK, NEW m \in Models,
           responses' = Append(responses, [model |-> m, parts |-> NoParts])
    PROVE  /\ responses' \in Seq(Response)
           /\ Ids' = Ids \cup {Len(responses) + 1}
           /\ Len(responses) + 1 \in Nat
           /\ Len(responses) + 1 \notin Ids
<1>1. [model |-> m, parts |-> NoParts] \in Response
    BY NewResponseType, Zenon
<1>2. responses \in Seq(Response)
    BY Zenon DEF TypeOK, ResponseTypes
<1>3. /\ responses' \in Seq(Response)
      /\ Len(responses') = Len(responses) + 1
    BY <1>1, <1>2
<1> QED
    BY <1>2, <1>3 DEF Ids

\* acceptResponseProgress changes the parts of one response.
LEMMA UpdateResponse ==
    ASSUME TypeOK, NEW r \in Ids, NEW kind \in Kinds,
           acceptResponseProgress(r, kind)
    PROVE  /\ responses' \in Seq(Response)
           /\ Ids' = Ids
           /\ \A q \in Ids : responses'[q].parts =
                IF q = r THEN Plus(responses[r].parts, kind)
                ELSE responses[q].parts
<1> DEFINE new == [responses[r] EXCEPT !.parts =
                                        Plus(responses[r].parts, kind)]
<1>1. responses[r] \in Response
    BY DEF TypeOK, ResponseTypes, Ids
<1>2. new \in Response /\ new.parts = Plus(responses[r].parts, kind)
    BY <1>1, PlusType, Zenon DEF Response
<1>3. responses' = [responses EXCEPT ![r] = new]
    BY Zenon DEF acceptResponseProgress
<1> HIDE DEF new
<1> QED
    BY <1>2, <1>3 DEF TypeOK, ResponseTypes, Ids
-----------------------------------------------------------------------------
(* Type correctness, action by action *)

\* startSession and getOrRestoreSession keep TypeOK.
LEMMA TypeStart ==
    ASSUME TypeOK, NEW s \in Sessions,
           startSession(s) \/ getOrRestoreSession(s)
    PROVE  TypeOK'
<1>1. SessionTypes'
    BY BoundsAssumption
    DEF TypeOK, SessionTypes, startSession, getOrRestoreSession,
        _startSession, Models, InitStates
<1> QED
    BY <1>1, Zenon DEF TypeOK, CallTypes, ResponseTypes, Ids, ChannelTypes, ExtTypes,
                startSession, getOrRestoreSession

\* The steps of initializeSession keep TypeOK.
LEMMA TypeInitialize ==
    ASSUME TypeOK, NEW m \in Models, ModelStep(m)
    PROVE  TypeOK'
<1>1. SessionTypes'
    BY Zenon DEF TypeOK, SessionTypes, ModelStep, initializeSessionAgent,
           initializeSessionDone, initializeSessionFails, InitStates
<1>2. /\ [type |-> "initSession", session |-> m[1]] \in ExtMsg
      /\ [type |-> "releaseSession", session |-> m[1]] \in ExtMsg
    BY Zenon, ExtMsgTypes, SessionOfModel
<1>3. ChannelTypes'
    <2>1. CASE initializeSessionAgent(m)
        BY <1>2, <2>1 DEF TypeOK, ChannelTypes, initializeSessionAgent
    <2>2. CASE initializeSessionDone(m)
        BY <2>2, Zenon DEF TypeOK, ChannelTypes, initializeSessionDone
    <2>3. CASE initializeSessionFails(m)
        BY <1>2, <2>3 DEF TypeOK, ChannelTypes, initializeSessionFails
    <2> QED
        BY <2>1, <2>2, <2>3, Zenon DEF ModelStep
<1> QED
    BY <1>1, <1>3, Zenon
    DEF TypeOK, CallTypes, ResponseTypes, Ids, ExtTypes, ModelStep,
        initializeSessionAgent, initializeSessionDone, initializeSessionFails

\* sendRequest looks up a model that exists.
LEMMA TypeSendRequest ==
    ASSUME TypeOK, NEW s \in Sessions, sendRequest(s)
    PROVE  TypeOK'
<1>1. CallTypes'
    BY ModelOfType DEF TypeOK, CallTypes, sendRequest
<1> QED
    BY <1>1, Zenon DEF TypeOK, SessionTypes, ResponseTypes, Ids, ChannelTypes,
                ExtTypes, sendRequest

\* A rejected sendRequest keeps TypeOK.
LEMMA TypeSendRejected ==
    ASSUME TypeOK, NEW m \in Models, sendRequestRejected(m)
    PROVE  TypeOK'
<1>1. CallTypes'
    BY DEF TypeOK, CallTypes, sendRequestRejected
<1> QED
    BY <1>1, Zenon DEF TypeOK, SessionTypes, ResponseTypes, Ids, ChannelTypes,
                ExtTypes, sendRequestRejected

\* addRequest adds a response and keeps TypeOK.
LEMMA TypeSendAsync ==
    ASSUME TypeOK, NEW m \in Models, _sendRequestAsync(m)
    PROVE  TypeOK'
<1>1. CallTypes'
    BY DEF TypeOK, CallTypes, _sendRequestAsync
<1>2. ResponseTypes'
    <2>1. lastExchangeComplete' \in BOOLEAN
        BY Zenon DEF _sendRequestAsync
    <2> QED
        BY <2>1, AddResponse, Zenon DEF TypeOK, ResponseTypes, _sendRequestAsync
<1> QED
    BY <1>1, <1>2, Zenon
    DEF TypeOK, SessionTypes, ChannelTypes, ExtTypes, _sendRequestAsync

\* Invoking the agent keeps TypeOK.
LEMMA TypeInvokeAgentCall ==
    ASSUME TypeOK, NEW m \in Models, invokeAgentCall(m)
    PROVE  TypeOK'
<1>1. CallTypes'
    BY DEF TypeOK, CallTypes, invokeAgentCall
<1>2. [type |-> "invokeAgent", session |-> m[1]] \in ExtMsg
    BY Zenon, ExtMsgTypes, SessionOfModel
<1>3. ChannelTypes'
    BY <1>2 DEF TypeOK, ChannelTypes, invokeAgentCall
<1> QED
    BY <1>1, <1>3, Zenon DEF TypeOK, SessionTypes, ResponseTypes, Ids, ExtTypes,
                      invokeAgentCall

\* $initResponse looks up a model that exists, or replies with an error.
LEMMA TypeInitResponseCall ==
    ASSUME TypeOK, initResponseCall
    PROVE  TypeOK'
<1> DEFINE s == Head(toMain).session
<1>1. s \in Sessions
    BY MainHead, MainMsgFields, Zenon DEF initResponseCall
<1>2. CallTypes'
    <2>1. /\ awaiting \in [Models -> Nat]
          /\ requests \in Nat /\ sending \in [Models -> Nat] /\ preparing \in [Models -> Nat]
          /\ calls \in Nat
        BY Zenon DEF TypeOK, CallTypes
    <2>2. UNCHANGED <<requests, sending, preparing, calls>>
        BY Zenon DEF initResponseCall
    <2>3. \/ UNCHANGED awaiting
          \/ \E m \in Models : awaiting' = [awaiting EXCEPT ![m] = @ + 1]
        BY ModelOfType, Zenon DEF initResponseCall
    <2>4. awaiting' \in [Models -> Nat]
        BY <2>1, <2>3
    <2> QED
        BY <2>1, <2>2, <2>4, Zenon DEF CallTypes
<1>3. [type |-> "initError", session |-> s] \in ExtMsg
    BY Zenon, <1>1, ExtMsgTypes
<1>4. toMain' \in Seq(MainMsg)
    BY DEF TypeOK, ChannelTypes, initResponseCall
<1>5. toExt' \in Seq(ExtMsg)
    <2>1. CASE UNCHANGED toExt
        BY <2>1, Zenon DEF TypeOK, ChannelTypes
    <2>2. CASE toExt' = Append(toExt, [type |-> "initError", session |-> s])
        BY <1>3, <2>2 DEF TypeOK, ChannelTypes
    <2> QED
        BY <2>1, <2>2, Zenon DEF initResponseCall
<1> QED
    BY SMTT(30), <1>2, <1>4, <1>5
    DEF TypeOK, SessionTypes, ResponseTypes, Ids, ChannelTypes, ExtTypes,
        initResponseCall

\* initiateResponse adds a response and keeps TypeOK.
LEMMA TypeInitResponseReturns ==
    ASSUME TypeOK, NEW m \in Models, initResponseReturns(m)
    PROVE  TypeOK'
<1>1. CallTypes'
    BY DEF TypeOK, CallTypes, initResponseReturns
<1>2. ResponseTypes'
    BY AddResponse, Zenon DEF TypeOK, ResponseTypes, initResponseReturns, register
<1>3. [type |-> "initReply", id |-> Len(responses) + 1] \in ExtMsg
    BY ExtMsgTypes, AddResponse, Zenon DEF initResponseReturns
<1>4. ChannelTypes'
    BY <1>3 DEF TypeOK, ChannelTypes, initResponseReturns
<1> QED
    BY <1>1, <1>2, <1>4, Zenon DEF TypeOK, SessionTypes, ExtTypes, initResponseReturns

\* A rejected $initResponse keeps TypeOK.
LEMMA TypeInitResponseRejects ==
    ASSUME TypeOK, NEW m \in Models, initResponseRejects(m)
    PROVE  TypeOK'
<1>1. CallTypes'
    BY DEF TypeOK, CallTypes, initResponseRejects
<1>2. [type |-> "initError", session |-> m[1]] \in ExtMsg
    BY Zenon, ExtMsgTypes, SessionOfModel
<1>3. ChannelTypes'
    BY <1>2 DEF TypeOK, ChannelTypes, initResponseRejects
<1> QED
    BY <1>1, <1>3, Zenon DEF TypeOK, SessionTypes, ResponseTypes, Ids, ExtTypes,
                      initResponseRejects

\* A progress chunk reaches a response that exists, or is dropped.
LEMMA TypeProgress ==
    ASSUME TypeOK, handleProgressChunk
    PROVE  TypeOK'
<1> DEFINE r == Head(toMain).id
           kind == Head(toMain).kind
<1>1. ChannelTypes'
    BY DEF TypeOK, ChannelTypes, handleProgressChunk
<1>2. r \in Nat /\ kind \in Kinds
    BY MainHead, MainMsgFields, Zenon DEF handleProgressChunk
<1>3. ResponseTypes'
    <2>1. CASE UNCHANGED responseVars
        BY <2>1, Zenon DEF TypeOK, ResponseTypes, Ids, handleProgressChunk
    <2>2. CASE r \in registered /\ progressCallback(r, kind)
        <3> HIDE DEF r, kind
        <3>1. r \in Ids
            BY <2>2, Zenon DEF TypeOK, ResponseTypes
        <3>2. CASE acceptResponseProgress(r, kind)
            <4>1. lastExchangeComplete' \in BOOLEAN
                BY Zenon, <3>2 DEF acceptResponseProgress
            <4>2. responses' \in Seq(Response) /\ Ids' = Ids
                BY <1>2, <3>1, <3>2, UpdateResponse, Zenon
            <4> QED
                BY <3>2, <4>1, <4>2, Zenon
                DEF TypeOK, ResponseTypes, acceptResponseProgress,
                    handleProgressChunk
        <3>3. CASE completeResponse(r)
            <4>1. lastExchangeComplete' \in BOOLEAN
                BY <3>3, Zenon DEF completeResponse
            <4> QED
                BY <3>1, <3>3, <4>1, Zenon
                DEF TypeOK, ResponseTypes, Ids, completeResponse,
                    handleProgressChunk
        <3> QED
            BY <2>1, <2>2, <3>2, <3>3, Zenon DEF progressCallback
    <2> QED
        BY <2>1, <2>2, Zenon DEF handleProgressChunk
<1> QED
    BY <1>1, <1>3, Zenon DEF TypeOK, SessionTypes, CallTypes, ExtTypes,
                      handleProgressChunk

\* Cancelling a set of existing responses keeps the types it touches.
LEMMA TypeCancelPending ==
    ASSUME TypeOK, NEW R \in SUBSET Ids, cancelPending(R),
           UNCHANGED <<registered, lastExchangeId>>
    PROVE  /\ ResponseTypes'
           /\ watching' \subseteq Nat
           /\ resolved' \subseteq Nat
<1>1. ResponseTypes'
    BY Zenon DEF TypeOK, ResponseTypes, Ids, cancelPending, fireTokens,
           cancelResponses
<1> QED
    BY <1>1, Zenon DEF TypeOK, ExtTypes, cancelPending, fireTokens

\* cancelExchange keeps TypeOK.
LEMMA TypeCancelExchange ==
    ASSUME TypeOK, NEW r \in Ids, cancelExchange(r)
    PROVE  TypeOK'
<1>1. /\ ResponseTypes'
      /\ watching' \subseteq Nat
      /\ resolved' \subseteq Nat
    BY TypeCancelPending, Zenon DEF cancelExchange
<1> QED
    BY <1>1, Zenon DEF TypeOK, SessionTypes, CallTypes, ChannelTypes, ExtTypes,
                cancelExchange

\* cancelAllExchangesForSession keeps TypeOK.
LEMMA TypeCancelAll ==
    ASSUME TypeOK, cancelAllExchangesForSession
    PROVE  TypeOK'
<1>1. /\ ResponseTypes'
      /\ watching' \subseteq Nat
      /\ resolved' \subseteq Nat
    BY TypeCancelPending, Zenon
    DEF TypeOK, ResponseTypes, cancelAllExchangesForSession
<1> QED
    BY <1>1, Zenon DEF TypeOK, SessionTypes, CallTypes, ChannelTypes, ExtTypes,
                cancelAllExchangesForSession

\* clearSession keeps TypeOK.
LEMMA TypeClearSession ==
    ASSUME TypeOK, NEW s \in Sessions, clearSession(s)
    PROVE  TypeOK'
<1>1. /\ ResponseTypes'
      /\ watching' \subseteq Nat
      /\ resolved' \subseteq Nat
    BY TypeCancelPending, Zenon DEF TypeOK, ResponseTypes, clearSession
<1>2. SessionTypes'
    BY PanelAssumption, Zenon DEF TypeOK, SessionTypes, clearSession
<1>3. [type |-> "releaseSession", session |-> s] \in ExtMsg
    BY Zenon, ExtMsgTypes
<1>4. ChannelTypes'
    BY <1>3 DEF TypeOK, ChannelTypes, clearSession
<1> QED
    BY <1>1, <1>2, <1>4, Zenon DEF TypeOK, CallTypes, ExtTypes, clearSession

\* $cancelExchange and the late listener keep TypeOK.
LEMMA TypeWatch ==
    ASSUME TypeOK,
           cancelExchangeCall \/ \E r \in Ids : lateCancellationListener(r)
    PROVE  TypeOK'
<1>1. CASE cancelExchangeCall
    <2>1. Head(toMain).id \in Nat
        BY <1>1, MainHead, MainMsgFields, Zenon DEF cancelExchangeCall
    <2>2. ExtTypes'
        BY SMTT(30), <1>1, <2>1
        DEF TypeOK, ExtTypes, cancelExchangeCall, watchToken
    <2>3. ChannelTypes'
        BY <1>1 DEF TypeOK, ChannelTypes, cancelExchangeCall
    <2> QED
        BY <1>1, <2>2, <2>3, Zenon
        DEF TypeOK, SessionTypes, CallTypes, ResponseTypes, Ids,
            cancelExchangeCall
<1>2. ASSUME NEW r \in Ids, lateCancellationListener(r)
      PROVE  TypeOK'
    <2>1. ExtTypes'
        BY <1>2, Zenon DEF TypeOK, ExtTypes, lateCancellationListener
    <2> QED
        BY <1>2, <2>1, Zenon
        DEF TypeOK, SessionTypes, CallTypes, ResponseTypes, Ids, ChannelTypes,
            lateCancellationListener
<1> QED
    BY <1>1, <1>2, Zenon

\* What the extension host does with a message keeps TypeOK.
LEMMA TypeExtReceives ==
    ASSUME TypeOK, ExtReceives
    PROVE  TypeOK'
<1>1. CASE extInitSession \/ releaseSession \/ invokeAgent \/ initResponseThrows
    <2> DEFINE x == Head(toExt)
    <2>1. /\ toExt # <<>> /\ toExt' = Tail(toExt) /\ UNCHANGED toMain
          /\ x.type # "initReply"
        BY Zenon, <1>1 DEF extInitSession, releaseSession, invokeAgent,
                    initResponseThrows, Arrives
    <2>2. x \in ExtMsg /\ ChannelTypes'
        BY <2>1, ExtHead, Zenon DEF TypeOK, ChannelTypes
    <2>3. x.session \in Sessions
        BY <2>1, <2>2, ExtMsgFields, Zenon
    <2>4. ExtTypes'
        BY <1>1, <2>3, Zenon
        DEF TypeOK, ExtTypes, extInitSession, releaseSession, invokeAgent,
            initResponseThrows
    <2> QED
        BY SMTT(30), <1>1, <2>2, <2>4
        DEF TypeOK, SessionTypes, CallTypes, ResponseTypes, Ids,
            extInitSession, releaseSession, invokeAgent, initResponseThrows
<1>2. CASE initResponseStream
    <2> DEFINE r == Head(toExt).id
    <2>1. r \in Nat
        BY SMTT(30), <1>2, ExtHead, ExtMsgFields
        DEF initResponseStream, Arrives
    <2>2. [type |-> "cancelExchange", id |-> r] \in MainMsg
        BY <2>1, MainMsgTypes, Zenon
    <2>3. ChannelTypes'
        BY <1>2, <2>2 DEF TypeOK, ChannelTypes, initResponseStream, Arrives
    <2>4. NoParts \in Parts
        BY Zenon DEF NoParts, Parts
    <2>5. ExtTypes'
        BY <1>2, <2>1, <2>4, Zenon DEF TypeOK, ExtTypes, initResponseStream
    <2> QED
        BY SMTT(30), <1>2, <2>3, <2>5
        DEF TypeOK, SessionTypes, CallTypes, ResponseTypes, Ids,
            initResponseStream
<1> QED
    BY <1>1, <1>2, Zenon DEF ExtReceives

\* The extension's initResponse call keeps TypeOK.
LEMMA TypeInitResponse ==
    ASSUME TypeOK, NEW s \in Sessions, initResponse(s)
    PROVE  TypeOK'
<1>1. [type |-> "initResponse", session |-> s] \in MainMsg
    BY MainMsgTypes, Zenon
<1>2. ChannelTypes'
    BY <1>1 DEF TypeOK, ChannelTypes, initResponse
<1>3. CallTypes'
    BY DEF TypeOK, CallTypes, initResponse
<1> QED
    BY <1>2, <1>3, Zenon DEF TypeOK, SessionTypes, ResponseTypes, Ids, ExtTypes,
                      initResponse

\* Cancelling the extension's token keeps TypeOK.
LEMMA TypeCancelExtToken ==
    ASSUME TypeOK, NEW r \in Ids, cancelExtToken(r)
    PROVE  TypeOK'
<1>1. ExtTypes'
    BY Zenon DEF TypeOK, ExtTypes, cancelExtToken
<1> QED
    BY SMTT(30), <1>1 DEF TypeOK, SessionTypes, CallTypes, ResponseTypes, Ids,
                ChannelTypes, cancelExtToken

\* The reporting methods of a stream keep TypeOK.
LEMMA TypeReport ==
    ASSUME TypeOK, NEW r \in DOMAIN sent,
           close(r) \/ \E kind \in Kinds : report(r, kind)
    PROVE  TypeOK'
<1>1. PICK kind \in Kinds :
        /\ sent' = [sent EXCEPT ![r] = Plus(sent[r], kind)]
        /\ toMain' = Append(toMain, [type |-> "progress", id |-> r,
                                     kind |-> kind])
    BY Zenon DEF close, report, Kinds
<1>2. Plus(sent[r], kind) \in Parts
    BY PlusType, Zenon DEF TypeOK, ExtTypes
<1>3. /\ DOMAIN sent' = DOMAIN sent
      /\ sent' \in [DOMAIN sent -> Parts]
    BY <1>1, <1>2, Zenon DEF TypeOK, ExtTypes
<1>4. ExtTypes'
    BY Zenon, <1>3 DEF TypeOK, ExtTypes, close, report
<1>5. [type |-> "progress", id |-> r, kind |-> kind] \in MainMsg
    BY MainMsgTypes, Zenon DEF TypeOK, ExtTypes
<1>6. UNCHANGED toExt
    BY Zenon DEF close, report
<1>7. ChannelTypes'
    BY <1>1, <1>5, <1>6 DEF TypeOK, ChannelTypes
<1> QED
    BY Zenon, <1>4, <1>7
    DEF TypeOK, SessionTypes, CallTypes, ResponseTypes, Ids, close, report

\* Every step of the workbench and of the extension host keeps TypeOK.
LEMMA TypeStep == TypeOK /\ [Next]_vars => TypeOK'
<1> SUFFICES ASSUME TypeOK, [Next]_vars
             PROVE  TypeOK'
    BY Zenon
<1>1. ASSUME NEW s \in Sessions,
             \/ startSession(s) \/ getOrRestoreSession(s) \/ sendRequest(s)
             \/ clearSession(s) \/ initResponse(s)
      PROVE  TypeOK'
    BY <1>1, TypeStart, TypeSendRequest, TypeClearSession, TypeInitResponse, Zenon
<1>2. ASSUME NEW m \in Models, ModelStep(m) \/ AwaitStep(m)
      PROVE  TypeOK'
    BY <1>2, TypeInitialize, TypeSendRejected, TypeSendAsync,
       TypeInvokeAgentCall, TypeInitResponseReturns, TypeInitResponseRejects, Zenon
    DEF AwaitStep
<1>3. CASE MainReceives
    BY <1>3, TypeInitResponseCall, TypeProgress, TypeWatch, Zenon DEF MainReceives
<1>4. CASE ExtReceives
    BY <1>4, TypeExtReceives, Zenon
<1>5. CASE cancelAllExchangesForSession
    BY <1>5, TypeCancelAll, Zenon
<1>6. ASSUME NEW r \in Ids,
             cancelExchange(r) \/ lateCancellationListener(r)
                \/ cancelExtToken(r)
      PROVE  TypeOK'
    BY <1>6, TypeCancelExchange, TypeWatch, TypeCancelExtToken, Zenon
<1>7. ASSUME NEW r \in DOMAIN sent,
             close(r) \/ \E kind \in Kinds : report(r, kind)
      PROVE  TypeOK'
    BY <1>7, TypeReport, Zenon
<1>8. CASE UNCHANGED vars
    BY SMTT(30), <1>8 DEF TypeOK, SessionTypes, CallTypes, ResponseTypes, Ids,
                ChannelTypes, ExtTypes, vars
<1> QED
    BY <1>1, <1>2, <1>3, <1>4, <1>5, <1>6, <1>7, <1>8, Zenon DEF Next

\* The initial state has the right types.
LEMMA TypeInit == Init => TypeOK
<1> SUFFICES ASSUME Init
             PROVE  TypeOK
    BY Zenon
<1>1. SessionTypes /\ CallTypes
    BY BoundsAssumption DEF Init, SessionTypes, CallTypes, InitStates
<1>2. lastExchangeComplete \in BOOLEAN
    BY Zenon DEF Init
<1>3. ResponseTypes /\ ChannelTypes
    BY <1>2 DEF Init, ResponseTypes, ChannelTypes, Ids
<1>4. ExtTypes
    BY Zenon DEF Init, ExtTypes, NoParts, Parts
<1> QED
    BY <1>1, <1>3, <1>4, Zenon DEF TypeOK

\* Types are respected in every reachable state: in particular a live session
\* always has a model to look up, and every response that is complete,
\* canceled, pending or registered exists.
THEOREM TypeCorrect == Spec => []TypeOK
BY TypeInit, TypeStep, PTL DEF Spec
-----------------------------------------------------------------------------
(* The responses that messages name *)

\* Appending a message that names a response in R.
LEMMA NamesAppend ==
    ASSUME NEW S, NEW q \in Seq(S), NEW x \in S, NEW types, NEW R,
           NamesOnly(q, types, R),
           x.type \in types => x.id \in R
    PROVE  NamesOnly(Append(q, x), types, R)
BY DEF NamesOnly

\* Receiving a message.
LEMMA NamesTail ==
    ASSUME NEW S, NEW q \in Seq(S), q # <<>>, NEW types, NEW R,
           NamesOnly(q, types, R)
    PROVE  NamesOnly(Tail(q), types, R)
BY DEF NamesOnly

\* The message received names a response in R.
LEMMA NamesHead ==
    ASSUME NEW S, NEW q \in Seq(S), q # <<>>, NEW types, NEW R,
           NamesOnly(q, types, R), Head(q).type \in types
    PROVE  Head(q).id \in R
BY DEF NamesOnly

\* A larger set of known responses.
LEMMA NamesMore ==
    ASSUME NEW q, NEW types, NEW R, NEW T, R \subseteq T,
           NamesOnly(q, types, R)
    PROVE  NamesOnly(q, types, T)
BY Zenon DEF NamesOnly
-----------------------------------------------------------------------------
(* Cancellation: the three safety properties about tokens are inductive      *)
(* together.  Each needs the others: a promise resolves only for a cancelled *)
(* token because the token is known (HandlesKnown) and the exchange leaves   *)
(* _pendingExchanges exactly when its token is cancelled (CancelOnce).       *)

CancelInv == CancelOnce /\ OnlyCancelledTokensResolve /\ HandlesKnown

\* A step that leaves tokens and streams alone, and sends no response id.
LEMMA CancelQuiet ==
    ASSUME TypeOK, CancelInv,
           UNCHANGED <<registered, pending, fired, canceled, complete, resolved,
                       extCanceled, watching, sent>>,
           \/ UNCHANGED toMain
           \/ toMain # <<>> /\ toMain' = Tail(toMain)
           \/ \E x \in MainMsg : x.type = "initResponse"
                                    /\ toMain' = Append(toMain, x),
           \/ UNCHANGED toExt
           \/ toExt # <<>> /\ toExt' = Tail(toExt)
           \/ \E x \in ExtMsg : x.type # "initReply"
                                    /\ toExt' = Append(toExt, x)
    PROVE  CancelInv'
<1>1. toMain \in Seq(MainMsg) /\ toExt \in Seq(ExtMsg)
    BY Zenon DEF TypeOK, ChannelTypes
<1>2. NamesOnly(toMain', {"cancelExchange", "progress"}, registered)
    <2>1. CASE UNCHANGED toMain
        BY <2>1, Zenon DEF CancelInv, HandlesKnown
    <2>2. CASE toMain # <<>> /\ toMain' = Tail(toMain)
        BY <1>1, <2>2, NamesTail, Zenon DEF CancelInv, HandlesKnown
    <2>3. ASSUME NEW x \in MainMsg, x.type = "initResponse",
                 toMain' = Append(toMain, x)
          PROVE  NamesOnly(toMain', {"cancelExchange", "progress"}, registered)
        BY SMTT(30), <1>1, <2>3, NamesAppend DEF CancelInv, HandlesKnown
    <2> QED
        BY <2>1, <2>2, <2>3, Zenon
<1>3. NamesOnly(toExt', {"initReply"}, registered)
    <2>1. CASE UNCHANGED toExt
        BY <2>1, Zenon DEF CancelInv, HandlesKnown
    <2>2. CASE toExt # <<>> /\ toExt' = Tail(toExt)
        BY <1>1, <2>2, NamesTail, Zenon DEF CancelInv, HandlesKnown
    <2>3. ASSUME NEW x \in ExtMsg, x.type # "initReply",
                 toExt' = Append(toExt, x)
          PROVE  NamesOnly(toExt', {"initReply"}, registered)
        BY SMTT(30), <1>1, <2>3, NamesAppend DEF CancelInv, HandlesKnown
    <2> QED
        BY <2>1, <2>2, <2>3, Zenon
<1> QED
    BY <1>2, <1>3, Zenon DEF CancelInv, CancelOnce, OnlyCancelledTokensResolve,
                      HandlesKnown

\* Starting and restoring sessions and asking for a response leave tokens
\* alone.
LEMMA CancelSessions ==
    ASSUME TypeOK, CancelInv, NEW s \in Sessions,
           \/ startSession(s) \/ getOrRestoreSession(s) \/ sendRequest(s)
           \/ initResponse(s)
    PROVE  CancelInv'
<1>1. [type |-> "initResponse", session |-> s] \in MainMsg
    BY MainMsgTypes, Zenon
<1> QED
    BY SMTT(60), <1>1, CancelQuiet
    DEF startSession, getOrRestoreSession, sendRequest, initResponse

\* The steps of initialization and of requests leave tokens alone.
LEMMA CancelModels ==
    ASSUME TypeOK, CancelInv, NEW m \in Models,
           ModelStep(m) \/ sendRequestRejected(m) \/ _sendRequestAsync(m)
                \/ invokeAgentCall(m) \/ initResponseRejects(m)
    PROVE  CancelInv'
<1>1. /\ [type |-> "initSession", session |-> m[1]] \in ExtMsg
      /\ [type |-> "releaseSession", session |-> m[1]] \in ExtMsg
      /\ [type |-> "invokeAgent", session |-> m[1]] \in ExtMsg
      /\ [type |-> "initError", session |-> m[1]] \in ExtMsg
    BY SMTT(30), ExtMsgTypes, SessionOfModel
<1>2. CASE ModelStep(m)
    <2>1. /\ UNCHANGED <<registered, pending, fired, canceled, complete,
                         resolved, extCanceled, watching, sent, toMain>>
          /\ \/ UNCHANGED toExt
             \/ toExt' = Append(toExt, [type |-> "initSession",
                                        session |-> m[1]])
             \/ toExt' = Append(toExt, [type |-> "releaseSession",
                                        session |-> m[1]])
        BY Zenon, <1>2 DEF ModelStep, initializeSessionAgent,
                           initializeSessionDone, initializeSessionFails
    <2> QED
        BY SMTT(30), <1>1, <2>1, CancelQuiet
<1>3. CASE sendRequestRejected(m) \/ _sendRequestAsync(m)
                \/ invokeAgentCall(m) \/ initResponseRejects(m)
    BY Zenon, <1>1, <1>3, CancelQuiet
    DEF sendRequestRejected, _sendRequestAsync, invokeAgentCall,
        initResponseRejects
<1> QED
    BY <1>2, <1>3, Zenon

\* The first half of $initResponse leaves tokens alone.
LEMMA CancelInitResponseCall ==
    ASSUME TypeOK, CancelInv, initResponseCall
    PROVE  CancelInv'
<1>1. Head(toMain).session \in Sessions
    BY Zenon, MainHead, MainMsgFields DEF initResponseCall
<1>2. [type |-> "initError", session |-> Head(toMain).session] \in ExtMsg
    BY Zenon, <1>1, ExtMsgTypes
<1> QED
    BY Zenon, <1>2, CancelQuiet DEF initResponseCall

\* A new exchange is registered and pending before its id is sent.
LEMMA CancelInitResponseReturns ==
    ASSUME TypeOK, CancelInv, NEW m \in Models, initResponseReturns(m)
    PROVE  CancelInv'
<1> DEFINE r == Len(responses) + 1
<1>1. r \in Nat /\ r \notin Ids
    BY Zenon, AddResponse DEF initResponseReturns
<1>2. [type |-> "initReply", id |-> r] \in ExtMsg
    BY Zenon, <1>1, ExtMsgTypes
<1>3. registered' = registered \cup {r} /\ pending' = pending \cup {r}
    BY Zenon DEF initResponseReturns, register
<1>4. NamesOnly(toExt, {"initReply"}, registered')
    BY <1>3, NamesMore, Zenon DEF CancelInv, HandlesKnown
<1>5. NamesOnly(toExt', {"initReply"}, registered')
    BY <1>2, <1>3, <1>4, NamesAppend, Zenon
    DEF TypeOK, ChannelTypes, initResponseReturns
<1>6. NamesOnly(toMain', {"cancelExchange", "progress"}, registered')
    BY <1>3, NamesMore, Zenon DEF CancelInv, HandlesKnown, initResponseReturns
<1>7. HandlesKnown'
    BY <1>3, <1>5, <1>6, Zenon DEF CancelInv, HandlesKnown, initResponseReturns
<1>8. CancelOnce'
    BY SMTT(30), <1>1, <1>3 DEF TypeOK, ResponseTypes, CancelInv, CancelOnce,
                      initResponseReturns
<1> QED
    BY Zenon, <1>7, <1>8
    DEF CancelInv, OnlyCancelledTokensResolve, initResponseReturns

\* A chunk names a known response; completing it cancels nothing.
LEMMA CancelProgress ==
    ASSUME TypeOK, CancelInv, handleProgressChunk
    PROVE  CancelInv'
<1> DEFINE r == Head(toMain).id
<1>1. r \in registered
    BY Zenon, NamesHead DEF TypeOK, ChannelTypes, CancelInv, HandlesKnown,
                     handleProgressChunk
<1>2. NamesOnly(toMain', {"cancelExchange", "progress"}, registered)
    BY NamesTail, Zenon DEF TypeOK, ChannelTypes, CancelInv, HandlesKnown,
                     handleProgressChunk
<1>3. canceled' = canceled /\ complete \subseteq complete'
    BY Zenon DEF handleProgressChunk, progressCallback, acceptResponseProgress,
           completeResponse
<1>4. UNCHANGED <<registered, pending, fired, resolved, extCanceled, watching,
                  sent, toExt>>
    BY Zenon DEF handleProgressChunk, tokenVars, mainVars, extVars
<1>5. CancelOnce' /\ OnlyCancelledTokensResolve'
    BY <1>3, <1>4, Zenon DEF CancelInv, CancelOnce, OnlyCancelledTokensResolve
<1>6. HandlesKnown'
    BY Zenon, <1>2, <1>4 DEF CancelInv, HandlesKnown
<1> QED
    BY Zenon, <1>5, <1>6 DEF CancelInv

\* Cancelling pending exchanges moves them from pending to fired.
LEMMA CancelPendingStep ==
    ASSUME TypeOK, CancelInv, NEW R \in SUBSET pending, cancelPending(R),
           UNCHANGED <<registered, toMain, sent, extCanceled>>,
           \/ UNCHANGED toExt
           \/ \E s \in Sessions :
                toExt' = Append(toExt, [type |-> "releaseSession",
                                        session |-> s])
    PROVE  CancelInv'
<1>1. NamesOnly(toExt', {"initReply"}, registered)
    <2>1. CASE UNCHANGED toExt
        BY <2>1, Zenon DEF CancelInv, HandlesKnown
    <2>2. ASSUME NEW s \in Sessions,
                 toExt' = Append(toExt, [type |-> "releaseSession",
                                         session |-> s])
          PROVE  NamesOnly(toExt', {"initReply"}, registered)
        <3>1. [type |-> "releaseSession", session |-> s] \in ExtMsg
            BY Zenon, ExtMsgTypes
        <3> QED
            BY <2>2, <3>1, NamesAppend, Zenon
            DEF TypeOK, ChannelTypes, CancelInv, HandlesKnown
    <2> QED
        BY Zenon, <2>1, <2>2
<1>2. CancelOnce'
    BY Zenon DEF CancelInv, CancelOnce, cancelPending, fireTokens, cancelResponses
<1>3. OnlyCancelledTokensResolve'
    BY Zenon DEF CancelInv, OnlyCancelledTokensResolve, cancelPending, fireTokens
<1>4. HandlesKnown'
    BY <1>1, Zenon DEF CancelInv, HandlesKnown, cancelPending, fireTokens
<1> QED
    BY <1>2, <1>3, <1>4, Zenon DEF CancelInv

\* $cancelExchange names a known response, so it waits for its token.
LEMMA CancelWatch ==
    ASSUME TypeOK, CancelInv, cancelExchangeCall
    PROVE  CancelInv'
<1>1. Head(toMain).id \in registered
    BY NamesHead, Zenon DEF TypeOK, ChannelTypes, CancelInv, HandlesKnown,
                     cancelExchangeCall
<1>2. NamesOnly(toMain', {"cancelExchange", "progress"}, registered)
    BY NamesTail, Zenon DEF TypeOK, ChannelTypes, CancelInv, HandlesKnown,
                     cancelExchangeCall
<1> QED
    BY <1>1, <1>2, Zenon DEF CancelInv, CancelOnce, OnlyCancelledTokensResolve,
                      HandlesKnown, cancelExchangeCall, watchToken

\* The relay of a cancellation concerns tokens that were cancelled.
LEMMA CancelRelay ==
    ASSUME TypeOK, CancelInv, NEW r \in Ids,
           lateCancellationListener(r) \/ cancelExtToken(r)
    PROVE  CancelInv'
BY SMTT(30)
DEF CancelInv, CancelOnce, OnlyCancelledTokensResolve, HandlesKnown,
    lateCancellationListener, cancelExtToken

\* A stream is opened for a registered response only.
LEMMA CancelExtReceives ==
    ASSUME TypeOK, CancelInv, ExtReceives
    PROVE  CancelInv'
<1>1. CASE extInitSession \/ releaseSession \/ invokeAgent \/ initResponseThrows
    BY SMTT(30), <1>1, CancelQuiet
    DEF extInitSession, releaseSession, invokeAgent, initResponseThrows,
        Arrives
<1>2. CASE initResponseStream
    <2> DEFINE r == Head(toExt).id
    <2>1. r \in registered
        BY Zenon, <1>2, NamesHead
        DEF TypeOK, ChannelTypes, CancelInv, HandlesKnown, initResponseStream,
            Arrives
    <2>2. r \in Nat
        BY <2>1 DEF TypeOK, ResponseTypes, Ids
    <2>3. [type |-> "cancelExchange", id |-> r] \in MainMsg
        BY <2>2, MainMsgTypes, Zenon
    <2>4. NamesOnly(toMain', {"cancelExchange", "progress"}, registered)
        BY <1>2, <2>1, <2>3, NamesAppend, Zenon
        DEF TypeOK, ChannelTypes, CancelInv, HandlesKnown, initResponseStream
    <2>5. NamesOnly(toExt', {"initReply"}, registered)
        BY <1>2, NamesTail, Zenon DEF TypeOK, ChannelTypes, CancelInv, HandlesKnown,
                               initResponseStream, Arrives
    <2>6. DOMAIN sent' \subseteq registered
        BY <1>2, <2>1, Zenon DEF CancelInv, HandlesKnown, initResponseStream
    <2> QED
        BY Zenon, <1>2, <2>4, <2>5, <2>6
        DEF CancelInv, CancelOnce, OnlyCancelledTokensResolve, HandlesKnown,
            initResponseStream
<1> QED
    BY <1>1, <1>2, Zenon DEF ExtReceives

\* A stream reports for its own, registered response.
LEMMA CancelReport ==
    ASSUME TypeOK, CancelInv, NEW r \in DOMAIN sent,
           close(r) \/ \E kind \in Kinds : report(r, kind)
    PROVE  CancelInv'
<1>1. PICK kind \in Kinds :
        /\ sent' = [sent EXCEPT ![r] = Plus(sent[r], kind)]
        /\ toMain' = Append(toMain, [type |-> "progress", id |-> r,
                                     kind |-> kind])
    BY Zenon DEF close, report, Kinds
<1>2. DOMAIN sent' = DOMAIN sent /\ r \in registered
    BY <1>1, Zenon DEF TypeOK, ExtTypes, CancelInv, HandlesKnown
<1>3. [type |-> "progress", id |-> r, kind |-> kind] \in MainMsg
    BY MainMsgTypes, Zenon DEF TypeOK, ExtTypes
<1>4. NamesOnly(toMain', {"cancelExchange", "progress"}, registered)
    BY <1>1, <1>2, <1>3, NamesAppend, Zenon
    DEF TypeOK, ChannelTypes, CancelInv, HandlesKnown
<1> QED
    BY Zenon, <1>2, <1>4 DEF CancelInv, CancelOnce, OnlyCancelledTokensResolve,
                      HandlesKnown, close, report

\* Every step keeps CancelInv.
LEMMA CancelStep == TypeOK /\ CancelInv /\ [Next]_vars => CancelInv'
<1> SUFFICES ASSUME TypeOK, CancelInv, [Next]_vars
             PROVE  CancelInv'
    BY Zenon
<1>1. ASSUME NEW s \in Sessions, clearSession(s)
      PROVE  CancelInv'
    BY <1>1, CancelPendingStep, Zenon DEF clearSession
<1>2. ASSUME NEW r \in Ids, cancelExchange(r)
      PROVE  CancelInv'
    BY <1>2, CancelPendingStep, Zenon DEF cancelExchange
<1>3. CASE cancelAllExchangesForSession
    BY <1>3, CancelPendingStep, Zenon DEF cancelAllExchangesForSession
<1>4. CASE MainReceives
    BY <1>4, CancelInitResponseCall, CancelProgress, CancelWatch, Zenon
    DEF MainReceives
<1>5. ASSUME NEW m \in Models, ModelStep(m) \/ AwaitStep(m)
      PROVE  CancelInv'
    BY <1>5, CancelModels, CancelInitResponseReturns, Zenon DEF AwaitStep
<1>6. CASE UNCHANGED vars
    BY SMTT(30), <1>6 DEF CancelInv, CancelOnce, OnlyCancelledTokensResolve,
                HandlesKnown, vars
<1> QED
    BY <1>1, <1>2, <1>3, <1>4, <1>5, <1>6, CancelSessions, CancelExtReceives,
       CancelRelay, CancelReport, Zenon
    DEF Next

\* Initially nothing is registered or sent.
LEMMA CancelInit == Init => CancelInv
<1> SUFFICES ASSUME Init
             PROVE  CancelInv
    OBVIOUS
<1>1. CancelOnce /\ OnlyCancelledTokensResolve
    BY Zenon DEF Init, CancelOnce, OnlyCancelledTokensResolve
<1>2. HandlesKnown
    <2>1. DOMAIN toMain = {} /\ DOMAIN toExt = {} /\ DOMAIN sent = {}
        BY DEF Init
    <2>2. watching \subseteq registered
        BY Zenon DEF Init
    <2> QED
        BY Zenon, <2>1, <2>2 DEF HandlesKnown, NamesOnly
<1> QED
    BY <1>1, <1>2, Zenon DEF CancelInv

\* The three invariants are inductive together.
LEMMA CancelAlways == Spec => []CancelInv
    BY TypeInit, TypeStep, CancelInit, CancelStep, PTL DEF Spec

\* However the two processes interleave, an exchange is cancelled at most once
\* (cancelExchange, _pendingExchanges), and what is canceled is complete.
THEOREM CancelCorrect == Spec => []CancelOnce
<1>1. CancelInv => CancelOnce
    BY Zenon DEF CancelInv
<1> QED
    BY <1>1, CancelAlways, PTL

\* The extension's token is cancelled only after the workbench's: the promise
\* of $cancelExchange does not resolve for another reason.
THEOREM ExtensionFollows == Spec => []OnlyCancelledTokensResolve
<1>1. CancelInv => OnlyCancelledTokensResolve
    BY Zenon DEF CancelInv
<1> QED
    BY <1>1, CancelAlways, PTL

\* No progress chunk and no $cancelExchange call names a response that the main
\* thread has not registered, although both are sent without waiting.
THEOREM HandlesAlwaysKnown == Spec => []HandlesKnown
<1>1. CancelInv => HandlesKnown
    BY Zenon DEF CancelInv
<1> QED
    BY <1>1, CancelAlways, PTL
-----------------------------------------------------------------------------
(* What a step may do to the responses *)

\* The steps of ChatModel on its responses.
ResponseStep ==
    \/ UNCHANGED <<responses, complete, canceled>>
    \/ /\ \E m \in Models :
            responses' = Append(responses, [model |-> m, parts |-> NoParts])
       /\ UNCHANGED <<complete, canceled>>
    \/ \E r \in Ids, kind \in Kinds :
        /\ r \in canceled => kind \in {"stage", "endResponse"}
        /\ acceptResponseProgress(r, kind)
    \/ \E r \in Ids : completeResponse(r)
    \/ \E R \in SUBSET Ids : R \cap canceled = {} /\ cancelResponses(R)

\* progressCallback drops content of a cancelled exchange.
LEMMA ProgressResponseStep ==
    ASSUME TypeOK, CancelInv, handleProgressChunk
    PROVE  ResponseStep
<1> DEFINE r == Head(toMain).id
           kind == Head(toMain).kind
<1>1. kind \in Kinds
    BY Zenon, MainHead, MainMsgFields DEF handleProgressChunk
<1>2. CASE UNCHANGED responseVars
    BY <1>2, Zenon DEF ResponseStep
<1>3. CASE r \in registered /\ progressCallback(r, kind)
    <2> HIDE DEF r, kind
    <2>1. r \in Ids
        BY <1>3, Zenon DEF TypeOK, ResponseTypes
    <2>2. r \in canceled => r \in fired
        BY Zenon DEF CancelInv, CancelOnce
    <2> QED
        BY <1>1, <1>2, <1>3, <2>1, <2>2, Zenon
        DEF progressCallback, allowedProgressWhenCanceling, ResponseStep
<1> QED
    BY Zenon, <1>2, <1>3 DEF handleProgressChunk

\* Every step of the system does one of these to the responses.
LEMMA NextResponseStep ==
    ASSUME TypeOK, CancelInv, [Next]_vars
    PROVE  ResponseStep
<1>1. ASSUME NEW s \in Sessions,
             \/ startSession(s) \/ getOrRestoreSession(s) \/ sendRequest(s)
             \/ initResponse(s)
      PROVE  ResponseStep
    BY <1>1, Zenon DEF startSession, getOrRestoreSession, sendRequest, initResponse,
                ResponseStep
<1>2. ASSUME NEW R \in SUBSET pending, cancelPending(R)
      PROVE  ResponseStep
    <2>1. R \in SUBSET Ids /\ R \cap canceled = {}
        BY Zenon DEF TypeOK, ResponseTypes, CancelInv, CancelOnce
    <2> QED
        BY <1>2, <2>1, Zenon DEF cancelPending, ResponseStep
<1>3. ASSUME NEW s \in Sessions, clearSession(s)
      PROVE  ResponseStep
    BY <1>2, <1>3, Zenon DEF clearSession
<1>4. ASSUME NEW r \in Ids,
             cancelExchange(r) \/ lateCancellationListener(r)
                \/ cancelExtToken(r)
      PROVE  ResponseStep
    <2>1. CASE cancelExchange(r)
        BY <1>2, <2>1, Zenon DEF cancelExchange
    <2>2. CASE lateCancellationListener(r) \/ cancelExtToken(r)
        BY <2>2, Zenon DEF lateCancellationListener, cancelExtToken, ResponseStep
    <2> QED
        BY <1>4, <2>1, <2>2, Zenon
<1>5. CASE cancelAllExchangesForSession
    BY <1>2, <1>5, Zenon DEF cancelAllExchangesForSession
<1>6. ASSUME NEW m \in Models, ModelStep(m) \/ AwaitStep(m)
      PROVE  ResponseStep
    <2>1. CASE ModelStep(m) \/ sendRequestRejected(m) \/ invokeAgentCall(m)
                \/ initResponseRejects(m)
        BY Zenon, <2>1
        DEF ModelStep, invokeAgentCall, initializeSessionAgent,
            initializeSessionDone, initializeSessionFails, sendRequestRejected,
            initResponseRejects, ResponseStep
    <2>2. CASE _sendRequestAsync(m) \/ initResponseReturns(m)
        BY Zenon, <2>2 DEF _sendRequestAsync, initResponseReturns, ResponseStep
    <2> QED
        BY SMTT(30), <1>6, <2>1, <2>2 DEF AwaitStep
<1>7. CASE MainReceives
    <2>1. CASE initResponseCall \/ cancelExchangeCall
        BY Zenon, <2>1 DEF initResponseCall, cancelExchangeCall, ResponseStep
    <2> QED
        BY SMTT(30), <1>7, <2>1, ProgressResponseStep DEF MainReceives
<1>8. CASE ExtReceives
    BY <1>8, Zenon DEF ExtReceives, extInitSession, releaseSession, invokeAgent,
                initResponseStream, initResponseThrows, ResponseStep
<1>9. ASSUME NEW r \in DOMAIN sent,
             close(r) \/ \E kind \in Kinds : report(r, kind)
      PROVE  ResponseStep
    BY Zenon, <1>9 DEF close, report, ResponseStep
<1>10. CASE UNCHANGED vars
    BY <1>10, Zenon DEF vars, ResponseStep
<1> QED
    BY SMTT(30), <1>1, <1>3, <1>4, <1>5, <1>6, <1>7, <1>8, <1>9, <1>10 DEF Next

\* Counting a part of another kind leaves the content alone.
LEMMA PlusOther ==
    ASSUME NEW p \in Parts, NEW kind \in Kinds
    PROVE  Plus(p, kind)["content"] =
                IF kind = "content" THEN p["content"] + 1 ELSE p["content"]
BY Zenon DEF Plus, Parts, Kinds

\* The parts of a response that exists.
LEMMA PartsType ==
    ASSUME TypeOK, NEW r \in Ids
    PROVE  responses[r].parts \in Parts
<1>1. responses[r] \in Response
    BY DEF TypeOK, ResponseTypes, Ids
<1> QED
    BY <1>1, Zenon DEF Response

\* What a step leaves of a canceled response.
LEMMA FrozenStep ==
    ASSUME TypeOK, CancelInv, ResponseStep, NEW r \in fired
    PROVE  /\ responses'[r].parts["content"] = responses[r].parts["content"]
           /\ r \in canceled' \cap complete'
<1>1. r \in Ids /\ r \in canceled /\ r \in complete
    BY Zenon DEF TypeOK, ResponseTypes, CancelInv, CancelOnce
<1>2. CASE UNCHANGED <<responses, complete, canceled>>
    BY <1>1, <1>2, Zenon
<1>3. ASSUME NEW m \in Models,
             responses' = Append(responses, [model |-> m, parts |-> NoParts]),
             UNCHANGED <<complete, canceled>>
      PROVE  /\ responses'[r].parts["content"] = responses[r].parts["content"]
             /\ r \in canceled' \cap complete'
    <2>1. responses'[r] = responses[r]
        BY SMTT(30), <1>1, <1>3 DEF TypeOK, ResponseTypes, Ids
    <2> QED
        BY Zenon, <1>1, <1>3, <2>1
<1>4. ASSUME NEW q \in Ids, NEW kind \in Kinds,
             q \in canceled => kind \in {"stage", "endResponse"},
             acceptResponseProgress(q, kind)
      PROVE  /\ responses'[r].parts["content"] = responses[r].parts["content"]
             /\ r \in canceled' \cap complete'
    <2>1. responses'[r].parts = IF r = q THEN Plus(responses[q].parts, kind)
                                ELSE responses[r].parts
        BY <1>1, <1>4, UpdateResponse, Zenon
    <2>2. r = q => kind # "content"
        BY <1>1, <1>4, Zenon
    <2>3. responses'[r].parts["content"] = responses[r].parts["content"]
        BY <1>1, <2>1, <2>2, PlusOther, PartsType
    <2> QED
        BY <1>1, <1>4, <2>3, Zenon DEF acceptResponseProgress
<1>5. ASSUME NEW q \in Ids, completeResponse(q)
      PROVE  /\ responses'[r].parts["content"] = responses[r].parts["content"]
             /\ r \in canceled' \cap complete'
    BY <1>1, <1>5, Zenon DEF completeResponse
<1>6. ASSUME NEW R \in SUBSET Ids, cancelResponses(R)
      PROVE  /\ responses'[r].parts["content"] = responses[r].parts["content"]
             /\ r \in canceled' \cap complete'
    BY <1>1, <1>6, Zenon DEF cancelResponses
<1> QED
    BY Zenon, <1>2, <1>3, <1>4, <1>5, <1>6 DEF ResponseStep

\* A cancelled exchange never gains content and never reopens, whatever the
\* extension reports on its stream afterwards and whatever was in flight.
THEOREM CancelledStaysFrozen == Spec => CancelledIsFrozen
<1>1. TypeOK /\ CancelInv /\ [Next]_vars =>
        [\A r \in fired :
            /\ responses'[r].parts["content"] = responses[r].parts["content"]
            /\ r \in canceled' \cap complete']_vars
    BY NextResponseStep, FrozenStep, Zenon
<1>2. Spec => [](TypeOK /\ CancelInv)
    BY TypeInit, TypeStep, CancelInit, CancelStep, PTL DEF Spec
<1> QED
    BY <1>1, <1>2, PTL DEF Spec, CancelledIsFrozen

-----------------------------------------------------------------------------
(* ChatExchange implements ExchangeLife *)

Text == [r \in Ids |-> responses[r].parts["content"]]

\* The content of all responses, in order, is a sequence of numbers.
LEMMA TextType ==
    ASSUME TypeOK
    PROVE  Text \in Seq(Nat) /\ DOMAIN Text = Ids /\ Len(Text) = Len(responses)
<1>1. Ids = 1..Len(responses) /\ Len(responses) \in Nat
    BY DEF TypeOK, ResponseTypes, Ids
<1>2. \A r \in Ids : responses[r].parts["content"] \in Nat
    BY PartsType, Zenon DEF Parts, Kinds
<1> QED
    BY <1>1, <1>2 DEF Text

\* A sequence is the function of its elements.
LEMMA SeqIsFunction ==
    ASSUME NEW S, NEW q \in Seq(S)
    PROVE  q = [i \in 1..Len(q) |-> q[i]]
OBVIOUS

\* A new response is an empty text.
LEMMA LifeOpen ==
    ASSUME TypeOK, NEW m \in Models,
           responses' = Append(responses, [model |-> m, parts |-> NoParts])
    PROVE  Text' = Append(Text, 0)
<1>1. /\ responses \in Seq(Response)
      /\ [model |-> m, parts |-> NoParts] \in Response
    BY NewResponseType, Zenon DEF TypeOK, ResponseTypes
<1>2. Ids = 1..Len(responses) /\ Ids' = 1..(Len(responses) + 1)
    BY <1>1 DEF Ids
<1>3. \A r \in Ids : responses'[r] = responses[r]
    BY <1>1, <1>2
<1>4. responses'[Len(responses) + 1].parts["content"] = 0
    BY <1>1 DEF NoParts, Kinds
<1>5. /\ Append(Text, 0) \in Seq(Nat)
      /\ Len(Append(Text, 0)) = Len(responses) + 1
      /\ \A r \in Ids : Append(Text, 0)[r] = Text[r]
      /\ Append(Text, 0)[Len(responses) + 1] = 0
    BY <1>1, <1>2, TextType
<1>6. Append(Text, 0) = [r \in 1..(Len(responses) + 1) |-> Append(Text, 0)[r]]
    BY Zenon, <1>5, SeqIsFunction
<1>7. \A r \in 1..(Len(responses) + 1) :
        responses'[r].parts["content"] = Append(Text, 0)[r]
    <2> SUFFICES ASSUME NEW r \in 1..(Len(responses) + 1)
                 PROVE  responses'[r].parts["content"] = Append(Text, 0)[r]
        BY Zenon
    <2>1. r \in Ids \/ r = Len(responses) + 1
        BY <1>1, <1>2
    <2> QED
        BY <1>3, <1>4, <1>5, <2>1, Zenon DEF Text
<1> HIDE DEF Text
<1>8. Text' = [r \in 1..(Len(responses) + 1) |-> responses'[r].parts["content"]]
    BY <1>2, Zenon DEF Text
<1> QED
    BY <1>6, <1>7, <1>8, Zenon

\* Only content parts change the text.
LEMMA LifeWrite ==
    ASSUME TypeOK, NEW r \in Ids, NEW kind \in Kinds,
           acceptResponseProgress(r, kind)
    PROVE  Text' = IF kind = "content" THEN [Text EXCEPT ![r] = Text[r] + 1]
                                       ELSE Text
<1>1. /\ Ids' = Ids
      /\ \A q \in Ids : responses'[q].parts =
            IF q = r THEN Plus(responses[r].parts, kind)
            ELSE responses[q].parts
    BY SMTT(30), UpdateResponse
<1>2. \A q \in Ids : responses'[q].parts["content"] =
            IF q = r /\ kind = "content" THEN responses[q].parts["content"] + 1
            ELSE responses[q].parts["content"]
    BY <1>1, PartsType, PlusOther
<1> QED
    BY <1>1, <1>2, Zenon DEF Text

\* Every step of the responses is a step of ExchangeLife, or changes nothing
\* that it shows.
LEMMA LifeStep ==
    ASSUME TypeOK, ResponseStep
    PROVE  [Life!LifeNext]_(Life!lifeVars)
<1>1. CASE UNCHANGED <<responses, complete, canceled>>
    BY <1>1, Zenon DEF Life!lifeVars, Ids
<1>2. ASSUME NEW m \in Models,
             responses' = Append(responses, [model |-> m, parts |-> NoParts]),
             UNCHANGED <<complete, canceled>>
      PROVE  Life!LifeNext
    <2>1. Text' = Append(Text, 0)
        BY <1>2, LifeOpen, Zenon
    <2> QED
        BY Zenon, <1>2, <2>1 DEF Text, Life!LifeNext, Life!Open
<1>3. ASSUME NEW r \in Ids, NEW kind \in Kinds,
             r \in canceled => kind \in {"stage", "endResponse"},
             acceptResponseProgress(r, kind)
      PROVE  [Life!LifeNext]_(Life!lifeVars)
    <2>1. Text' = IF kind = "content" THEN [Text EXCEPT ![r] = Text[r] + 1]
                                      ELSE Text
        BY <1>3, LifeWrite, Zenon
    <2>2. CASE kind = "content"
        <3>1. r \notin canceled
            BY <1>3, <2>2, Zenon
        <3>2. Text' = [Text EXCEPT ![r] = Text[r] + 1]
            BY <2>1, <2>2, Zenon
        <3>3. Life!Write(r)
            BY <1>3, <3>1, <3>2, Zenon DEF Text, Life!Write, acceptResponseProgress
        <3>4. r \in DOMAIN Text
            BY Zenon DEF Text
        <3> QED
            BY <3>3, <3>4, Zenon DEF Text, Life!LifeNext
    <2>3. CASE kind # "content"
        BY <1>3, <2>1, <2>3, Zenon DEF Text, Life!lifeVars, acceptResponseProgress
    <2> QED
        BY <2>2, <2>3, Zenon
<1>4. ASSUME NEW r \in Ids, completeResponse(r)
      PROVE  Life!LifeNext
    <2>1. Life!Finish(r)
        BY <1>4, Zenon DEF completeResponse, Life!Finish, Ids
    <2> QED
        BY <2>1, Zenon DEF Life!LifeNext
<1>5. ASSUME NEW R \in SUBSET Ids, R \cap canceled = {}, cancelResponses(R)
      PROVE  Life!LifeNext
    <2>1. Life!Stop(R)
        BY <1>5, Zenon DEF cancelResponses, Life!Stop, Ids
    <2> QED
        BY <2>1, Zenon DEF Life!LifeNext
<1> QED
    BY Zenon, <1>1, <1>2, <1>3, <1>4, <1>5 DEF ResponseStep

\* The two processes with all their messages implement the promise a chat
\* view relies on: content only grows, only while the exchange is not
\* cancelled, and cancelling is final.
THEOREM LifeImplemented == Spec => ImplementsLife
<1>1. Init => Life!LifeInit
    BY DEF Init, Life!LifeInit, Ids
<1>2. TypeOK /\ CancelInv /\ [Next]_vars => [Life!LifeNext]_(Life!lifeVars)
    BY NextResponseStep, LifeStep, Zenon
<1>3. Spec => [](TypeOK /\ CancelInv)
    BY TypeInit, TypeStep, CancelInit, CancelStep, PTL DEF Spec
<1> QED
    BY <1>1, <1>2, <1>3, PTL DEF Spec, ImplementsLife, Life!LifeSpec
-----------------------------------------------------------------------------
(* Live sessions are known to the extension host *)

\* WillKnow of the queue q, where a announces and b releases the session s.
Settled(q, known, s, a, b) ==
    \/ \E i \in DOMAIN q : q[i] = a /\ \A j \in DOMAIN q : j > i => q[j] # b
    \/ s \in known /\ \A j \in DOMAIN q : q[j] # b

\* WillKnow is an instance.
LEMMA WillKnowSettled ==
    ASSUME NEW s
    PROVE  WillKnow(s) <=>
            Settled(toExt, extSessions, s,
                    [type |-> "initSession", session |-> s],
                    [type |-> "releaseSession", session |-> s])
BY Zenon DEF WillKnow, Settled

\* One more message x at the end of q.
LEMMA SettledAppend ==
    ASSUME NEW n \in Nat, NEW q, NEW p, NEW K, NEW s, NEW a, NEW b, NEW x,
           DOMAIN q = 1..n, DOMAIN p = 1..(n + 1), p[n + 1] = x,
           \A i \in 1..n : p[i] = q[i],
           x # b, Settled(q, K, s, a, b) \/ x = a
    PROVE  Settled(p, K, s, a, b)
<1>1. CASE x = a
    BY <1>1 DEF Settled
<1>2. ASSUME NEW i \in 1..n, q[i] = a, \A j \in 1..n : j > i => q[j] # b
      PROVE  Settled(p, K, s, a, b)
    <2>1. i \in DOMAIN p /\ p[i] = a
        BY <1>2
    <2>2. \A j \in DOMAIN p : j > i => p[j] # b
        BY <1>2
    <2> QED
        BY Zenon, <2>1, <2>2 DEF Settled
<1>3. CASE s \in K /\ \A j \in 1..n : q[j] # b
    <2>1. \A j \in DOMAIN p : p[j] # b
        BY <1>3
    <2> QED
        BY Zenon, <1>3, <2>1 DEF Settled
<1> QED
    BY Zenon, <1>1, <1>2, <1>3 DEF Settled

\* The first message of q is handled: K becomes L.
LEMMA SettledTail ==
    ASSUME NEW n \in Nat, NEW q, NEW p, NEW K, NEW L, NEW s, NEW a, NEW b,
           DOMAIN q = 1..(n + 1), DOMAIN p = 1..n,
           \A i \in 1..n : p[i] = q[i + 1],
           q[1] = a => s \in L, s \in K /\ q[1] # b => s \in L,
           Settled(q, K, s, a, b)
    PROVE  Settled(p, L, s, a, b)
<1>1. 1 \in 1..(n + 1) /\ \A j \in 1..n : j + 1 \in 1..(n + 1)
    OBVIOUS
<1>2. CASE s \in K /\ \A j \in 1..(n + 1) : q[j] # b
    <2>1. s \in L /\ \A j \in DOMAIN p : p[j] # b
        BY <1>1, <1>2, Zenon
    <2> QED
        BY Zenon, <2>1 DEF Settled
<1>3. ASSUME q[1] = a, \A j \in 1..(n + 1) : j > 1 => q[j] # b
      PROVE  Settled(p, L, s, a, b)
    <2>1. s \in L /\ \A j \in DOMAIN p : p[j] # b
        BY <1>1, <1>3
    <2> QED
        BY Zenon, <2>1 DEF Settled
<1>4. ASSUME NEW i \in 1..n, q[i + 1] = a,
             \A j \in 1..(n + 1) : j > i + 1 => q[j] # b
      PROVE  Settled(p, L, s, a, b)
    <2>1. i \in DOMAIN p /\ p[i] = a
        BY <1>4, Zenon
    <2>2. \A j \in DOMAIN p : j > i => p[j] # b
        BY <1>1, <1>4
    <2> QED
        BY Zenon, <2>1, <2>2 DEF Settled
<1>5. ASSUME NEW i \in 1..(n + 1), q[i] = a,
             \A j \in 1..(n + 1) : j > i => q[j] # b
      PROVE  Settled(p, L, s, a, b)
    <2>1. CASE i = 1
        BY Zenon, <1>3, <1>5, <2>1
    <2>2. CASE i # 1
        <3>1. i - 1 \in 1..n /\ (i - 1) + 1 = i
            BY <2>2
        <3> QED
            BY Zenon, <1>4, <1>5, <3>1
    <2> QED
        BY Zenon, <2>1, <2>2
<1> QED
    BY Zenon, <1>2, <1>5 DEF Settled

\* Sending anything but a release of s keeps s known; announcing it makes it
\* so.
LEMMA KnowAppend ==
    ASSUME TypeOK, NEW s \in Sessions, NEW x \in ExtMsg,
           x # [type |-> "releaseSession", session |-> s],
           WillKnow(s) \/ x = [type |-> "initSession", session |-> s],
           toExt' = Append(toExt, x), UNCHANGED extSessions
    PROVE  WillKnow(s)'
<1> DEFINE a == [type |-> "initSession", session |-> s]
           b == [type |-> "releaseSession", session |-> s]
           n == Len(toExt)
<1>1. /\ n \in Nat
      /\ DOMAIN toExt = 1..n
      /\ DOMAIN toExt' = 1..(n + 1)
      /\ toExt'[n + 1] = x
      /\ \A i \in 1..n : toExt'[i] = toExt[i]
    BY DEF TypeOK, ChannelTypes
<1>2. x # b /\ (Settled(toExt, extSessions, s, a, b) \/ x = a)
    BY Zenon, WillKnowSettled
<1>3. Settled(toExt', extSessions, s, a, b)
    <2> HIDE DEF a, b, n
    <2> QED
        BY Zenon, <1>1, <1>2, SettledAppend
<1>4. Settled(toExt', extSessions', s, a, b)
    BY Zenon, <1>3
<1> QED
    BY Zenon, <1>4 DEF WillKnow, Settled

\* Handling the next message keeps s known.
LEMMA KnowTail ==
    ASSUME TypeOK, NEW s \in Sessions, WillKnow(s),
           toExt # <<>>, toExt' = Tail(toExt),
           Head(toExt) = [type |-> "initSession", session |-> s]
                => s \in extSessions',
           (/\ s \in extSessions
            /\ Head(toExt) # [type |-> "releaseSession", session |-> s])
                => s \in extSessions'
    PROVE  WillKnow(s)'
<1> DEFINE a == [type |-> "initSession", session |-> s]
           b == [type |-> "releaseSession", session |-> s]
           n == Len(toExt) - 1
<1>1. /\ n \in Nat
      /\ DOMAIN toExt = 1..(n + 1)
      /\ DOMAIN toExt' = 1..n
      /\ toExt[1] = Head(toExt)
      /\ \A i \in 1..n : toExt'[i] = toExt[i + 1]
    BY DEF TypeOK, ChannelTypes
<1>2. /\ toExt[1] = a => s \in extSessions'
      /\ s \in extSessions /\ toExt[1] # b => s \in extSessions'
      /\ Settled(toExt, extSessions, s, a, b)
    BY Zenon, <1>1, WillKnowSettled
<1>3. Settled(toExt', extSessions', s, a, b)
    <2> HIDE DEF a, b, n
    <2> QED
        BY Zenon, <1>1, <1>2, SettledTail
<1> QED
    BY Zenon, <1>3 DEF WillKnow, Settled

\* The current model of s got past initSession.
Announced(s) ==
    /\ s \in live
    /\ initState[ModelOf(s)] \in {"Welcoming", "Initialized"}

\* A model that was just built is not announced yet.
LEMMA KnownStart ==
    ASSUME TypeOK, LiveSessionsKnown, NEW s \in Sessions,
           startSession(s) \/ getOrRestoreSession(s)
    PROVE  LiveSessionsKnown'
<1> SUFFICES ASSUME NEW q \in Sessions, Announced(q)'
             PROVE  WillKnow(q)'
    BY TypeStart, Zenon DEF TypeOK, SessionTypes, LiveSessionsKnown, Announced
<1>1. _startSession(s) /\ UNCHANGED <<toExt, extSessions>>
    BY Zenon DEF startSession, getOrRestoreSession
<1>2. <<s, created[s] + 1>> \in Models
    BY <1>1, BoundsAssumption DEF TypeOK, SessionTypes, Models, _startSession
<1>3. q # s
    <2> SUFFICES ASSUME q = s
                 PROVE  initState'[ModelOf(s)'] = "Initializing"
        BY Zenon DEF Announced
    <2> QED
        BY <1>1, <1>2, Zenon DEF TypeOK, SessionTypes, ModelOf, _startSession
<1>4. Announced(q)
    BY <1>1, <1>2, <1>3 DEF TypeOK, SessionTypes, Announced, ModelOf,
                            _startSession
<1> QED
    BY <1>1, <1>4, Zenon DEF LiveSessionsKnown, Announced, WillKnow

\* Announcing makes the session known; a failure ends the session it
\* releases.
LEMMA KnownModel ==
    ASSUME TypeOK, LiveSessionsKnown, NEW m \in Models, ModelStep(m)
    PROVE  LiveSessionsKnown'
<1> SUFFICES ASSUME NEW q \in Sessions, Announced(q)'
             PROVE  WillKnow(q)'
    BY TypeInitialize, Zenon DEF TypeOK, SessionTypes, LiveSessionsKnown, Announced
<1>1. /\ [type |-> "initSession", session |-> m[1]] \in ExtMsg
      /\ [type |-> "releaseSession", session |-> m[1]] \in ExtMsg
    BY Zenon, ExtMsgTypes, SessionOfModel
<1>2. CASE initializeSessionAgent(m)
    <2>1. Announced(q) \/ q = m[1]
        BY <1>2 DEF TypeOK, SessionTypes, Announced, ModelOf,
                    initializeSessionAgent
    <2> QED
        BY <1>1, <1>2, <2>1, KnowAppend, Zenon
        DEF LiveSessionsKnown, Announced, initializeSessionAgent
<1>3. CASE initializeSessionDone(m)
    <2>1. Announced(q)
        BY SMTT(30), <1>3 DEF TypeOK, SessionTypes, Announced, ModelOf,
                    initializeSessionDone
    <2> QED
        BY Zenon, <1>3, <2>1 DEF LiveSessionsKnown, Announced, WillKnow,
                          initializeSessionDone
<1>4. CASE initializeSessionFails(m)
    <2>1. Announced(q) /\ q # m[1]
        BY SMTT(30), <1>4 DEF TypeOK, SessionTypes, Announced, ModelOf,
                    initializeSessionFails
    <2>2. /\ toExt' = Append(toExt, [type |-> "releaseSession",
                                     session |-> m[1]])
          /\ UNCHANGED extSessions
        BY <1>4, Zenon DEF initializeSessionFails, extVars
    <2>3. [type |-> "releaseSession", session |-> m[1]]
            # [type |-> "releaseSession", session |-> q]
        BY <2>1, Zenon
    <2>4. WillKnow(q)
        BY Zenon, <2>1 DEF LiveSessionsKnown, Announced
    <2> QED
        BY Zenon, <1>1, <2>2, <2>3, <2>4, KnowAppend
<1> QED
    BY <1>2, <1>3, <1>4, Zenon DEF ModelStep

\* clearSession ends the session it releases.
LEMMA KnownClear ==
    ASSUME TypeOK, LiveSessionsKnown, NEW s \in Sessions, clearSession(s)
    PROVE  LiveSessionsKnown'
<1> SUFFICES ASSUME NEW q \in Sessions, Announced(q)'
             PROVE  WillKnow(q)'
    BY SMTT(30), TypeClearSession
    DEF TypeOK, SessionTypes, LiveSessionsKnown, Announced
<1>1. [type |-> "releaseSession", session |-> s] \in ExtMsg
    BY Zenon, ExtMsgTypes
<1>2. Announced(q) /\ q # s
    BY Zenon DEF Announced, ModelOf, clearSession
<1> QED
    BY <1>1, <1>2, KnowAppend, Zenon DEF LiveSessionsKnown, Announced, clearSession

\* A step that starts, initializes and clears no session.
LEMMA KnownOther ==
    ASSUME TypeOK, LiveSessionsKnown, UNCHANGED <<created, live, initState>>,
           \/ UNCHANGED <<toExt, extSessions>>
           \/ /\ UNCHANGED extSessions
              /\ \E x \in ExtMsg : /\ x.type # "releaseSession"
                                   /\ toExt' = Append(toExt, x)
           \/ ExtReceives
    PROVE  LiveSessionsKnown'
<1> SUFFICES ASSUME NEW q \in Sessions, Announced(q)
             PROVE  WillKnow(q)'
    BY Zenon DEF TypeOK, SessionTypes, LiveSessionsKnown, Announced, ModelOf
<1>1. WillKnow(q)
    BY Zenon DEF LiveSessionsKnown, Announced
<1>2. CASE UNCHANGED <<toExt, extSessions>>
    BY <1>1, <1>2, Zenon DEF WillKnow
<1>3. ASSUME UNCHANGED extSessions, NEW x \in ExtMsg,
             x.type # "releaseSession", toExt' = Append(toExt, x)
      PROVE  WillKnow(q)'
    BY <1>1, <1>3, KnowAppend
<1>4. CASE ExtReceives
    <2>1. toExt # <<>> /\ toExt' = Tail(toExt)
        BY Zenon, <1>4
        DEF ExtReceives, extInitSession, releaseSession, invokeAgent,
            initResponseStream, initResponseThrows, Arrives
    <2>2. \/ /\ Head(toExt).type = "initSession"
             /\ extSessions' = extSessions \cup {Head(toExt).session}
          \/ /\ Head(toExt).type = "releaseSession"
             /\ extSessions' = extSessions \ {Head(toExt).session}
          \/ /\ Head(toExt).type \notin {"initSession", "releaseSession"}
             /\ UNCHANGED extSessions
        BY Zenon, <1>4
        DEF ExtReceives, extInitSession, releaseSession, invokeAgent,
            initResponseStream, initResponseThrows, Arrives
    <2>3. Head(toExt).type = "releaseSession" =>
            Head(toExt) = [type |-> "releaseSession",
                           session |-> Head(toExt).session]
        <3>1. Head(toExt) \in ExtMsg
            BY SMTT(30), <2>1 DEF TypeOK, ChannelTypes
        <3> QED
            BY <3>1, Zenon DEF ExtMsg
    <2>4. Head(toExt) = [type |-> "initSession", session |-> q]
                => q \in extSessions'
        <3> SUFFICES ASSUME Head(toExt) = [type |-> "initSession", session |-> q]
                     PROVE  q \in extSessions'
            BY Zenon
        <3>1. Head(toExt).type = "initSession" /\ Head(toExt).session = q
            OBVIOUS
        <3> QED
            BY Zenon, <2>2, <3>1
    <2>5. (/\ q \in extSessions
           /\ Head(toExt) # [type |-> "releaseSession", session |-> q])
                => q \in extSessions'
        BY Zenon, <2>2, <2>3
    <2> QED
        BY SMTT(30), <1>1, <2>1, <2>4, <2>5, KnowTail
<1> QED
    BY <1>2, <1>3, <1>4, Zenon

\* Every step keeps LiveSessionsKnown.
LEMMA KnownStep ==
    TypeOK /\ LiveSessionsKnown /\ [Next]_vars => LiveSessionsKnown'
<1> SUFFICES ASSUME TypeOK, LiveSessionsKnown, [Next]_vars
             PROVE  LiveSessionsKnown'
    OBVIOUS
<1>1. ASSUME NEW s \in Sessions, sendRequest(s) \/ initResponse(s)
      PROVE  LiveSessionsKnown'
    BY <1>1, KnownOther, Zenon DEF sendRequest, initResponse
<1>2. ASSUME NEW m \in Models, AwaitStep(m)
      PROVE  LiveSessionsKnown'
    <2>1. /\ [type |-> "invokeAgent", session |-> m[1]] \in ExtMsg
          /\ [type |-> "initError", session |-> m[1]] \in ExtMsg
        BY Zenon, ExtMsgTypes, SessionOfModel
    <2>2. CASE sendRequestRejected(m) \/ _sendRequestAsync(m)
        BY Zenon, <2>2, KnownOther DEF sendRequestRejected, _sendRequestAsync
    <2>3. CASE invokeAgentCall(m)
        <3>1. /\ UNCHANGED <<created, live, initState>>
              /\ UNCHANGED extSessions
              /\ toExt' = Append(toExt, [type |-> "invokeAgent", session |-> m[1]])
            BY <2>3, Zenon DEF invokeAgentCall, sessionVars, extVars
        <3>2. [type |-> "invokeAgent", session |-> m[1]].type # "releaseSession"
            BY Zenon
        <3> QED
            BY Zenon, <2>1, <3>1, <3>2, KnownOther
    <2>4. CASE initResponseReturns(m)
        <3>1. [type |-> "initReply", id |-> Len(responses) + 1] \in ExtMsg
            BY Zenon, <2>4, AddResponse, ExtMsgTypes DEF initResponseReturns
        <3> QED
            BY Zenon, <2>4, <3>1, KnownOther DEF initResponseReturns
    <2>5. CASE initResponseRejects(m)
        BY <2>1, <2>5, KnownOther, Zenon DEF initResponseRejects
    <2> QED
        BY SMTT(30), <1>2, <2>2, <2>3, <2>4, <2>5 DEF AwaitStep
<1>3. CASE MainReceives
    <2>1. CASE initResponseCall
        <3>1. Head(toMain).session \in Sessions
            BY <2>1, MainHead, MainMsgFields, Zenon DEF initResponseCall
        <3>2. [type |-> "initError", session |-> Head(toMain).session] \in ExtMsg
            BY Zenon, <3>1, ExtMsgTypes
        <3>3. /\ UNCHANGED <<created, live, initState>>
              /\ UNCHANGED extSessions
              /\ \/ UNCHANGED toExt
                 \/ toExt' = Append(toExt, [type |-> "initError",
                                           session |-> Head(toMain).session])
            BY <2>1, Zenon DEF initResponseCall, sessionVars, extVars
        <3>4. [type |-> "initError", session |-> Head(toMain).session].type
                # "releaseSession"
            BY Zenon
        <3>5. CASE UNCHANGED toExt
            <4>1. UNCHANGED <<toExt, extSessions>>
                BY <3>3, <3>5, Zenon
            <4> QED
                BY Zenon, <3>3, <4>1, KnownOther
        <3>6. CASE toExt' = Append(toExt, [type |-> "initError",
                                          session |-> Head(toMain).session])
            BY Zenon, <3>2, <3>3, <3>4, <3>6, KnownOther
        <3> QED
            BY Zenon, <3>3, <3>5, <3>6
    <2>2. CASE handleProgressChunk \/ cancelExchangeCall
        BY Zenon, <2>2, KnownOther DEF handleProgressChunk, cancelExchangeCall
    <2> QED
        BY SMTT(30), <1>3, <2>1, <2>2 DEF MainReceives
<1>4. CASE ExtReceives
    <2>1. UNCHANGED <<created, live, initState>>
        BY <1>4, Zenon DEF ExtReceives, extInitSession, releaseSession, invokeAgent,
                    initResponseStream, initResponseThrows
    <2> QED
        BY SMTT(30), <1>4, <2>1, KnownOther
<1>5. CASE cancelAllExchangesForSession
    BY SMTT(30), <1>5, KnownOther DEF cancelAllExchangesForSession
<1>6. ASSUME NEW r \in Ids,
             cancelExchange(r) \/ lateCancellationListener(r)
                \/ cancelExtToken(r)
      PROVE  LiveSessionsKnown'
    <2>1. /\ UNCHANGED <<created, live, initState>>
          /\ UNCHANGED <<toExt, extSessions>>
        BY <1>6, Zenon DEF cancelExchange, lateCancellationListener, cancelExtToken,
                    sessionVars, extVars
    <2> QED
        BY Zenon, <2>1, KnownOther
<1>7. ASSUME NEW r \in DOMAIN sent,
             close(r) \/ \E kind \in Kinds : report(r, kind)
      PROVE  LiveSessionsKnown'
    BY Zenon, <1>7, KnownOther DEF close, report
<1>8. CASE UNCHANGED vars
    BY <1>8, KnownOther, Zenon DEF vars
<1> QED
    BY SMTT(30), <1>1, <1>2, <1>3, <1>4, <1>5, <1>6, <1>7, <1>8, KnownStart,
       KnownModel, KnownClear
    DEF Next

\* A session that is live and initialized is one the extension host knows, or
\* will know after the messages under way: no order of clearing, restoring and
\* failing earlier generations leaves it released.
THEOREM LiveSessionsStayKnown == Spec => []LiveSessionsKnown
<1>1. Init => LiveSessionsKnown
    BY Zenon DEF Init, LiveSessionsKnown
<1> QED
    BY <1>1, TypeInit, TypeStep, KnownStep, PTL DEF Spec
=============================================================================
