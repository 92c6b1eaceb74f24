--------------------------- MODULE DeliveryProofs ---------------------------
(***************************************************************************)
(* Proofs that ChatExchange delivers everything exactly once: each         *)
(* response has one cancellation relay, and no part is lost or doubled.    *)
(* Both count the messages of a channel.  A channel changes only at its    *)
(* ends, so two lemmas on counts, one for each end, carry the proofs.      *)
(***************************************************************************)
EXTENDS ChatExchangeProofs, FiniteSetTheorems

USE DEF sessionVars, requestVars, responseVars, tokenVars, mainVars, extVars

-----------------------------------------------------------------------------
(* Counting in a sequence *)

At(q, x) == {i \in DOMAIN q : q[i] = x}

Count(q, x) == Cardinality(At(q, x))

\* A message is in a channel finitely often.
LEMMA CountType ==
    ASSUME NEW S, NEW q \in Seq(S), NEW x
    PROVE  IsFiniteSet(At(q, x)) /\ Count(q, x) \in Nat
<1>1. IsFiniteSet(1 .. Len(q))
    BY FS_Interval
<1>2. At(q, x) \in SUBSET (1 .. Len(q))
    BY DEF At
<1>3. IsFiniteSet(At(q, x))
    BY Zenon, <1>1, <1>2, FS_Subset
<1> QED
    BY Zenon, <1>3, FS_CardinalityType DEF Count

\* Sending a message adds one to its count.
LEMMA CountSent ==
    ASSUME NEW S, NEW q \in Seq(S), NEW y \in S
    PROVE  Count(Append(q, y), y) = Count(q, y) + 1
<1>1. At(Append(q, y), y) = At(q, y) \cup {Len(q) + 1}
    BY DEF At
<1>2. Len(q) + 1 \notin At(q, y)
    BY DEF At
<1>3. IsFiniteSet(At(q, y))
    BY Zenon, CountType
<1>4. Cardinality(At(q, y) \cup {Len(q) + 1}) = Cardinality(At(q, y)) + 1
    BY Zenon, <1>2, <1>3, FS_AddElement
<1> QED
    BY <1>1, <1>4, Zenon DEF Count

\* It leaves the counts of the others.
LEMMA CountNotSent ==
    ASSUME NEW S, NEW q \in Seq(S), NEW y \in S, NEW x, x # y
    PROVE  Count(Append(q, y), x) = Count(q, x)
<1>1. At(Append(q, y), x) = At(q, x)
    BY DEF At
<1> QED
    BY <1>1, Zenon DEF Count

\* What receiving does to counts: positions move down by one.
LEMMA CountTail ==
    ASSUME NEW S, NEW q \in Seq(S), q # <<>>, NEW x
    PROVE  /\ x = Head(q) => Count(q, x) = Count(Tail(q), x) + 1
           /\ x # Head(q) => Count(q, x) = Count(Tail(q), x)
<1> DEFINE A == At(q, x) \ {1}
           B == At(Tail(q), x)
           f == [i \in B |-> i + 1]
<1>1. Tail(q) \in Seq(S) /\ Len(Tail(q)) = Len(q) - 1 /\ Len(q) \in Nat \ {0}
    OBVIOUS
<1>2. \A i \in 1 .. (Len(q) - 1) : Tail(q)[i] = q[i + 1]
    OBVIOUS
<1>3. B = {i \in 1 .. (Len(q) - 1) : q[i + 1] = x}
    BY <1>1, <1>2 DEF At
<1>4. A = {i \in 2 .. Len(q) : q[i] = x}
    BY <1>1 DEF At
<1>5. f \in Bijection(B, A)
    <2> HIDE DEF A, B
    <2>1. f \in [B -> A]
        BY <1>1, <1>3, <1>4
    <2>2. \A i, j \in B : f[i] = f[j] => i = j
        BY <1>1, <1>3
    <2>3. \A a \in A : \E i \in B : f[i] = a
        <3> SUFFICES ASSUME NEW a \in A
                     PROVE  \E i \in B : f[i] = a
            BY Zenon
        <3>1. a - 1 \in B /\ f[a - 1] = a
            BY <1>1, <1>3, <1>4
        <3> QED
            BY <3>1, Zenon
    <2> HIDE DEF f
    <2> QED
        BY Zenon, <2>1, <2>2, <2>3
        DEF Bijection, Injection, Surjection, IsInjective
<1>6. IsFiniteSet(At(q, x)) /\ IsFiniteSet(B) /\ Cardinality(B) \in Nat
    BY Zenon, <1>1, CountType DEF Count
<1>7. Cardinality(A) = Cardinality(B)
    BY Zenon, <1>5, <1>6, FS_Bijection DEF ExistsBijection
<1>8. 1 \in At(q, x) <=> x = Head(q)
    BY <1>1 DEF At
<1>9. Cardinality(A) = IF 1 \in At(q, x) THEN Cardinality(At(q, x)) - 1
                       ELSE Cardinality(At(q, x))
    BY Zenon, <1>6, FS_RemoveElement
<1>10. Cardinality(At(q, x)) \in Nat
    BY Zenon, CountType DEF Count
<1> QED
    BY <1>6, <1>7, <1>8, <1>9, <1>10 DEF Count

\* Receiving a message takes one from its count.
LEMMA CountReceived ==
    ASSUME NEW S, NEW q \in Seq(S), q # <<>>
    PROVE  Count(q, Head(q)) = Count(Tail(q), Head(q)) + 1
BY Zenon, CountTail

\* It leaves the counts of the others.
LEMMA CountNotReceived ==
    ASSUME NEW S, NEW q \in Seq(S), q # <<>>, NEW x, x # Head(q)
    PROVE  Count(q, x) = Count(Tail(q), x)
BY Zenon, CountTail

\* A message that is nowhere in a channel.
LEMMA CountNone ==
    ASSUME NEW q, NEW x, \A i \in DOMAIN q : q[i] # x
    PROVE  Count(q, x) = 0
<1>1. At(q, x) = {}
    BY Zenon DEF At
<1> QED
    BY <1>1, FS_EmptySet, Zenon DEF Count
-----------------------------------------------------------------------------
(* The messages that are counted *)

Reply(r) == [type |-> "initReply", id |-> r]

Call(r) == [type |-> "cancelExchange", id |-> r]

Chunk(r, kind) == [type |-> "progress", id |-> r, kind |-> kind]

\* A message to the main thread is what its fields say.
LEMMA MainMsgIs ==
    ASSUME NEW x \in MainMsg, NEW r
    PROVE  /\ x = Call(r) <=> x.type = "cancelExchange" /\ x.id = r
           /\ \A kind : x = Chunk(r, kind) <=>
                /\ x.type = "progress"
                /\ x.id = r
                /\ x.kind = kind
<1>1. CASE x \in [type: {"initResponse"}, session: Sessions]
    BY <1>1 DEF Call, Chunk
<1>2. CASE x \in [type: {"cancelExchange"}, id: Nat]
    BY <1>2 DEF Call, Chunk
<1>3. CASE x \in [type: {"progress"}, id: Nat, kind: Kinds]
    BY <1>3 DEF Call, Chunk
<1> QED
    BY <1>1, <1>2, <1>3, Zenon DEF MainMsg

\* The chunk that a message is.
LEMMA ChunkIs ==
    ASSUME NEW x \in MainMsg, x.type = "progress"
    PROVE  \A r, k : Chunk(r, k) = x <=> r = x.id /\ k = x.kind
<1> TAKE r, k
<1>1. \A kind : x = Chunk(r, kind) <=> /\ x.type = "progress"
                                       /\ x.id = r
                                       /\ x.kind = kind
    BY Zenon, MainMsgIs
<1> QED
    BY Zenon, <1>1

\* So is a message to the extension host.
LEMMA ExtMsgIs ==
    ASSUME NEW x \in ExtMsg, NEW r
    PROVE  x = Reply(r) <=> x.type = "initReply" /\ x.id = r
BY DEF ExtMsg, Reply

\* The positions of ChatExchange are counted here.
LEMMA Positions ==
    ASSUME TypeOK, NEW r
    PROVE  /\ Cardinality(Replying(r)) = Count(toExt, Reply(r))
           /\ Cardinality(Calling(r)) = Count(toMain, Call(r))
           /\ \A kind : Cardinality(InFlight(r, kind)) =
                            Count(toMain, Chunk(r, kind))
<1>1. /\ \A i \in DOMAIN toMain : toMain[i] \in MainMsg
      /\ \A i \in DOMAIN toExt : toExt[i] \in ExtMsg
    BY DEF TypeOK, ChannelTypes
<1>2. Replying(r) = At(toExt, Reply(r))
    BY <1>1, ExtMsgIs, Zenon DEF Replying, At
<1>3. Calling(r) = At(toMain, Call(r))
    BY <1>1, MainMsgIs DEF Calling, At
<1>4. ASSUME NEW kind
      PROVE  InFlight(r, kind) = At(toMain, Chunk(r, kind))
    BY SMTT(30), <1>1, MainMsgIs DEF InFlight, At
<1> QED
    BY <1>2, <1>3, <1>4, Zenon DEF Count

-----------------------------------------------------------------------------
(* Steps that carry nothing that is counted *)

\* The channel to the extension host gains or loses no reply.
ExtQuiet ==
    \/ UNCHANGED toExt
    \/ /\ toExt # <<>>
       /\ Head(toExt).type # "initReply"
       /\ toExt' = Tail(toExt)
    \/ \E x \in ExtMsg : x.type # "initReply" /\ toExt' = Append(toExt, x)

\* The channel to the main thread gains or loses neither call nor chunk.
MainQuiet ==
    \/ UNCHANGED toMain
    \/ /\ toMain # <<>>
       /\ Head(toMain).type = "initResponse"
       /\ toMain' = Tail(toMain)
    \/ \E x \in MainMsg : x.type = "initResponse" /\ toMain' = Append(toMain, x)

QuietStep ==
    /\ UNCHANGED <<registered, fired, watching, resolved, extCanceled,
                   responses, sent>>
    /\ MainQuiet
    /\ ExtQuiet

CancelsSome ==
    /\ \E R \in SUBSET pending : cancelPending(R)
    /\ UNCHANGED <<registered, extCanceled, sent, toMain>>
    /\ ExtQuiet

\* The counts of replies stay.
LEMMA RepliesKept ==
    ASSUME TypeOK, ExtQuiet, NEW r
    PROVE  Count(toExt', Reply(r)) = Count(toExt, Reply(r))
<1>1. toExt \in Seq(ExtMsg)
    BY Zenon DEF TypeOK, ChannelTypes
<1>2. CASE UNCHANGED toExt
    BY Zenon, <1>2
<1>3. CASE toExt # <<>> /\ Head(toExt).type # "initReply"
                /\ toExt' = Tail(toExt)
    <2>1. Reply(r) # Head(toExt)
        BY <1>3 DEF Reply
    <2>2. Count(toExt, Reply(r)) = Count(Tail(toExt), Reply(r))
        BY ZenonT(30), <1>1, <1>3, <2>1, CountNotReceived
    <2> QED
        BY Zenon, <1>3, <2>2
<1>4. ASSUME NEW x \in ExtMsg, x.type # "initReply", toExt' = Append(toExt, x)
      PROVE  Count(toExt', Reply(r)) = Count(toExt, Reply(r))
    <2>1. Reply(r) # x
        BY <1>4 DEF Reply
    <2> QED
        BY ZenonT(30), <1>1, <1>4, <2>1, CountNotSent
<1> QED
    BY Zenon, <1>2, <1>3, <1>4 DEF ExtQuiet

\* The count of any message but a call for a response stays.
LEMMA MainKept ==
    ASSUME TypeOK, MainQuiet, NEW y, y.type # "initResponse"
    PROVE  Count(toMain', y) = Count(toMain, y)
<1>1. toMain \in Seq(MainMsg)
    BY Zenon DEF TypeOK, ChannelTypes
<1>2. CASE UNCHANGED toMain
    BY Zenon, <1>2
<1>3. CASE toMain # <<>> /\ Head(toMain).type = "initResponse"
                /\ toMain' = Tail(toMain)
    <2>1. y # Head(toMain)
        BY <1>3, Zenon
    <2>2. Count(toMain, y) = Count(Tail(toMain), y)
        BY ZenonT(30), <1>1, <1>3, <2>1, CountNotReceived
    <2> QED
        BY Zenon, <1>3, <2>2
<1>4. ASSUME NEW x \in MainMsg, x.type = "initResponse",
             toMain' = Append(toMain, x)
      PROVE  Count(toMain', y) = Count(toMain, y)
    <2>1. y # x
        BY <1>4, Zenon
    <2> QED
        BY ZenonT(30), <1>1, <1>4, <2>1, CountNotSent
<1> QED
    BY Zenon, <1>2, <1>3, <1>4 DEF MainQuiet

\* What a step can be to calls, replies and chunks.
CountedStep ==
    \/ QuietStep
    \/ CancelsSome
    \/ \E m \in Models : _sendRequestAsync(m) \/ initResponseReturns(m)
    \/ initResponseStream
    \/ cancelExchangeCall
    \/ handleProgressChunk
    \/ \E r \in Ids : lateCancellationListener(r) \/ cancelExtToken(r)
    \/ \E r \in DOMAIN sent, kind \in Kinds : report(r, kind)
    \/ \E r \in DOMAIN sent : close(r)

\* Every step is one of these.
LEMMA NextCounted ==
    ASSUME TypeOK, [Next]_vars
    PROVE  CountedStep
<1>1. ASSUME NEW s \in Sessions,
             \/ startSession(s) \/ getOrRestoreSession(s) \/ sendRequest(s)
             \/ initResponse(s)
      PROVE  QuietStep
    <2>1. [type |-> "initResponse", session |-> s] \in MainMsg
        BY Zenon, MainMsgTypes
    <2> QED
        BY SMTT(30), <1>1, <2>1
        DEF startSession, getOrRestoreSession, sendRequest, initResponse,
            QuietStep, MainQuiet, ExtQuiet
<1>2. ASSUME NEW m \in Models,
             ModelStep(m) \/ sendRequestRejected(m) \/ invokeAgentCall(m)
                \/ initResponseRejects(m)
      PROVE  QuietStep
    <2>1. /\ [type |-> "initSession", session |-> m[1]] \in ExtMsg
          /\ [type |-> "releaseSession", session |-> m[1]] \in ExtMsg
          /\ [type |-> "invokeAgent", session |-> m[1]] \in ExtMsg
          /\ [type |-> "initError", session |-> m[1]] \in ExtMsg
        BY SMTT(30), ExtMsgTypes, SessionOfModel
    <2>2. /\ UNCHANGED <<registered, fired, watching, resolved, extCanceled,
                         responses, sent, toMain>>
          /\ \/ UNCHANGED toExt
             \/ \E type \in {"initSession", "releaseSession", "invokeAgent",
                             "initError"} :
                    toExt' = Append(toExt, [type |-> type, session |-> m[1]])
        BY Zenon, <1>2
        DEF ModelStep, initializeSessionAgent, initializeSessionDone,
            initializeSessionFails, sendRequestRejected, invokeAgentCall,
            initResponseRejects
    <2>3. ExtQuiet
        BY SMTT(30), <2>1, <2>2 DEF ExtQuiet
    <2> QED
        BY Zenon, <2>2, <2>3 DEF QuietStep, MainQuiet
<1>3. CASE initResponseCall
    <2>1. Head(toMain).session \in Sessions
        BY Zenon, <1>3, MainHead, MainMsgFields DEF initResponseCall
    <2>2. [type |-> "initError", session |-> Head(toMain).session] \in ExtMsg
        BY Zenon, <2>1, ExtMsgTypes
    <2>3. ExtQuiet
        BY Zenon, <1>3, <2>2 DEF initResponseCall, ExtQuiet
    <2>4. MainQuiet
        BY Zenon, <1>3 DEF initResponseCall, MainQuiet
    <2>5. UNCHANGED <<registered, fired, watching, resolved, extCanceled,
                      responses, sent>>
        BY <1>3, Zenon DEF initResponseCall
    <2> QED
        BY Zenon, <2>3, <2>4, <2>5 DEF QuietStep, CountedStep
<1>4. CASE extInitSession \/ releaseSession \/ invokeAgent \/ initResponseThrows
    <2>1. PICK type \in {"initSession", "releaseSession", "invokeAgent",
                         "initError"} : Arrives(type)
        BY Zenon, <1>4
        DEF extInitSession, releaseSession, invokeAgent, initResponseThrows
    <2>2. ExtQuiet
        BY <2>1, Zenon DEF Arrives, ExtQuiet
    <2>3. UNCHANGED <<registered, fired, watching, resolved, extCanceled,
                      responses, sent, toMain>>
        BY <1>4, Zenon
        DEF extInitSession, releaseSession, invokeAgent, initResponseThrows
    <2> QED
        BY Zenon, <2>2, <2>3 DEF QuietStep, MainQuiet, CountedStep
<1>5. ASSUME NEW s \in Sessions, clearSession(s)
      PROVE  CancelsSome
    <2>1. [type |-> "releaseSession", session |-> s] \in ExtMsg
        BY Zenon, ExtMsgTypes
    <2>2. ExtQuiet
        BY Zenon, <1>5, <2>1 DEF clearSession, ExtQuiet
    <2> QED
        BY Zenon, <1>5, <2>2 DEF clearSession, CancelsSome
<1>6. ASSUME NEW r \in Ids, cancelExchange(r)
      PROVE  CancelsSome
    <2>1. {r} \in SUBSET pending
        BY <1>6, Zenon DEF cancelExchange
    <2> QED
        BY Zenon, <1>6, <2>1 DEF cancelExchange, CancelsSome, ExtQuiet
<1>7. CASE cancelAllExchangesForSession
    <2>1. /\ pending \in SUBSET pending
          /\ UNCHANGED <<registered, extCanceled, sent, toMain, toExt>>
        BY <1>7, Zenon DEF cancelAllExchangesForSession
    <2> QED
        BY Zenon, <1>7, <2>1
        DEF cancelAllExchangesForSession, CancelsSome, ExtQuiet, CountedStep
<1>8. CASE UNCHANGED vars
    <2>1. UNCHANGED <<registered, fired, watching, resolved, extCanceled,
                      responses, sent, toMain, toExt>>
        BY <1>8, Zenon DEF vars
    <2> QED
        BY Zenon, <2>1 DEF QuietStep, MainQuiet, ExtQuiet, CountedStep
<1>9. ASSUME NEW m \in Models, ModelStep(m) \/ AwaitStep(m)
      PROVE  CountedStep
    BY Zenon, <1>2, <1>9 DEF AwaitStep, CountedStep
<1>10. CASE MainReceives
    BY Zenon, <1>3, <1>10 DEF MainReceives, CountedStep
<1>11. CASE ExtReceives
    BY Zenon, <1>4, <1>11 DEF ExtReceives, CountedStep
<1> QED
    BY ZenonT(30), <1>1, <1>5, <1>6, <1>7, <1>8, <1>9, <1>10, <1>11 DEF Next, CountedStep
-----------------------------------------------------------------------------
(* One relay per response *)

Bit(r, S) == IF r \in S THEN 1 ELSE 0

Relays(r) ==
    Count(toExt, Reply(r)) + Count(toMain, Call(r)) + Bit(r, watching)
        + Bit(r, resolved) + Bit(r, extCanceled)

RelayInv == \A r \in registered : Relays(r) = 1

\* RelayInv is OneRelay in other words.
LEMMA RelayInvIs == TypeOK /\ RelayInv => OneRelay
<1> SUFFICES ASSUME TypeOK, RelayInv, NEW r \in registered
             PROVE  Cardinality(Replying(r)) + Cardinality(Calling(r))
                        + Cardinality({r} \cap watching)
                        + Cardinality({r} \cap resolved)
                        + Cardinality({r} \cap extCanceled) = 1
    BY Zenon DEF OneRelay
<1>1. ASSUME NEW S
      PROVE  Cardinality({r} \cap S) = Bit(r, S)
    <2>1. CASE r \in S
        <3>1. {r} \cap S = {r}
            BY <2>1, Zenon
        <3> QED
            BY <2>1, <3>1, FS_Singleton, Zenon DEF Bit
    <2>2. CASE r \notin S
        <3>1. {r} \cap S = {}
            BY <2>2, Zenon
        <3> QED
            BY <2>2, <3>1, FS_EmptySet, Zenon DEF Bit
    <2> QED
        BY <2>1, <2>2, Zenon
<1>2. Relays(r) = 1
    BY Zenon DEF RelayInv
<1>3. /\ Cardinality(Replying(r)) = Count(toExt, Reply(r))
      /\ Cardinality(Calling(r)) = Count(toMain, Call(r))
    BY Zenon, Positions
<1> QED
    BY <1>1, <1>2, <1>3, Zenon DEF Relays

\* The counts of a response are natural numbers.
LEMMA RelayTypes ==
    ASSUME TypeOK, NEW r
    PROVE  Count(toExt, Reply(r)) \in Nat /\ Count(toMain, Call(r)) \in Nat
<1>1. toMain \in Seq(MainMsg) /\ toExt \in Seq(ExtMsg)
    BY Zenon DEF TypeOK, ChannelTypes
<1> QED
    BY Zenon, <1>1, CountType

\* A response that was not handed out has no relay.
LEMMA NoRelay ==
    ASSUME TypeOK, CancelInv, NEW r, r \notin registered
    PROVE  /\ Count(toExt, Reply(r)) = 0
           /\ Count(toMain, Call(r)) = 0
           /\ r \notin watching /\ r \notin resolved /\ r \notin extCanceled
<1>1. \A i \in DOMAIN toExt : toExt[i] # Reply(r)
    BY DEF CancelInv, HandlesKnown, NamesOnly, Reply
<1>2. \A i \in DOMAIN toMain : toMain[i] # Call(r)
    BY DEF CancelInv, HandlesKnown, NamesOnly, Call
<1>3. r \notin watching /\ r \notin resolved /\ r \notin extCanceled
    BY Zenon DEF CancelInv, HandlesKnown, CancelOnce, OnlyCancelledTokensResolve
<1> QED
    BY ZenonT(30), <1>1, <1>2, <1>3, CountNone

\* initResponseReturns starts the relay of a response nobody knew.
LEMMA RelayOpens ==
    ASSUME TypeOK, CancelInv, RelayInv, NEW m \in Models,
           initResponseReturns(m)
    PROVE  RelayInv'
<1> DEFINE n == Len(responses) + 1
<1>1. n \in Nat /\ n \notin Ids
    BY Zenon, AddResponse DEF initResponseReturns
<1>2. n \notin registered
    BY <1>1, Zenon DEF TypeOK, ResponseTypes
<1>3. /\ registered' = registered \cup {n}
      /\ toExt' = Append(toExt, Reply(n))
      /\ UNCHANGED <<toMain, watching, resolved, extCanceled>>
    BY Zenon DEF initResponseReturns, register, Reply
<1>4. Reply(n) \in ExtMsg /\ toExt \in Seq(ExtMsg)
    BY <1>1, ExtMsgTypes, Zenon DEF Reply, TypeOK, ChannelTypes
<1> HIDE DEF n
<1>5. /\ Count(toExt', Reply(n)) = Count(toExt, Reply(n)) + 1
      /\ \A r : r # n => Count(toExt', Reply(r)) = Count(toExt, Reply(r))
    <2>2. Count(toExt', Reply(n)) = Count(toExt, Reply(n)) + 1
        BY Zenon, <1>3, <1>4, CountSent
    <2>3. ASSUME NEW r, r # n
          PROVE  Count(toExt', Reply(r)) = Count(toExt, Reply(r))
        <3>1. Reply(r) # Reply(n)
            BY <2>3, Zenon DEF Reply
        <3> QED
            BY ZenonT(30), <1>3, <1>4, <3>1, CountNotSent
    <2> QED
        BY Zenon, <2>2, <2>3
<1>6. ASSUME NEW r, r = n
      PROVE  Relays(r)' = 1
    <2>1. /\ Count(toExt, Reply(n)) = 0
          /\ Count(toMain, Call(n)) = 0
          /\ n \notin watching /\ n \notin resolved /\ n \notin extCanceled
        BY Zenon, <1>2, NoRelay
    <2>2. /\ Count(toExt', Reply(r)) = 1
          /\ Count(toMain', Call(r)) = 0
        BY SMTT(30), <1>3, <1>5, <1>6, <2>1
    <2>3. Bit(r, watching') = 0 /\ Bit(r, resolved') = 0 /\ Bit(r, extCanceled') = 0
        BY <1>3, <1>6, <2>1, Zenon DEF Bit
    <2> QED
        BY <2>2, <2>3 DEF Relays
<1>7. ASSUME NEW r \in registered
      PROVE  Relays(r)' = 1
    <2>1. r # n
        BY <1>2, Zenon
    <2> QED
        BY <1>3, <1>5, <2>1 DEF RelayInv, Relays, Bit
<1>8. ASSUME NEW r \in registered'
      PROVE  Relays(r)' = 1
    BY <1>3, <1>6, <1>7, <1>8, Zenon
<1> QED
    BY Zenon, <1>8 DEF RelayInv

\* initResponseStream takes the reply and sends the call.
LEMMA RelayCalls ==
    ASSUME TypeOK, CancelInv, RelayInv, initResponseStream
    PROVE  RelayInv'
<1> DEFINE n == Head(toExt).id
<1>1. /\ toExt # <<>> /\ toExt' = Tail(toExt)
      /\ Head(toExt).type = "initReply"
      /\ toMain' = Append(toMain, Call(n))
      /\ UNCHANGED <<registered, watching, resolved, extCanceled>>
    BY Zenon DEF initResponseStream, Arrives, Call
<1>2. toMain \in Seq(MainMsg) /\ toExt \in Seq(ExtMsg)
    BY Zenon DEF TypeOK, ChannelTypes
<1>3. Head(toExt) \in ExtMsg
    BY Zenon, <1>1, ExtHead
<1>4. n \in Nat
    BY Zenon, <1>1, <1>3, ExtMsgFields
<1>5. Call(n) \in MainMsg
    BY Zenon, <1>4, MainMsgTypes DEF Call
<1>6. \A r : Reply(r) = Head(toExt) <=> r = n
    BY <1>1, <1>3, ExtMsgIs, Zenon
<1> HIDE DEF n
<1>7. ASSUME NEW r \in registered
      PROVE  Relays(r)' = 1
    <2>1. /\ r = n => Count(toExt, Reply(r)) = Count(toExt', Reply(r)) + 1
          /\ r # n => Count(toExt, Reply(r)) = Count(toExt', Reply(r))
        BY ZenonT(30), <1>1, <1>2, <1>6, CountReceived, CountNotReceived
    <2>2. r # n => Call(r) # Call(n)
        BY Zenon DEF Call
    <2>3. /\ r = n => Count(toMain', Call(r)) = Count(toMain, Call(r)) + 1
          /\ r # n => Count(toMain', Call(r)) = Count(toMain, Call(r))
        BY ZenonT(30), <1>1, <1>2, <1>5, <2>2, CountSent, CountNotSent
    <2>4. Tail(toExt) \in Seq(ExtMsg)
        BY <1>1, <1>2
    <2>5. Count(toExt', Reply(r)) \in Nat
        BY Zenon, <1>1, <2>4, CountType
    <2> QED
        BY <1>1, <2>1, <2>3, <2>5, RelayTypes DEF RelayInv, Relays, Bit
<1> QED
    BY Zenon, <1>1, <1>7 DEF RelayInv

\* $cancelExchange takes the call and waits for the token.
LEMMA RelayWaits ==
    ASSUME TypeOK, CancelInv, RelayInv, cancelExchangeCall
    PROVE  RelayInv'
<1> DEFINE n == Head(toMain).id
<1>1. /\ toMain # <<>> /\ toMain' = Tail(toMain)
      /\ Head(toMain).type = "cancelExchange"
      /\ watchToken(n)
      /\ UNCHANGED <<registered, toExt, extCanceled>>
    BY Zenon DEF cancelExchangeCall
<1>2. toMain \in Seq(MainMsg)
    BY Zenon DEF TypeOK, ChannelTypes
<1>3. Head(toMain) \in MainMsg
    BY Zenon, <1>1, MainHead
<1>4. n \in registered
    BY Zenon, <1>1, <1>2, NamesHead DEF CancelInv, HandlesKnown
<1>5. watching' = watching \cup {n} /\ resolved' = resolved
    BY Zenon, <1>1, <1>4 DEF watchToken
<1>6. \A r : Call(r) = Head(toMain) <=> r = n
    BY <1>1, <1>3, MainMsgIs, Zenon
<1> HIDE DEF n
<1>7. ASSUME NEW r \in registered
      PROVE  Relays(r)' = 1
    <2>1. /\ r = n => Count(toMain, Call(r)) = Count(toMain', Call(r)) + 1
          /\ r # n => Count(toMain, Call(r)) = Count(toMain', Call(r))
        BY ZenonT(30), <1>1, <1>2, <1>6, CountReceived, CountNotReceived
    <2>2. Tail(toMain) \in Seq(MainMsg)
        BY <1>1, <1>2
    <2>3. Count(toMain', Call(r)) \in Nat
        BY Zenon, <1>1, <2>2, CountType
    <2> QED
        BY SMTT(30), <1>1, <1>5, <2>1, <2>3, RelayTypes DEF RelayInv, Relays, Bit
<1> QED
    BY Zenon, <1>1, <1>7 DEF RelayInv

\* Cancelling tokens resolves the promises that wait for them.
LEMMA RelayFires ==
    ASSUME TypeOK, RelayInv, CancelsSome
    PROVE  RelayInv'
<1>1. PICK R \in SUBSET pending : cancelPending(R)
    BY Zenon DEF CancelsSome
<1>2. /\ resolved' = resolved \cup (R \cap watching)
      /\ watching' = watching \ R
    BY Zenon, <1>1 DEF cancelPending, fireTokens
<1>3. UNCHANGED <<registered, extCanceled, toMain>> /\ ExtQuiet
    BY Zenon DEF CancelsSome
<1>4. ASSUME NEW r \in registered
      PROVE  Relays(r)' = 1
    <2>1. Count(toExt', Reply(r)) = Count(toExt, Reply(r))
        BY Zenon, <1>3, RepliesKept
    <2> QED
        BY <1>2, <1>3, <2>1, RelayTypes DEF RelayInv, Relays, Bit
<1> QED
    BY Zenon, <1>3, <1>4 DEF RelayInv

\* The late listener and the reply pass the relay on.
LEMMA RelayMoves ==
    ASSUME TypeOK, RelayInv, NEW n \in Ids,
           lateCancellationListener(n) \/ cancelExtToken(n)
    PROVE  RelayInv'
<1>1. CASE lateCancellationListener(n)
    <2>1. /\ n \in watching
          /\ watching' = watching \ {n}
          /\ resolved' = resolved \cup {n}
          /\ UNCHANGED <<registered, extCanceled, toMain, toExt>>
        BY <1>1, Zenon DEF lateCancellationListener
    <2>2. ASSUME NEW r \in registered
          PROVE  Relays(r)' = 1
        BY <2>1, RelayTypes DEF RelayInv, Relays, Bit
    <2> QED
        BY Zenon, <2>1, <2>2 DEF RelayInv
<1>2. CASE cancelExtToken(n)
    <2>1. /\ n \in resolved
          /\ resolved' = resolved \ {n}
          /\ extCanceled' = extCanceled \cup {n}
          /\ UNCHANGED <<registered, watching, toMain, toExt>>
        BY <1>2, Zenon DEF cancelExtToken
    <2>2. ASSUME NEW r \in registered
          PROVE  Relays(r)' = 1
        BY <2>1, RelayTypes DEF RelayInv, Relays, Bit
    <2> QED
        BY Zenon, <2>1, <2>2 DEF RelayInv
<1> QED
    BY <1>1, <1>2, Zenon

\* A step that leaves the counts of all relays alone.
LEMMA RelaySame ==
    ASSUME RelayInv, UNCHANGED <<registered, watching, resolved, extCanceled>>,
           \A r : /\ Count(toExt', Reply(r)) = Count(toExt, Reply(r))
                  /\ Count(toMain', Call(r)) = Count(toMain, Call(r))
    PROVE  RelayInv'
<1>1. ASSUME NEW r \in registered
      PROVE  Relays(r)' = 1
    BY Zenon DEF RelayInv, Relays, Bit
<1> QED
    BY Zenon, <1>1 DEF RelayInv

\* What close and report have in common.
LEMMA Reports ==
    ASSUME TypeOK, NEW r \in DOMAIN sent,
           close(r) \/ \E kind \in Kinds : report(r, kind)
    PROVE  \E kind \in Kinds :
            /\ sent' = [sent EXCEPT ![r] = Plus(sent[r], kind)]
            /\ toMain' = Append(toMain, Chunk(r, kind))
            /\ Chunk(r, kind) \in MainMsg
            /\ UNCHANGED <<registered, watching, resolved, extCanceled, fired,
                           responses, toExt>>
<1>1. r \in Nat
    BY Zenon DEF TypeOK, ExtTypes
<1>2. \A kind \in Kinds : Chunk(r, kind) \in MainMsg
    BY Zenon, <1>1, MainMsgTypes DEF Chunk
<1>3. CASE close(r)
    <2>1. "endResponse" \in Kinds
        BY Zenon DEF Kinds
    <2> QED
        BY Zenon, <1>2, <1>3, <2>1 DEF close, Chunk
<1>4. ASSUME NEW kind \in Kinds, report(r, kind)
      PROVE  /\ sent' = [sent EXCEPT ![r] = Plus(sent[r], kind)]
             /\ toMain' = Append(toMain, Chunk(r, kind))
             /\ UNCHANGED <<registered, watching, resolved, extCanceled, fired,
                            responses, toExt>>
    BY Zenon, <1>4 DEF report, Chunk
<1> QED
    BY Zenon, <1>2, <1>3, <1>4

\* Progress is no part of a relay, whether it is sent or received.
LEMMA RelayProgress ==
    ASSUME TypeOK, RelayInv,
           \/ handleProgressChunk
           \/ \E r \in DOMAIN sent, kind \in Kinds : report(r, kind)
           \/ \E r \in DOMAIN sent : close(r)
    PROVE  RelayInv'
<1>1. toMain \in Seq(MainMsg)
    BY Zenon DEF TypeOK, ChannelTypes
<1>2. CASE handleProgressChunk
    <2>1. /\ toMain # <<>> /\ toMain' = Tail(toMain)
          /\ Head(toMain).type = "progress"
          /\ UNCHANGED <<registered, watching, resolved, extCanceled, toExt>>
        BY Zenon, <1>2 DEF handleProgressChunk
    <2>2. \A r : Call(r) # Head(toMain)
        BY <2>1 DEF Call
    <2>3. \A r : Count(toMain', Call(r)) = Count(toMain, Call(r))
        BY Zenon, <1>1, <2>1, <2>2, CountNotReceived
    <2> QED
        BY Zenon, <2>1, <2>3, RelaySame
<1>3. ASSUME NEW q \in DOMAIN sent,
             close(q) \/ \E kind \in Kinds : report(q, kind)
      PROVE  RelayInv'
    <2>1. PICK kind \in Kinds :
            /\ toMain' = Append(toMain, Chunk(q, kind))
            /\ Chunk(q, kind) \in MainMsg
            /\ UNCHANGED <<registered, watching, resolved, extCanceled, toExt>>
        BY Zenon, <1>3, Reports
    <2>2. \A r : Call(r) # Chunk(q, kind)
        <3>1. \A r : Call(r).type = "cancelExchange"
            BY Zenon DEF Call
        <3>2. Chunk(q, kind).type = "progress"
            BY Zenon DEF Chunk
        <3> QED
            BY <3>1, <3>2, Zenon
    <2>3. \A r : Count(toMain', Call(r)) = Count(toMain, Call(r))
        BY ZenonT(30), <1>1, <2>1, <2>2, CountNotSent
    <2> QED
        BY Zenon, <2>1, <2>3, RelaySame
<1> QED
    BY Zenon, <1>2, <1>3

\* Every step keeps RelayInv.
LEMMA RelayStep == TypeOK /\ CancelInv /\ RelayInv /\ [Next]_vars => RelayInv'
<1> SUFFICES ASSUME TypeOK, CancelInv, RelayInv, [Next]_vars
             PROVE  RelayInv'
    BY Zenon
<1>1. CountedStep
    BY Zenon, NextCounted
<1>2. CASE QuietStep
    <2>1. \A r : Count(toExt', Reply(r)) = Count(toExt, Reply(r))
        BY Zenon, <1>2, RepliesKept DEF QuietStep
    <2>2. \A r : Call(r).type # "initResponse"
        BY Zenon DEF Call
    <2>3. \A r : Count(toMain', Call(r)) = Count(toMain, Call(r))
        BY Zenon, <1>2, <2>2, MainKept DEF QuietStep
    <2> QED
        BY ZenonT(30), <1>2, <2>1, <2>3, RelaySame DEF QuietStep
<1>3. ASSUME NEW m \in Models, _sendRequestAsync(m)
      PROVE  RelayInv'
    BY Zenon, <1>3, RelaySame DEF _sendRequestAsync
<1> QED
    BY ZenonT(30), <1>1, <1>2, <1>3, RelayFires, RelayOpens, RelayCalls, RelayWaits,
       RelayMoves, RelayProgress DEF CountedStep

\* Initially no response is handed out.
LEMMA RelayInit == Init => RelayInv
BY Zenon DEF Init, RelayInv

\* A response handed to the extension host has exactly one cancellation relay,
\* wherever in the two processes and their channels it is: no cancellation is
\* lost between them and none is reported twice.
THEOREM OneRelayAlways == Spec => []OneRelay
<1>1. Spec => []RelayInv
    BY RelayInit, RelayStep, TypeInit, TypeStep, CancelInit, CancelStep, PTL
    DEF Spec
<1> QED
    BY <1>1, RelayInvIs, TypeCorrect, PTL
-----------------------------------------------------------------------------
(* Parts *)

\* A stream's response was empty until its reply was taken, once; and chunks
\* come from streams only.
StreamsFresh ==
    /\ \A r \in DOMAIN sent : Count(toExt, Reply(r)) = 0
    /\ NamesOnly(toMain, {"progress"}, DOMAIN sent)
    /\ \A r \in Ids \ DOMAIN sent : responses[r].parts = NoParts

Arrived(r, kind) == responses[r].parts[kind] + Count(toMain, Chunk(r, kind))

PartsCounted ==
    \A r \in DOMAIN sent :
        /\ Arrived(r, "stage") = sent[r]["stage"]
        /\ r \notin fired => Arrived(r, "content") = sent[r]["content"]
        /\ Arrived(r, "content") =< sent[r]["content"]

PartsInv == StreamsFresh /\ PartsCounted

\* PartsCounted is PartsConserved in other words.
LEMMA PartsInvIs == TypeOK /\ PartsInv => PartsConserved
<1> SUFFICES ASSUME TypeOK, PartsInv
             PROVE  PartsConserved
    BY Zenon
<1>1. \A r, kind : Cardinality(InFlight(r, kind)) = Count(toMain, Chunk(r, kind))
    BY Zenon, Positions
<1> QED
    BY <1>1, Zenon DEF PartsInv, PartsCounted, Arrived, PartsConserved

\* A step that leaves parts, streams and chunks alone.
LEMMA PartsSame ==
    ASSUME PartsInv, UNCHANGED <<responses, sent>>, fired \subseteq fired',
           NamesOnly(toMain', {"progress"}, DOMAIN sent),
           \A r : /\ Count(toExt', Reply(r)) = Count(toExt, Reply(r))
                  /\ \A kind : Count(toMain', Chunk(r, kind)) =
                                    Count(toMain, Chunk(r, kind))
    PROVE  PartsInv'
<1>1. StreamsFresh'
    BY Zenon DEF PartsInv, StreamsFresh, Ids
<1>2. PartsCounted'
    <2>1. \A r, kind : Arrived(r, kind)' = Arrived(r, kind)
        BY Zenon DEF Arrived
    <2> QED
        BY <2>1, Zenon DEF PartsInv, PartsCounted
<1> QED
    BY <1>1, <1>2, Zenon DEF PartsInv

\* Calls and replies to the other side carry no parts.
LEMMA PartsQuiet ==
    ASSUME TypeOK, PartsInv, UNCHANGED <<responses, sent>>,
           fired \subseteq fired', MainQuiet, ExtQuiet
    PROVE  PartsInv'
<1>1. \A r : Count(toExt', Reply(r)) = Count(toExt, Reply(r))
    BY Zenon, RepliesKept
<1>2. \A r, kind : Chunk(r, kind).type # "initResponse"
    BY Zenon DEF Chunk
<1>3. \A r, kind : Count(toMain', Chunk(r, kind)) = Count(toMain, Chunk(r, kind))
    BY ZenonT(30), <1>2, MainKept
<1>4. toMain \in Seq(MainMsg) /\ NamesOnly(toMain, {"progress"}, DOMAIN sent)
    BY Zenon DEF TypeOK, ChannelTypes, PartsInv, StreamsFresh
<1>5. NamesOnly(toMain', {"progress"}, DOMAIN sent)
    <2>1. CASE UNCHANGED toMain
        BY ZenonT(30), <1>4, <2>1
    <2>2. CASE toMain # <<>> /\ toMain' = Tail(toMain)
        BY ZenonT(30), <1>4, <2>2, NamesTail
    <2>3. ASSUME NEW x \in MainMsg, x.type = "initResponse",
                 toMain' = Append(toMain, x)
          PROVE  NamesOnly(toMain', {"progress"}, DOMAIN sent)
        <3>1. x.type \notin {"progress"}
            BY <2>3, Zenon
        <3> QED
            BY ZenonT(30), <1>4, <2>3, <3>1, NamesAppend
    <2> QED
        BY ZenonT(30), <2>1, <2>2, <2>3 DEF MainQuiet
<1> QED
    BY ZenonT(30), <1>1, <1>3, <1>5, PartsSame

\* $cancelExchange carries no parts.
LEMMA PartsWatch ==
    ASSUME TypeOK, PartsInv, cancelExchangeCall
    PROVE  PartsInv'
<1>1. /\ toMain # <<>> /\ toMain' = Tail(toMain)
      /\ Head(toMain).type = "cancelExchange"
      /\ UNCHANGED <<responses, sent, fired, toExt>>
    BY Zenon DEF cancelExchangeCall
<1>2. toMain \in Seq(MainMsg) /\ NamesOnly(toMain, {"progress"}, DOMAIN sent)
    BY Zenon DEF TypeOK, ChannelTypes, PartsInv, StreamsFresh
<1>3. NamesOnly(toMain', {"progress"}, DOMAIN sent)
    BY ZenonT(30), <1>1, <1>2, NamesTail
<1>4. \A r, kind : Chunk(r, kind) # Head(toMain)
    <2>1. \A r, kind : Chunk(r, kind).type = "progress"
        BY Zenon DEF Chunk
    <2> QED
        BY <1>1, <2>1, Zenon
<1>5. \A r, kind : Count(toMain', Chunk(r, kind)) = Count(toMain, Chunk(r, kind))
    BY ZenonT(30), <1>1, <1>2, <1>4, CountNotReceived
<1> QED
    BY ZenonT(30), <1>1, <1>3, <1>5, PartsSame

\* A new response is empty and has no stream yet.
LEMMA PartsOpen ==
    ASSUME TypeOK, CancelInv, PartsInv, NEW m \in Models,
           _sendRequestAsync(m) \/ initResponseReturns(m)
    PROVE  PartsInv'
<1> DEFINE n == Len(responses) + 1
<1>1. /\ responses' = Append(responses, [model |-> m, parts |-> NoParts])
      /\ UNCHANGED <<sent, toMain, fired>>
      /\ UNCHANGED toExt \/ toExt' = Append(toExt, Reply(n))
    BY Zenon DEF _sendRequestAsync, initResponseReturns, Reply
<1>2. Ids' = Ids \cup {n} /\ n \in Nat /\ n \notin Ids
    BY ZenonT(30), <1>1, AddResponse
<1>3. /\ \A r \in Ids : responses'[r] = responses[r]
      /\ responses'[n].parts = NoParts
    <2>1. responses \in Seq(Response)
        BY Zenon DEF TypeOK, ResponseTypes
    <2>2. [model |-> m, parts |-> NoParts] \in Response
        BY Zenon, NewResponseType
    <2> QED
        BY SMTT(30), <1>1, <2>1, <2>2 DEF Ids
<1>4. DOMAIN sent \subseteq Ids
    BY Zenon DEF TypeOK, ResponseTypes, CancelInv, HandlesKnown
<1>5. toExt \in Seq(ExtMsg) /\ Reply(n) \in ExtMsg
    BY <1>2, ExtMsgTypes, Zenon DEF TypeOK, ChannelTypes, Reply
<1> HIDE DEF n
<1>6. ASSUME NEW r \in DOMAIN sent
      PROVE  Count(toExt', Reply(r)) = 0
    <2>1. Reply(r) # Reply(n)
        BY <1>2, <1>4, Zenon DEF Reply
    <2>2. Count(toExt, Reply(r)) = 0
        BY Zenon DEF PartsInv, StreamsFresh
    <2>3. Count(Append(toExt, Reply(n)), Reply(r)) = Count(toExt, Reply(r))
        BY ZenonT(30), <1>5, <2>1, CountNotSent
    <2> QED
        BY ZenonT(30), <1>1, <2>2, <2>3
<1>7. StreamsFresh'
    BY ZenonT(30), <1>1, <1>2, <1>3, <1>6 DEF PartsInv, StreamsFresh
<1>8. PartsCounted'
    <2>1. \A r \in DOMAIN sent : \A kind : Arrived(r, kind)' = Arrived(r, kind)
        BY ZenonT(30), <1>1, <1>3, <1>4 DEF Arrived
    <2> QED
        BY <1>1, <2>1, Zenon DEF PartsInv, PartsCounted
<1> QED
    BY <1>7, <1>8, Zenon DEF PartsInv

\* A stream begins with nothing sent, for a response that holds nothing.
LEMMA PartsStream ==
    ASSUME TypeOK, CancelInv, RelayInv, PartsInv, initResponseStream
    PROVE  PartsInv'
<1> DEFINE n == Head(toExt).id
<1>1. /\ toExt # <<>> /\ toExt' = Tail(toExt)
      /\ Head(toExt).type = "initReply"
      /\ toMain' = Append(toMain, Call(n))
      /\ sent' = [q \in DOMAIN sent \cup {n} |->
                    IF q = n THEN NoParts ELSE sent[q]]
      /\ UNCHANGED <<responses, fired>>
    BY Zenon DEF initResponseStream, Arrives, Call
<1>2. toMain \in Seq(MainMsg) /\ toExt \in Seq(ExtMsg)
    BY Zenon DEF TypeOK, ChannelTypes
<1>3. Head(toExt) \in ExtMsg
    BY Zenon, <1>1, ExtHead
<1>4. n \in registered
    BY ZenonT(30), <1>1, <1>2, NamesHead DEF CancelInv, HandlesKnown
<1>5. n \in Ids /\ n \in Nat
    BY <1>4 DEF TypeOK, ResponseTypes, Ids
<1>6. Call(n) \in MainMsg
    BY ZenonT(30), <1>5, MainMsgTypes DEF Call
<1>7. \A r : Reply(r) = Head(toExt) <=> r = n
    BY <1>1, <1>3, ExtMsgIs, Zenon
<1> HIDE DEF n
<1>8. /\ Count(toExt, Reply(n)) = Count(toExt', Reply(n)) + 1
      /\ \A r : r # n => Count(toExt, Reply(r)) = Count(toExt', Reply(r))
    BY ZenonT(30), <1>1, <1>2, <1>7, CountReceived, CountNotReceived
<1>9. Count(toExt', Reply(n)) = 0 /\ n \notin DOMAIN sent
    <2>1. Tail(toExt) \in Seq(ExtMsg)
        BY <1>1, <1>2
    <2>2. Count(toExt', Reply(n)) \in Nat
        BY ZenonT(30), <1>1, <2>1, CountType
    <2>3. Relays(n) = 1
        BY Zenon, <1>4 DEF RelayInv
    <2>4. Count(toExt, Reply(n)) =< 1
        BY <2>3, RelayTypes DEF Relays, Bit
    <2>5. n \in DOMAIN sent => Count(toExt, Reply(n)) = 0
        BY Zenon DEF PartsInv, StreamsFresh
    <2> QED
        BY SMTT(30), <1>8, <2>2, <2>4, <2>5
<1>10. NamesOnly(toMain', {"progress"}, DOMAIN sent')
    <2>1. NamesOnly(toMain, {"progress"}, DOMAIN sent')
        BY <1>1, NamesMore, Zenon DEF PartsInv, StreamsFresh
    <2>2. Call(n).type \notin {"progress"}
        BY Zenon DEF Call
    <2> QED
        BY ZenonT(30), <1>1, <1>2, <1>6, <2>1, <2>2, NamesAppend
<1>11. \A r, kind : Count(toMain', Chunk(r, kind)) = Count(toMain, Chunk(r, kind))
    <2>1. \A r, kind : Chunk(r, kind) # Call(n)
        <3>1. \A r, kind : Chunk(r, kind).type = "progress"
            BY Zenon DEF Chunk
        <3>2. Call(n).type = "cancelExchange"
            BY Zenon DEF Call
        <3> QED
            BY <3>1, <3>2, Zenon
    <2>2. ASSUME NEW r, NEW kind
          PROVE  Count(toMain', Chunk(r, kind)) = Count(toMain, Chunk(r, kind))
        <3>1. Chunk(r, kind) # Call(n)
            BY ZenonT(30), <2>1
        <3> QED
            BY ZenonT(30), <1>1, <1>2, <1>6, <3>1, CountNotSent
    <2> QED
        BY Zenon, <2>2
<1>12. StreamsFresh'
    <2>1. \A r \in DOMAIN sent' : Count(toExt', Reply(r)) = 0
        BY SMTT(30), <1>1, <1>8, <1>9 DEF PartsInv, StreamsFresh
    <2>2. \A r \in Ids \ DOMAIN sent' : responses[r].parts = NoParts
        BY <1>1, Zenon DEF PartsInv, StreamsFresh
    <2> QED
        BY SMTT(30), <1>1, <1>10, <2>1, <2>2 DEF StreamsFresh, Ids
<1>13. ASSUME NEW r, r = n, NEW kind \in Kinds
       PROVE  Arrived(r, kind)' = 0 /\ sent'[r][kind] = 0
    <2>1. responses[r].parts = NoParts
        BY SMTT(30), <1>5, <1>9, <1>13 DEF PartsInv, StreamsFresh
    <2>2. \A i \in DOMAIN toMain : toMain[i] # Chunk(r, kind)
        BY <1>9, <1>13 DEF PartsInv, StreamsFresh, NamesOnly, Chunk
    <2>3. Count(toMain, Chunk(r, kind)) = 0
        BY Zenon, <2>2, CountNone
    <2>4. Count(toMain', Chunk(r, kind)) = 0 /\ responses'[r].parts = NoParts
        BY ZenonT(30), <1>1, <1>11, <2>1, <2>3
    <2>5. Arrived(r, kind)' = 0
        BY <2>4 DEF Arrived, NoParts
    <2> QED
        BY SMTT(30), <1>1, <1>13, <2>5 DEF NoParts
<1>14. PartsCounted'
    <2>1. ASSUME NEW r \in DOMAIN sent
          PROVE  sent'[r] = sent[r] /\ \A kind : Arrived(r, kind)' = Arrived(r, kind)
        BY SMTT(30), <1>1, <1>9, <1>11 DEF Arrived
    <2>2. "stage" \in Kinds /\ "content" \in Kinds
        BY Zenon DEF Kinds
    <2>3. DOMAIN sent' = DOMAIN sent \cup {n}
        BY <1>1, Zenon
    <2> SUFFICES ASSUME NEW r \in DOMAIN sent'
                 PROVE  /\ Arrived(r, "stage")' = sent'[r]["stage"]
                        /\ r \notin fired' =>
                            Arrived(r, "content")' = sent'[r]["content"]
                        /\ Arrived(r, "content")' =< sent'[r]["content"]
        BY Zenon DEF PartsCounted
    <2>4. CASE r = n
        BY SMTT(30), <1>13, <2>2, <2>4
    <2>5. CASE r \in DOMAIN sent
        BY SMTT(30), <1>1, <2>1, <2>5 DEF PartsInv, PartsCounted
    <2> QED
        BY SMTT(30), <2>3, <2>4, <2>5
<1> QED
    BY <1>12, <1>14, Zenon DEF PartsInv

\* What one more part does to the number of each kind.
LEMMA PlusCounts ==
    ASSUME NEW p \in Parts, NEW kind \in Kinds, NEW k \in Kinds
    PROVE  /\ Plus(p, kind)[k] = IF k = kind THEN p[k] + 1 ELSE p[k]
           /\ p[k] \in Nat
BY Zenon DEF Plus, Parts

\* What is counted of a stream.
LEMMA StreamNumbers ==
    ASSUME TypeOK, CancelInv, NEW r \in DOMAIN sent, NEW k \in Kinds
    PROVE  /\ Count(toMain, Chunk(r, k)) \in Nat
           /\ responses[r].parts[k] \in Nat
           /\ sent[r][k] \in Nat
<1>1. toMain \in Seq(MainMsg) /\ sent[r] \in Parts /\ r \in Ids
    BY Zenon DEF TypeOK, ChannelTypes, ExtTypes, ResponseTypes, CancelInv,
           HandlesKnown
<1>2. Count(toMain, Chunk(r, k)) \in Nat
    BY Zenon, <1>1, CountType
<1>3. responses[r].parts \in Parts
    BY Zenon, <1>1, PartsType
<1> QED
    BY ZenonT(30), <1>1, <1>2, <1>3, PlusCounts

\* A part is counted as sent and as under way.
LEMMA PartsReport ==
    ASSUME TypeOK, CancelInv, PartsInv, NEW n \in DOMAIN sent,
           close(n) \/ \E kind \in Kinds : report(n, kind)
    PROVE  PartsInv'
<1>1. PICK kind \in Kinds :
        /\ sent' = [sent EXCEPT ![n] = Plus(sent[n], kind)]
        /\ toMain' = Append(toMain, Chunk(n, kind))
        /\ Chunk(n, kind) \in MainMsg
        /\ UNCHANGED <<fired, responses, toExt>>
    BY Zenon, Reports
<1>2. toMain \in Seq(MainMsg) /\ sent \in [DOMAIN sent -> Parts]
    BY Zenon DEF TypeOK, ChannelTypes, ExtTypes
<1>3. /\ DOMAIN sent' = DOMAIN sent
      /\ \A r \in DOMAIN sent : sent'[r] = IF r = n THEN Plus(sent[n], kind)
                                           ELSE sent[r]
    BY <1>1, <1>2, Zenon
<1>4. /\ Count(toMain', Chunk(n, kind)) = Count(toMain, Chunk(n, kind)) + 1
      /\ \A r, k : r # n \/ k # kind =>
            Count(toMain', Chunk(r, k)) = Count(toMain, Chunk(r, k))
    <2>2. Count(toMain', Chunk(n, kind)) = Count(toMain, Chunk(n, kind)) + 1
        BY ZenonT(30), <1>1, <1>2, CountSent
    <2>3. ASSUME NEW r, NEW k, r # n \/ k # kind
          PROVE  Count(toMain', Chunk(r, k)) = Count(toMain, Chunk(r, k))
        <3>1. Chunk(r, k) # Chunk(n, kind)
            BY <2>3, Zenon DEF Chunk
        <3> QED
            BY ZenonT(30), <1>1, <1>2, <3>1, CountNotSent
    <2> QED
        BY ZenonT(30), <2>2, <2>3
<1>5. StreamsFresh'
    <2>1. Chunk(n, kind).id \in DOMAIN sent
        BY Zenon DEF Chunk
    <2>2. NamesOnly(toMain', {"progress"}, DOMAIN sent)
        BY ZenonT(30), <1>1, <1>2, <2>1, NamesAppend DEF PartsInv, StreamsFresh
    <2> QED
        BY SMTT(30), <1>1, <1>3, <2>2 DEF PartsInv, StreamsFresh, Ids
<1>6. ASSUME NEW r \in DOMAIN sent, NEW k \in Kinds
      PROVE  \/ /\ Arrived(r, k)' = Arrived(r, k)
                /\ sent'[r][k] = sent[r][k]
             \/ /\ Arrived(r, k)' = responses[r].parts[k]
                                        + (Count(toMain, Chunk(r, k)) + 1)
                /\ sent'[r][k] = sent[r][k] + 1
    <2>1. sent[n] \in Parts
        BY <1>2, Zenon
    <2>2. Plus(sent[n], kind)[k] = IF k = kind THEN sent[n][k] + 1
                                   ELSE sent[n][k]
        BY ZenonT(30), <2>1, PlusCounts
    <2> QED
        BY SMTT(30), <1>1, <1>3, <1>4, <2>2 DEF Arrived
<1>7. PartsCounted'
    <2> SUFFICES ASSUME NEW r \in DOMAIN sent
                 PROVE  /\ Arrived(r, "stage")' = sent'[r]["stage"]
                        /\ r \notin fired =>
                            Arrived(r, "content")' = sent'[r]["content"]
                        /\ Arrived(r, "content")' =< sent'[r]["content"]
        BY <1>1, <1>3, Zenon DEF PartsCounted
    <2>1. "stage" \in Kinds /\ "content" \in Kinds
        BY Zenon DEF Kinds
    <2>2. ASSUME NEW k \in Kinds
          PROVE  /\ Count(toMain, Chunk(r, k)) \in Nat
                 /\ responses[r].parts[k] \in Nat
                 /\ sent[r][k] \in Nat
        BY Zenon, StreamNumbers
    <2>3. /\ Arrived(r, "stage") = sent[r]["stage"]
          /\ r \notin fired => Arrived(r, "content") = sent[r]["content"]
          /\ Arrived(r, "content") =< sent[r]["content"]
        BY Zenon DEF PartsInv, PartsCounted
    <2>4. Arrived(r, "stage")' = sent'[r]["stage"]
        BY SMTT(30), <1>6, <2>1, <2>2, <2>3 DEF Arrived
    <2>5. /\ r \notin fired => Arrived(r, "content")' = sent'[r]["content"]
          /\ Arrived(r, "content")' =< sent'[r]["content"]
        BY SMTT(30), <1>6, <2>1, <2>2, <2>3 DEF Arrived
    <2> QED
        BY Zenon, <2>4, <2>5
<1> QED
    BY <1>5, <1>7, Zenon DEF PartsInv

\* A chunk that arrives becomes a part; only content of a cancelled exchange is
\* dropped.
LEMMA PartsProgress ==
    ASSUME TypeOK, CancelInv, PartsInv, handleProgressChunk
    PROVE  PartsInv'
<1> DEFINE n == Head(toMain).id
           kind == Head(toMain).kind
<1>1. /\ toMain # <<>> /\ toMain' = Tail(toMain)
      /\ Head(toMain).type = "progress"
      /\ n \in registered => progressCallback(n, kind)
      /\ UNCHANGED <<sent, fired, toExt>>
    BY ZenonT(30), Zenon DEF handleProgressChunk
<1>2. toMain \in Seq(MainMsg) /\ NamesOnly(toMain, {"progress"}, DOMAIN sent)
    BY Zenon DEF TypeOK, ChannelTypes, PartsInv, StreamsFresh
<1>3. Head(toMain) \in MainMsg
    BY Zenon, <1>1, MainHead
<1>4. kind \in Kinds
    BY ZenonT(30), <1>1, <1>3, MainMsgFields
<1>5. n \in DOMAIN sent
    <2>1. Head(toMain).type \in {"progress"}
        BY SMTT(30), <1>1
    <2> QED
        BY ZenonT(30), <1>1, <1>2, <2>1, NamesHead
<1>6. n \in registered /\ n \in Ids
    BY <1>5, Zenon DEF TypeOK, ResponseTypes, CancelInv, HandlesKnown
<1>7. \A r, k : Chunk(r, k) = Head(toMain) <=> r = n /\ k = kind
    BY ZenonT(30), <1>1, <1>3, ChunkIs
<1> HIDE DEF n, kind
<1>8. /\ Count(toMain, Chunk(n, kind)) = Count(toMain', Chunk(n, kind)) + 1
      /\ \A r, k : r # n \/ k # kind =>
            Count(toMain, Chunk(r, k)) = Count(toMain', Chunk(r, k))
    <2>1. Count(toMain, Chunk(n, kind)) = Count(toMain', Chunk(n, kind)) + 1
        BY ZenonT(30), <1>1, <1>2, <1>7, CountReceived
    <2>2. ASSUME NEW r, NEW k, r # n \/ k # kind
          PROVE  Count(toMain, Chunk(r, k)) = Count(toMain', Chunk(r, k))
        <3>1. Chunk(r, k) # Head(toMain)
            BY <1>7, <2>2
        <3> QED
            BY ZenonT(30), <1>1, <1>2, <3>1, CountNotReceived
    <2> QED
        BY Zenon, <2>1, <2>2
<1>9. \/ UNCHANGED responses /\ n \in fired /\ kind = "content"
      \/ UNCHANGED responses /\ kind = "endResponse"
      \/ acceptResponseProgress(n, kind)
    BY SMTT(30), <1>1, <1>4, <1>6
    DEF progressCallback, completeResponse, allowedProgressWhenCanceling, Kinds
<1>10. /\ Ids' = Ids
       /\ \A r \in Ids : r # n => responses'[r].parts = responses[r].parts
       /\ \/ /\ responses'[n].parts = responses[n].parts
             /\ kind = "endResponse" \/ (kind = "content" /\ n \in fired)
          \/ responses'[n].parts = Plus(responses[n].parts, kind)
    <2>1. CASE UNCHANGED responses
        BY SMTT(30), <1>9, <2>1, <1>4, <1>6, UpdateResponse DEF Ids
    <2>2. CASE acceptResponseProgress(n, kind)
        BY SMTT(30), <1>4, <1>6, <2>2, UpdateResponse
    <2> QED
        BY SMTT(30), <1>9, <2>1, <2>2
<1>11. StreamsFresh'
    <2>1. NamesOnly(toMain', {"progress"}, DOMAIN sent)
        BY ZenonT(30), <1>1, <1>2, NamesTail
    <2>2. \A r \in Ids \ DOMAIN sent : responses'[r].parts = NoParts
        BY <1>5, <1>10, Zenon DEF PartsInv, StreamsFresh
    <2>3. \A r \in DOMAIN sent : Count(toExt', Reply(r)) = 0
        BY Zenon, <1>1 DEF PartsInv, StreamsFresh
    <2> QED
        BY SMTT(30), <1>1, <1>10, <2>1, <2>2, <2>3 DEF StreamsFresh
<1>12. ASSUME NEW r \in DOMAIN sent, NEW k \in {"stage", "content"}
       PROVE  \/ Arrived(r, k)' = Arrived(r, k)
              \/ /\ r \in fired /\ k = "content"
                 /\ Arrived(r, k) = Arrived(r, k)' + 1
    <2>1. k \in Kinds /\ r \in Ids
        BY Zenon DEF Kinds, TypeOK, ResponseTypes, CancelInv, HandlesKnown
    <2>2. Count(toMain, Chunk(r, k)) \in Nat /\ responses[r].parts[k] \in Nat
        BY ZenonT(30), <2>1, StreamNumbers
    <2>3. Count(toMain', Chunk(r, k)) \in Nat
        <3>1. Tail(toMain) \in Seq(MainMsg)
            BY SMTT(30), <1>1, <1>2
        <3> QED
            BY ZenonT(30), <1>1, <3>1, CountType
    <2>4. CASE r # n
        BY SMTT(30), <1>8, <1>10, <2>1, <2>4 DEF Arrived
    <2>5. CASE r = n
        <3>1. responses[n].parts \in Parts
            BY Zenon, <1>6, PartsType
        <3>2. Plus(responses[n].parts, kind)[k] =
                IF k = kind THEN responses[n].parts[k] + 1
                ELSE responses[n].parts[k]
            BY ZenonT(30), <1>4, <2>1, <3>1, PlusCounts
        <3>3. Count(toMain, Chunk(r, k)) =
                IF k = kind THEN Count(toMain', Chunk(r, k)) + 1
                ELSE Count(toMain', Chunk(r, k))
            BY ZenonT(30), <1>8, <2>5
        <3> QED
            BY SMTT(30), <1>10, <2>2, <2>3, <2>5, <3>2, <3>3 DEF Arrived
    <2> QED
        BY SMTT(30), <2>4, <2>5
<1>13. PartsCounted'
    <2> SUFFICES ASSUME NEW r \in DOMAIN sent
                 PROVE  /\ Arrived(r, "stage")' = sent[r]["stage"]
                        /\ r \notin fired =>
                            Arrived(r, "content")' = sent[r]["content"]
                        /\ Arrived(r, "content")' =< sent[r]["content"]
        BY <1>1, Zenon DEF PartsCounted
    <2>1. /\ Arrived(r, "stage")' = Arrived(r, "stage")
          /\ \/ Arrived(r, "content")' = Arrived(r, "content")
             \/ r \in fired /\ Arrived(r, "content") = Arrived(r, "content")' + 1
        BY <1>12, Zenon
    <2>2. Arrived(r, "content")' \in Int
        <3>1. "content" \in Kinds /\ r \in Ids'
            BY <1>10, Zenon DEF Kinds, TypeOK, ResponseTypes, CancelInv, HandlesKnown
        <3>2. Tail(toMain) \in Seq(MainMsg)
            BY <1>1, <1>2
        <3>3. Count(toMain', Chunk(r, "content")) \in Nat
            BY ZenonT(30), <1>1, <3>2, CountType
        <3>4. responses[r].parts \in Parts /\ responses[n].parts \in Parts
            BY ZenonT(30), <1>6, <1>10, <3>1, PartsType
        <3>5. responses'[r].parts \in Parts
            BY SMTT(30), <1>4, <1>10, <3>1, <3>4, PlusType
        <3> QED
            BY SMTT(30), <3>1, <3>3, <3>5 DEF Arrived, Parts
    <2>3. /\ Arrived(r, "stage") = sent[r]["stage"]
          /\ r \notin fired => Arrived(r, "content") = sent[r]["content"]
          /\ Arrived(r, "content") =< sent[r]["content"]
        BY ZenonT(30), Zenon DEF PartsInv, PartsCounted
    <2>4. sent[r]["content"] \in Nat
        BY StreamNumbers, Zenon DEF Kinds
    <2> QED
        BY SMTT(30), <2>1, <2>2, <2>3, <2>4
<1> QED
    BY <1>11, <1>13, Zenon DEF PartsInv

\* Every step keeps PartsInv.
LEMMA PartsStep ==
    TypeOK /\ CancelInv /\ RelayInv /\ PartsInv /\ [Next]_vars => PartsInv'
<1> SUFFICES ASSUME TypeOK, CancelInv, RelayInv, PartsInv, [Next]_vars
             PROVE  PartsInv'
    BY Zenon
<1>1. CountedStep
    BY Zenon, NextCounted
<1>2. CASE QuietStep
    <2>1. fired \subseteq fired'
        BY <1>2, Zenon DEF QuietStep
    <2> QED
        BY ZenonT(30), <1>2, <2>1, PartsQuiet DEF QuietStep
<1>3. CASE CancelsSome
    <2>1. fired \subseteq fired' /\ UNCHANGED responses
        BY <1>3, Zenon DEF CancelsSome, cancelPending, fireTokens, cancelResponses
    <2> QED
        BY ZenonT(30), <1>3, <2>1, PartsQuiet DEF CancelsSome, MainQuiet
<1>4. ASSUME NEW r \in Ids, lateCancellationListener(r) \/ cancelExtToken(r)
      PROVE  PartsInv'
    <2>1. UNCHANGED <<fired, responses, sent, toMain, toExt>>
        BY ZenonT(30), <1>4 DEF lateCancellationListener, cancelExtToken
    <2>2. fired \subseteq fired'
        BY SMTT(30), <2>1
    <2> QED
        BY ZenonT(30), <2>1, <2>2, PartsQuiet DEF MainQuiet, ExtQuiet
<1> QED
    BY ZenonT(30), <1>1, <1>2, <1>3, <1>4, PartsOpen, PartsStream, PartsWatch,
       PartsProgress, PartsReport DEF CountedStep

\* However many sessions, exchanges and streams there are, no part that a stream
\* reported is lost or applied twice, and only content of a cancelled exchange
\* is dropped (progressCallback).
THEOREM PartsAlwaysConserved == Spec => []PartsConserved
<1>1. Init => PartsInv
    <2> SUFFICES ASSUME Init
                 PROVE  PartsInv
        BY Zenon
    <2>1. DOMAIN sent = {} /\ DOMAIN toMain = {} /\ Ids = {}
        BY DEF Init, Ids
    <2> QED
        BY Zenon, <2>1 DEF PartsInv, StreamsFresh, PartsCounted, NamesOnly
<1>2. Spec => []PartsInv
    BY <1>1, PartsStep, RelayInit, RelayStep, TypeInit, TypeStep, CancelInit,
       CancelStep, PTL DEF Spec
<1> QED
    BY <1>2, PartsInvIs, TypeCorrect, PTL
=============================================================================
