-------------------------- MODULE ChatStoreProofs --------------------------
(***************************************************************************)
(* Theorems about ChatStore, for any number of windows and chats: types,   *)
(* that the caches of all windows agree with the stored value when nothing *)
(* is under way, that a workspace keeps what was said in its chats, and    *)
(* that it forgets what was deleted.                                       *)
(***************************************************************************)
EXTENDS ChatStore, TLAPS

\* What the cache of an open window will be when its events have arrived is
\* the stored value, or is itself on its way to the main process.
Fresh(w) ==
    status[w] = "open" /\ ~changed =>
        IF events[w] = <<>>
        THEN \/ cache[w] = main
             \/ pending[w] = {cache[w]}
             \/ pending[w] = {} /\ flushing[w] = {cache[w]}
        ELSE events[w][Len(events[w])] = main

\* The window of a workspace: its cache is its latest write, wherever that is.
Kept(w) ==
    status[w] # "closed" =>
        \/ pending[w] = {cache[w]}
        \/ pending[w] = {} /\ flushing[w] = {cache[w]}
        \/ pending[w] = {} /\ flushing[w] = {} /\ cache[w] = main

Active(w) == status[w] # "closed" \/ flushing[w] # {}

OneActive == \A v, w \in Windows : Active(v) /\ Active(w) => v = w

Converging ==
    /\ \A w \in Windows : status[w] # "open" => events[w] = <<>>
    /\ isEmptyWindow => \A w \in Windows : Fresh(w)
    /\ ~isEmptyWindow =>
        /\ ~changed
        /\ OneActive
        /\ \A w \in Windows : events[w] = <<>> /\ Kept(w)

StoreInv == TypeOK /\ Converging
-----------------------------------------------------------------------------
(* Maps from chats. *)

\* What a member of Maps is.
LEMMA MapsDef ==
    ASSUME NEW E, NEW f \in Maps(E)
    PROVE  DOMAIN f \subseteq Chats /\ f \in [DOMAIN f -> E]
BY Zenon DEF Maps

\* A function on some chats is a member of Maps.
LEMMA MapsIntro ==
    ASSUME NEW E, NEW S \in SUBSET Chats, NEW f \in [S -> E]
    PROVE  f \in Maps(E)
BY Zenon DEF Maps

\* Restrict and Without stay in Maps.
LEMMA RestrictMaps ==
    ASSUME NEW E, NEW f \in Maps(E), NEW S \in SUBSET DOMAIN f
    PROVE  Restrict(f, S) \in Maps(E)
<1>1. Restrict(f, S) \in [S -> E] /\ S \in SUBSET Chats
  BY MapsDef, Zenon DEF Restrict
<1> QED
  BY <1>1, MapsIntro, Zenon

LEMMA WithoutMaps ==
    ASSUME NEW E, NEW f \in Maps(E), NEW S
    PROVE  Without(f, S) \in Maps(E)
<1>1. DOMAIN f \ S \in SUBSET DOMAIN f
  BY Zenon
<1> QED
  BY <1>1, RestrictMaps, Zenon DEF Without

LEMMA NewestMaps ==
    ASSUME NEW E, NEW f \in Maps(E)
    PROVE  newest(f) \in Maps(E)
<1> DEFINE S == {c \in DOMAIN f :
        Cardinality({d \in DOMAIN f : d > c}) < maxPersistedSessions}
<1>1. S \in SUBSET DOMAIN f
  BY Zenon
<1> HIDE DEF S
<1>2. Restrict(f, S) \in Maps(E)
  BY <1>1, RestrictMaps, Zenon
<1> QED
  BY <1>2, Zenon DEF newest, S

\* Over stays in Maps.
LEMMA OverMaps ==
    ASSUME NEW E, NEW f \in Maps(E), NEW g \in Maps(E)
    PROVE  Over(f, g) \in Maps(E)
<1> DEFINE S == DOMAIN f \cup DOMAIN g
<1>1. f \in [DOMAIN f -> E] /\ g \in [DOMAIN g -> E] /\ S \in SUBSET Chats
  BY MapsDef, Zenon
<1>2. Over(f, g) \in [S -> E]
  BY <1>1, Zenon DEF Over
<1> QED
  BY <1>1, <1>2, MapsIntro, Zenon

\* A map of one chat.
LEMMA SingleMaps ==
    ASSUME NEW E, NEW c \in Chats, NEW e \in E
    PROVE  [d \in {c} |-> e] \in Maps(E)
<1>1. [d \in {c} |-> e] \in [{c} -> E] /\ {c} \in SUBSET Chats
  BY Zenon
<1> QED
  BY <1>1, MapsIntro, Zenon

LEMMA NoChatsMaps ==
    ASSUME NEW E
    PROVE  NoChats \in Maps(E)
<1>1. NoChats \in [{} -> E] /\ {} \in SUBSET Chats
  BY Zenon DEF NoChats
<1> QED
  BY <1>1, MapsIntro, Zenon
-----------------------------------------------------------------------------
(* Saving: a save stores a value of the right type and touches no more. *)

LEMMA SyncValues ==
    ASSUME NEW sessions \in Values, NEW stored \in Values
    PROVE  syncEmptyWindowChats(sessions, stored) \in Values
<1> DEFINE updated == {c \in DOMAIN sessions \cap DOMAIN stored :
                        sessions[c].exchanges > stored[c].exchanges}
           added == {c \in DOMAIN sessions \ DOMAIN stored : sessions[c].isNew}
           S == DOMAIN stored \cup added
           f == [c \in S |->
                    IF c \in updated THEN sessions[c]
                    ELSE IF c \in added
                         THEN [sessions[c] EXCEPT !.isNew = FALSE]
                         ELSE stored[c]]
<1>1. /\ sessions \in [DOMAIN sessions -> Entry]
      /\ stored \in [DOMAIN stored -> Entry]
      /\ DOMAIN sessions \subseteq Chats /\ DOMAIN stored \subseteq Chats
  BY MapsDef, Zenon DEF Values
<1>2. \A e \in Entry : [e EXCEPT !.isNew = FALSE] \in Entry
  BY Zenon DEF Entry
<1>3. /\ updated \subseteq DOMAIN sessions
      /\ added \subseteq DOMAIN sessions
      /\ S \in SUBSET Chats
  BY <1>1, Zenon
<1> HIDE DEF updated, added
<1>4. f \in [S -> Entry]
  BY <1>1, <1>2, <1>3, Zenon
<1>5. f \in Values
  BY <1>3, <1>4, MapsIntro, Zenon DEF Values
<1> QED
  BY <1>5, Zenon DEF syncEmptyWindowChats, updated, added

LEMMA LiveValues ==
    ASSUME TypeOK, NEW w \in Windows
    PROVE  liveChats(w) \in Values
<1> DEFINE S == {d \in DOMAIN models[w] : models[w][d] > 0}
<1>1. models[w] \in Maps(0 .. MaxExchanges)
  BY Zenon DEF TypeOK, LiveChats
<1>2. /\ models[w] \in [DOMAIN models[w] -> 0 .. MaxExchanges]
      /\ S \in SUBSET Chats /\ S \subseteq DOMAIN models[w]
  BY <1>1, MapsDef, Zenon
<1> HIDE DEF S
<1>3. [c \in S |-> [exchanges |-> models[w][c], isNew |-> FALSE]]
        \in [S -> Entry]
  BY <1>2, Zenon DEF Entry
<1> QED
  BY <1>2, <1>3, MapsIntro, Zenon DEF liveChats, Values, S

LEMMA SaveStores ==
    ASSUME TypeOK, NEW w \in Windows, NEW sessions \in Values, NEW deleted,
           saveState(w, sessions, deleted)
    PROVE  /\ persisted' \in [Windows -> Values]
           /\ \E value \in Values : set(w, value)
<1> DEFINE stored == Without(cache[w], deleted)
           synced == syncEmptyWindowChats(sessions, stored)
           rest == closedChats(w, sessions)
<1>1. persisted \in [Windows -> Values] /\ cache[w] \in Values
  BY Zenon DEF TypeOK
<1>2. stored \in Values
  BY <1>1, WithoutMaps, Zenon DEF Values
<1>3. synced \in Values
  BY <1>2, SyncValues, Zenon
<1>4. rest \in Values
  <2> DEFINE S == {c \in DOMAIN sessions \ DOMAIN models[w] :
                      sessions[c].exchanges > 0}
  <2>1. S \in SUBSET DOMAIN sessions
    BY Zenon
  <2> HIDE DEF S
  <2> QED
    BY <2>1, RestrictMaps, Zenon DEF closedChats, Values, S
<1>5. /\ newest(Over(liveChats(w), synced)) \in Values
      /\ newest(Over(liveChats(w), rest)) \in Values
  BY <1>3, <1>4, LiveValues, OverMaps, NewestMaps, Zenon DEF Values
<1>6. CASE isEmptyWindow
  <2>1. /\ persisted' = [persisted EXCEPT ![w] = synced]
        /\ set(w, newest(Over(liveChats(w), synced)))
    BY <1>6, Zenon DEF saveState
  <2> QED
    BY <1>1, <1>3, <1>5, <2>1, Zenon
<1>7. CASE ~isEmptyWindow
  <2>1. /\ persisted' = [persisted EXCEPT ![w] = sessions]
        /\ set(w, newest(Over(liveChats(w), rest)))
    BY <1>7, Zenon DEF saveState
  <2> QED
    BY <1>1, <1>5, <2>1, Zenon
<1> QED
  BY <1>6, <1>7, Zenon
-----------------------------------------------------------------------------
(* Types. *)

LEMMA OweTypes ==
    ASSUME TypeOK, NEW f \in LiveChats, NEW S \in SUBSET Chats, Owe(f, S)
    PROVE  owed' \in LiveChats /\ gone' \in SUBSET Chats
BY Zenon DEF TypeOK, Owe, history

LEMMA SetTypes ==
    ASSUME TypeOK, NEW w \in Windows, NEW value \in Values, set(w, value),
           status[w] = "open"
    PROVE  /\ cache' \in [Windows -> Values]
           /\ pending' \in [Windows -> SUBSET Values]
           /\ \A v \in Windows : status[v] = "closed" => pending'[v] = {}
<1>1. CASE cache[w] = value
  BY <1>1, Zenon DEF TypeOK, set
<1>2. CASE cache[w] # value
  <2>1. /\ cache' = [cache EXCEPT ![w] = value]
        /\ pending' = [pending EXCEPT ![w] = {value}]
    BY <1>2, Zenon DEF set
  <2>2. cache' \in [Windows -> Values]
    BY <2>1, Zenon DEF TypeOK
  <2>3. {value} \in SUBSET Values
    BY Zenon
  <2>4. pending' \in [Windows -> SUBSET Values]
    BY <2>1, <2>3, Zenon DEF TypeOK
  <2>5. ASSUME NEW v \in Windows, status[v] = "closed"
        PROVE  pending'[v] = {}
    BY <2>1, <2>5, Zenon DEF TypeOK
  <2> QED
    BY <2>2, <2>4, <2>5, Zenon
<1> QED
  BY <1>1, <1>2, Zenon

\* Steps on the chats of a window.
LEMMA ChatTypes ==
    ASSUME TypeOK, NEW w \in Windows, NEW c \in Chats,
           \/ startSession(w)
           \/ getOrRestoreSession(w, c)
           \/ addRequest(w, c)
           \/ addResponse(w, c)
           \/ clearSession(w, c)
    PROVE  TypeOK'
<1> USE StoreAssumption
<1>1. /\ models[w] \in Maps(0 .. MaxExchanges)
      /\ persisted[w] \in Maps(Entry)
      /\ owed \in Maps(0 .. MaxExchanges)
  BY Zenon DEF TypeOK, LiveChats, Values
<1>2. /\ models[w] \in [DOMAIN models[w] -> 0 .. MaxExchanges]
      /\ persisted[w] \in [DOMAIN persisted[w] -> Entry]
  BY <1>1, MapsDef, Zenon
<1>3. CASE startSession(w)
  <2>1. created' \in 0 .. MaxChats /\ created + 1 \in Chats
    BY <1>3 DEF startSession, TypeOK, Chats
  <2>2. 0 \in 0 .. MaxExchanges
    OBVIOUS
  <2>3. [c_1 \in {created + 1} |-> 0] \in Maps(0 .. MaxExchanges)
    BY <2>1, <2>2, SingleMaps, Zenon
  <2>4. Over([c_1 \in {created + 1} |-> 0], models[w]) \in LiveChats
    BY <1>1, <2>3, OverMaps, Zenon DEF LiveChats
  <2> QED
    BY <1>3, <2>1, <2>4, Zenon DEF startSession, TypeOK, history
<1>4. CASE getOrRestoreSession(w, c)
  <2>1. persisted[w][c].exchanges \in 0 .. MaxExchanges
    BY <1>2, <1>4, Zenon DEF getOrRestoreSession, Entry
  <2>2. [d \in {c} |-> persisted[w][c].exchanges] \in Maps(0 .. MaxExchanges)
    BY <2>1, SingleMaps, Zenon
  <2>3. Over([d \in {c} |-> persisted[w][c].exchanges], models[w])
          \in LiveChats
    BY <1>1, <2>2, OverMaps, Zenon DEF LiveChats
  <2> QED
    BY <1>4, <2>3, Zenon DEF getOrRestoreSession, TypeOK, history
<1>5. ASSUME NEW n \in Nat, addExchanges(w, c, n) PROVE TypeOK'
  <2>1. /\ c \in DOMAIN models[w]
        /\ models[w][c] + n \in 0 .. MaxExchanges
    BY <1>2, <1>5 DEF addExchanges
  <2>2. [models[w] EXCEPT ![c] = models[w][c] + n]
          \in [DOMAIN models[w] -> 0 .. MaxExchanges]
    BY <1>2, <2>1, Zenon
  <2>3. [models[w] EXCEPT ![c] = models[w][c] + n] \in LiveChats
    BY <1>1, <2>2, MapsDef, MapsIntro, Zenon DEF LiveChats
  <2>4. models' =
          [models EXCEPT ![w] = [models[w] EXCEPT ![c] = models[w][c] + n]]
    BY <1>5, Zenon DEF addExchanges, TypeOK
  <2>5. models' \in [Windows -> LiveChats]
    BY <2>3, <2>4, Zenon DEF TypeOK
  <2>6. [d \in {c} |-> models[w][c] + n] \in Maps(0 .. MaxExchanges)
    BY <2>1, SingleMaps, Zenon
  <2>7. Over([d \in {c} |-> models[w][c] + n], owed) \in LiveChats
    BY <1>1, <2>6, OverMaps, Zenon DEF LiveChats
  <2>8. owed' \in LiveChats /\ gone' \in SUBSET Chats
    BY <1>5, <2>7, OweTypes, Zenon DEF addExchanges, TypeOK
  <2> QED
    BY <1>5, <2>5, <2>8, Zenon DEF addExchanges, TypeOK
<1>6. CASE clearSession(w, c)
  <2> DEFINE e == [exchanges |-> models[w][c], isNew |-> TRUE]
  <2>1. e \in Entry
    BY <1>2, <1>6, Zenon DEF clearSession, Entry
  <2>2. Over([d \in {c} |-> e], persisted[w]) \in Values
    BY <1>1, <2>1, SingleMaps, OverMaps, Zenon DEF Values
  <2>3. Without(models[w], {c}) \in LiveChats
    BY <1>1, WithoutMaps, Zenon DEF LiveChats
  <2> QED
    BY <1>6, <2>2, <2>3, Zenon DEF clearSession, TypeOK, history
<1> QED
  BY <1>3, <1>4, <1>5, <1>6, Zenon DEF addRequest, addResponse

\* A save, alone or after deletions, in an open window.
Saves(w) ==
    /\ status[w] = "open"
    /\ \E value \in Values : set(w, value)
    /\ UNCHANGED <<isEmptyWindow, main, changed, status, flushing, events>>

LEMMA SaveTypes ==
    ASSUME TypeOK, NEW w \in Windows, NEW c,
           \/ onWillSaveState(w)
           \/ c \in Chats /\ removeHistoryEntry(w, c)
           \/ clearAllHistoryEntries(w)
    PROVE  TypeOK' /\ Saves(w)
<1> DEFINE closed == DOMAIN persisted[w] \ DOMAIN models[w]
<1>1. /\ persisted[w] \in Values /\ owed \in Maps(0 .. MaxExchanges)
      /\ NoChats \in Values /\ Without(persisted[w], {c}) \in Values
  BY WithoutMaps, NoChatsMaps, Zenon DEF TypeOK, Values, LiveChats
<1>2. closed \in SUBSET Chats
  BY <1>1, MapsDef, Zenon DEF Values
<1>3. /\ Without(owed, {c}) \in LiveChats
      /\ Without(owed, closed) \in LiveChats
  BY <1>1, WithoutMaps, Zenon DEF LiveChats
<1>4. /\ persisted' \in [Windows -> Values]
      /\ \E value \in Values : set(w, value)
      /\ status[w] = "open"
      /\ UNCHANGED <<isEmptyWindow, updates, created, main, changed, status,
                     models, flushing, events>>
  BY <1>1, SaveStores, Zenon
    DEF onWillSaveState, removeHistoryEntry, clearAllHistoryEntries
<1>5. owed' \in LiveChats /\ gone' \in SUBSET Chats
  <2>1. CASE onWillSaveState(w)
    BY <2>1, Zenon DEF onWillSaveState, history, TypeOK
  <2>2. CASE c \in Chats /\ removeHistoryEntry(w, c)
    <3>1. Owe(Without(owed, {c}), gone \cup {c}) /\ gone \cup {c} \in SUBSET Chats
      BY <2>2, Zenon DEF removeHistoryEntry, TypeOK
    <3> QED
      BY <1>3, <3>1, OweTypes, Zenon
  <2>3. CASE clearAllHistoryEntries(w)
    <3>1. /\ Owe(Without(owed, closed), gone \cup closed)
          /\ gone \cup closed \in SUBSET Chats
      BY <1>2, <2>3, Zenon DEF clearAllHistoryEntries, TypeOK
    <3> QED
      BY <1>3, <3>1, OweTypes, Zenon
  <2> QED
    BY <2>1, <2>2, <2>3, Zenon
<1>6. /\ cache' \in [Windows -> Values]
      /\ pending' \in [Windows -> SUBSET Values]
      /\ \A v \in Windows : status[v] = "closed" => pending'[v] = {}
  BY <1>4, SetTypes, Zenon
<1>7. Saves(w)
  BY <1>4, Zenon DEF Saves
<1>8. TypeOK'
  BY <1>4, <1>5, <1>6, Zenon DEF TypeOK
<1> QED
  BY <1>7, <1>8, Zenon

\* The event of the main process.
LEMMA EventTypes ==
    ASSUME TypeOK, onDidChangeStorage
    PROVE  TypeOK'
<1>1. events' \in [Windows -> Seq(Values)]
  BY DEF onDidChangeStorage, TypeOK
<1> QED
  BY <1>1, Zenon DEF onDidChangeStorage, TypeOK, history

\* Steps of a window's storage.
LEMMA StorageTypes ==
    ASSUME TypeOK, NEW w \in Windows,
           \/ flushPending(w)
           \/ \E value \in flushing[w] : updateItems(w, value)
           \/ acceptExternal(w)
    PROVE  TypeOK'
<1>1. CASE flushPending(w)
  <2>1. updates' \in 0 .. MaxSharedUpdates
    BY <1>1, StoreAssumption DEF flushPending, TypeOK
  <2>2. /\ flushing' \in [Windows -> SUBSET Values]
        /\ pending' \in [Windows -> SUBSET Values]
        /\ \A v \in Windows : status[v] = "closed" => pending'[v] = {}
    BY <1>1, Zenon DEF flushPending, TypeOK
  <2> QED
    BY <1>1, <2>1, <2>2, Zenon DEF flushPending, TypeOK, history
<1>2. ASSUME NEW value \in flushing[w], updateItems(w, value) PROVE TypeOK'
  <2>1. main' \in Values /\ flushing' \in [Windows -> SUBSET Values]
    BY <1>2, Zenon DEF updateItems, TypeOK
  <2>2. changed' \in BOOLEAN
    BY <1>2, Zenon DEF updateItems
  <2> QED
    BY <1>2, <2>1, <2>2, Zenon DEF updateItems, TypeOK, history
<1>3. CASE acceptExternal(w)
  <2>1. /\ events[w] \in Seq(Values) /\ events[w] # <<>>
        /\ events' = [events EXCEPT ![w] = Tail(events[w])]
    BY <1>3, Zenon DEF acceptExternal, TypeOK
  <2>2. Head(events[w]) \in Values /\ Tail(events[w]) \in Seq(Values)
    BY <2>1
  <2>3. /\ events' \in [Windows -> Seq(Values)]
        /\ cache' \in [Windows -> Values]
    BY <1>3, <2>1, <2>2 DEF acceptExternal, TypeOK
  <2> QED
    BY <1>3, <2>3, Zenon DEF acceptExternal, TypeOK, history
<1> QED
  BY <1>1, <1>2, <1>3, Zenon

LEMMA ForgetTypes ==
    ASSUME TypeOK, NEW w \in Windows, forget(w)
    PROVE  /\ status' \in [Windows -> {"closed", "open", "closing"}]
           /\ models' \in [Windows -> LiveChats]
           /\ persisted' \in [Windows -> Values]
           /\ cache' \in [Windows -> Values]
           /\ UNCHANGED <<isEmptyWindow, updates, created, main, changed>>
<1>1. NoChats \in LiveChats /\ NoChats \in Values
  BY NoChatsMaps, Zenon DEF LiveChats, Values
<1> QED
  BY <1>1, Zenon DEF forget, TypeOK

\* After a crash only what is left is owed.
LEMMA OweLeftTypes ==
    ASSUME TypeOK, NEW value \in Values, OweLeft(value)
    PROVE  owed' \in LiveChats /\ gone' \in SUBSET Chats
<1> DEFINE f == [c \in DOMAIN value |-> value[c].exchanges]
<1>1. DOMAIN value \in SUBSET Chats /\ value \in [DOMAIN value -> Entry]
  BY MapsDef, Zenon DEF Values
<1>2. f \in [DOMAIN value -> 0 .. MaxExchanges]
  BY <1>1, Zenon DEF Entry
<1>3. f \in LiveChats
  BY <1>1, <1>2, MapsIntro, Zenon DEF LiveChats
<1>4. gone \ DOMAIN value \in SUBSET Chats
  BY Zenon DEF TypeOK
<1> QED
  BY <1>3, <1>4, OweTypes, Zenon DEF OweLeft

\* Windows that open, close and crash.
LEMMA WindowTypes ==
    ASSUME TypeOK, NEW w \in Windows,
           openWindow(w) \/ closeWindow(w) \/ windowGone(w) \/ crash(w)
    PROVE  TypeOK'
<1>1. CASE openWindow(w)
  <2>1. /\ status' \in [Windows -> {"closed", "open", "closing"}]
        /\ cache' \in [Windows -> Values]
        /\ persisted' \in [Windows -> Values]
        /\ \A v \in Windows : status'[v] = "closed" => status[v] = "closed"
    BY <1>1, Zenon DEF openWindow, TypeOK
  <2> QED
    BY <1>1, <2>1, Zenon DEF openWindow, TypeOK, history
<1>2. CASE closeWindow(w)
  <2>1. persisted[w] \in Values /\ status[w] = "open"
    BY <1>2, Zenon DEF closeWindow, TypeOK
  <2>2. /\ persisted' \in [Windows -> Values]
        /\ \E value \in Values : set(w, value)
    BY <1>2, <2>1, SaveStores, Zenon DEF closeWindow
  <2>3. /\ cache' \in [Windows -> Values]
        /\ pending' \in [Windows -> SUBSET Values]
        /\ \A v \in Windows : status[v] = "closed" => pending'[v] = {}
    BY <2>1, <2>2, SetTypes, Zenon
  <2>4. /\ status' \in [Windows -> {"closed", "open", "closing"}]
        /\ \A v \in Windows : status'[v] = "closed" => status[v] = "closed"
    BY <1>2, Zenon DEF closeWindow, TypeOK
  <2>5. <<>> \in Seq(Values)
    OBVIOUS
  <2>6. events' \in [Windows -> Seq(Values)]
    BY <1>2, <2>5, Zenon DEF closeWindow, TypeOK
  <2>7. newest(owed) \in LiveChats /\ Owe(newest(owed), gone)
    BY <1>2, NewestMaps, Zenon DEF closeWindow, TypeOK, LiveChats
  <2>8. owed' \in LiveChats /\ gone' \in SUBSET Chats
    BY <2>7, OweTypes, Zenon DEF TypeOK
  <2> QED
    BY <1>2, <2>2, <2>3, <2>4, <2>6, <2>8, Zenon DEF closeWindow, TypeOK
<1>3. CASE windowGone(w)
  <2>1. \A v \in Windows : status'[v] = "closed" => pending'[v] = {}
    BY <1>3, Zenon DEF windowGone, forget, TypeOK
  <2>2. UNCHANGED <<pending, flushing, events, owed, gone>> /\ forget(w)
    BY <1>3, Zenon DEF windowGone, history
  <2> QED
    BY <2>1, <2>2, ForgetTypes, Zenon DEF TypeOK
<1>4. CASE crash(w)
  <2>1. forget(w) /\ <<>> \in Seq(Values)
    BY <1>4 DEF crash
  <2>2. events' \in [Windows -> Seq(Values)]
    BY <1>4, <2>1, Zenon DEF crash, TypeOK
  <2>3. /\ pending' \in [Windows -> SUBSET Values]
        /\ \A v \in Windows : status'[v] = "closed" => pending'[v] = {}
    BY <1>4, Zenon DEF crash, forget, TypeOK
  <2>4. flushing' \in [Windows -> SUBSET Values]
    BY <1>4, Zenon DEF crash, TypeOK
  <2>5. owed' \in LiveChats /\ gone' \in SUBSET Chats
    <3>1. CASE OweLeft(main)
      BY <3>1, OweLeftTypes, Zenon DEF TypeOK
    <3>2. ASSUME NEW value \in flushing[w], OweLeft(value)
          PROVE  owed' \in LiveChats /\ gone' \in SUBSET Chats
      BY <3>2, OweLeftTypes, Zenon DEF TypeOK
    <3> QED
      BY <1>4, <3>1, <3>2, Zenon DEF crash
  <2> QED
    BY <2>1, <2>2, <2>3, <2>4, <2>5, ForgetTypes, Zenon DEF TypeOK
<1> QED
  BY <1>1, <1>2, <1>3, <1>4, Zenon
-----------------------------------------------------------------------------
(* Convergence. *)

\* Steps that touch no storage keep it.
LEMMA SameConverges ==
    ASSUME Converging,
           UNCHANGED <<isEmptyWindow, main, changed, status, cache, pending,
                       flushing, events>>
    PROVE  Converging'
BY Zenon DEF Converging, Fresh, Kept, OneActive, Active

\* A save puts the cache and the pending write on the same value.
LEMMA SaveConverges ==
    ASSUME TypeOK, Converging, NEW w \in Windows, Saves(w)
    PROVE  Converging'
<1>1. PICK value \in Values : set(w, value)
  BY Zenon DEF Saves
<1>2. CASE cache[w] = value
  <2>1. UNCHANGED <<isEmptyWindow, main, changed, status, cache, pending,
                    flushing, events>>
    BY <1>1, <1>2, Zenon DEF set, Saves
  <2> QED
    BY <2>1, SameConverges, Zenon
<1>3. CASE cache[w] # value
  <2>1. /\ cache' = [cache EXCEPT ![w] = value]
        /\ pending' = [pending EXCEPT ![w] = {value}]
        /\ UNCHANGED <<isEmptyWindow, main, changed, status, flushing, events>>
    BY <1>1, <1>3, Zenon DEF set, Saves
  <2>2. /\ cache'[w] = value /\ pending'[w] = {value}
        /\ \A v \in Windows \ {w} :
              cache'[v] = cache[v] /\ pending'[v] = pending[v]
    BY <2>1, Zenon DEF TypeOK
  <2>3. ASSUME NEW v \in Windows
        PROVE  (Fresh(v) => Fresh(v)') /\ (Kept(v) => Kept(v)')
    <3>1. CASE v = w
      <4>1. pending'[v] = {cache'[v]}
        BY <2>2, <3>1, Zenon
      <4> QED
        BY <2>1, <4>1, Zenon DEF Fresh, Kept
    <3>2. CASE v # w
      BY <2>1, <2>2, <3>2, Zenon DEF Fresh, Kept
    <3> QED
      BY <3>1, <3>2, Zenon
  <2>4. OneActive => OneActive'
    BY <2>1, Zenon DEF OneActive, Active
  <2> QED
    BY <2>1, <2>3, <2>4, Zenon DEF Converging
<1> QED
  BY <1>2, <1>3, Zenon

LEMMA FlushConverges ==
    ASSUME TypeOK, Converging, NEW w \in Windows, flushPending(w)
    PROVE  Converging'
<1>1. /\ flushing[w] = {} /\ pending[w] # {}
      /\ flushing'[w] = pending[w] /\ pending'[w] = {}
      /\ \A v \in Windows \ {w} :
            flushing'[v] = flushing[v] /\ pending'[v] = pending[v]
      /\ UNCHANGED <<isEmptyWindow, main, changed, status, cache, events>>
  BY Zenon DEF flushPending, TypeOK
<1>2. status[w] # "closed"
  BY <1>1, Zenon DEF TypeOK
<1>3. ASSUME NEW v \in Windows
      PROVE  (Fresh(v) => Fresh(v)') /\ (Kept(v) => Kept(v)')
  <2>1. CASE v = w
    BY <1>1, <2>1, Zenon DEF Fresh, Kept
  <2>2. CASE v # w
    BY <1>1, <2>2, Zenon DEF Fresh, Kept
  <2> QED
    BY <2>1, <2>2, Zenon
<1>4. \A v \in Windows : Active(v)' <=> Active(v)
  BY <1>1, <1>2, Zenon DEF Active
<1>5. OneActive => OneActive'
  BY <1>4, Zenon DEF OneActive
<1> QED
  BY <1>1, <1>3, <1>5, Zenon DEF Converging

\* An update that changes the shared value announces an event; one that does
\* not, leaves every window as it is.  In a workspace its window is alone.
LEMMA UpdateConverges ==
    ASSUME TypeOK, Converging, NEW w \in Windows, NEW value \in flushing[w],
           updateItems(w, value)
    PROVE  Converging'
<1>1. /\ flushing'[w] = {} /\ main' = value
      /\ \A v \in Windows \ {w} : flushing'[v] = flushing[v]
      /\ UNCHANGED <<isEmptyWindow, status, cache, pending, events>>
  BY Zenon DEF updateItems, TypeOK
<1>2. CASE isEmptyWindow
  <2>1. ASSUME NEW v \in Windows PROVE Fresh(v)'
    <3>1. CASE changed'
      BY <3>1, Zenon DEF Fresh
    <3>2. CASE ~changed'
      <4>1. ~changed /\ main = value
        BY <1>2, <3>2, Zenon DEF updateItems
      <4>2. Fresh(v)
        BY <1>2, Zenon DEF Converging
      <4>3. CASE v = w
        BY <1>1, <4>1, <4>2, <4>3, Zenon DEF Fresh
      <4>4. CASE v # w
        BY <1>1, <4>1, <4>2, <4>4, Zenon DEF Fresh
      <4> QED
        BY <4>3, <4>4, Zenon
    <3> QED
      BY <3>1, <3>2, Zenon
  <2> QED
    BY <1>1, <1>2, <2>1, Zenon DEF Converging
<1>3. CASE ~isEmptyWindow
  <2>1. ~changed' /\ OneActive
    BY <1>3, Zenon DEF Converging, updateItems
  <2>2. Active(w)
    BY Zenon DEF Active
  <2>3. OneActive'
    BY <1>1, <2>1, Zenon DEF OneActive, Active
  <2>4. ASSUME NEW v \in Windows PROVE Kept(v)'
    <3>1. CASE v = w
      <4>1. Kept(w)
        BY <1>3, Zenon DEF Converging
      <4>2. flushing[w] # {}
        BY Zenon
      <4> QED
        BY <1>1, <3>1, <4>1, <4>2, Zenon DEF Kept
    <3>2. CASE v # w
      <4>1. status[v] = "closed"
        BY <2>1, <2>2, <3>2, Zenon DEF OneActive, Active
      <4> QED
        BY <1>1, <4>1, Zenon DEF Kept
    <3> QED
      BY <3>1, <3>2
  <2> QED
    BY <1>1, <1>3, <2>1, <2>3, <2>4, Zenon DEF Converging
<1> QED
  BY <1>2, <1>3, Zenon

\* The event carries the value of the moment, to all open windows.
LEMMA EventConverges ==
    ASSUME TypeOK, Converging, onDidChangeStorage
    PROVE  Converging'
<1>1. isEmptyWindow /\ isEmptyWindow'
  BY Zenon DEF onDidChangeStorage, Converging
<1>2. UNCHANGED <<main, status, cache, pending, flushing>>
  BY Zenon DEF onDidChangeStorage
<1>3. ASSUME NEW w \in Windows, status[w] = "open"
      PROVE  /\ events'[w] # <<>>
             /\ events'[w][Len(events'[w])] = main
  <2>1. events[w] \in Seq(Values) /\ main \in Values
    BY Zenon DEF TypeOK
  <2>2. events'[w] = Append(events[w], main)
    BY <1>3, Zenon DEF onDidChangeStorage
  <2> QED
    BY <2>1, <2>2
<1>4. \A w \in Windows : status'[w] # "open" => events'[w] = <<>>
  BY <1>2, Zenon DEF onDidChangeStorage, Converging
<1>5. \A w \in Windows : Fresh(w)'
  BY <1>2, <1>3, Zenon DEF Fresh
<1> QED
  BY <1>1, <1>4, <1>5, Zenon DEF Converging

\* The last event under way stays last; when it arrives the cache has it.
LEMMA AcceptConverges ==
    ASSUME TypeOK, Converging, NEW w \in Windows, acceptExternal(w)
    PROVE  Converging'
<1>1. /\ events[w] \in Seq(Values) /\ events[w] # <<>>
      /\ cache'[w] = Head(events[w]) /\ events'[w] = Tail(events[w])
      /\ \A v \in Windows \ {w} :
            cache'[v] = cache[v] /\ events'[v] = events[v]
      /\ UNCHANGED <<isEmptyWindow, main, changed, status, pending, flushing>>
  BY Zenon DEF acceptExternal, TypeOK
<1>2. isEmptyWindow /\ status[w] = "open"
  BY <1>1, Zenon DEF Converging
<1>3. IF Tail(events[w]) = <<>>
      THEN Head(events[w]) = events[w][Len(events[w])]
      ELSE Tail(events[w])[Len(Tail(events[w]))] = events[w][Len(events[w])]
  <2>1. /\ Len(events[w]) \in Nat \ {0}
        /\ Head(events[w]) = events[w][1]
        /\ Len(Tail(events[w])) = Len(events[w]) - 1
        /\ \A i \in 1 .. Len(events[w]) - 1 :
              Tail(events[w])[i] = events[w][i + 1]
    BY <1>1
  <2>2. CASE Tail(events[w]) = <<>>
    <3>1. Len(<<>>) = 0
      BY Zenon
    <3>2. Len(Tail(events[w])) = 0
      BY <2>2, <3>1, Zenon
    <3>3. Len(events[w]) = 1
      BY <2>1, <3>2
    <3> QED
      BY <2>1, <2>2, <3>3, Zenon
  <2>3. CASE Tail(events[w]) # <<>>
    <3>1. Tail(events[w]) \in Seq(Values)
      BY <1>1
    <3>2. Len(events[w]) - 1 \in 1 .. Len(events[w]) - 1
      BY <2>1, <2>3, <3>1
    <3> QED
      BY <2>1, <2>3, <3>2
  <2> QED
    BY <2>2, <2>3, Zenon
<1>4. ASSUME NEW v \in Windows PROVE Fresh(v)'
  <2>1. Fresh(v)
    BY <1>2, Zenon DEF Converging
  <2>2. CASE v = w
    BY <1>1, <1>3, <2>1, <2>2, Zenon DEF Fresh
  <2>3. CASE v # w
    BY <1>1, <2>1, <2>3, Zenon DEF Fresh
  <2> QED
    BY <2>2, <2>3, Zenon
<1>5. \A v \in Windows : status'[v] # "open" => events'[v] = <<>>
  BY <1>1, <1>2, Zenon DEF Converging
<1> QED
  BY <1>1, <1>2, <1>4, <1>5, Zenon DEF Converging

\* A new window has read the stored value.
LEMMA OpenConverges ==
    ASSUME TypeOK, Converging, NEW w \in Windows, openWindow(w)
    PROVE  Converging'
<1>1. /\ status[w] = "closed" /\ flushing[w] = {} /\ pending[w] = {}
      /\ events[w] = <<>>
  BY Zenon DEF openWindow, TypeOK, Converging
<1>2. /\ status'[w] = "open" /\ cache'[w] = main
      /\ \A v \in Windows \ {w} :
            status'[v] = status[v] /\ cache'[v] = cache[v]
      /\ UNCHANGED <<isEmptyWindow, main, changed, pending, flushing, events>>
  BY Zenon DEF openWindow, TypeOK
<1>3. ASSUME NEW v \in Windows
      PROVE  (Fresh(v) => Fresh(v)') /\ (Kept(v) => Kept(v)')
  <2>1. CASE v = w
    BY <1>1, <1>2, <2>1, Zenon DEF Fresh, Kept
  <2>2. CASE v # w
    BY <1>2, <2>2, Zenon DEF Fresh, Kept
  <2> QED
    BY <2>1, <2>2
<1>4. ~isEmptyWindow => OneActive'
  BY <1>2 DEF openWindow, OneActive, Active
<1>5. \A v \in Windows : status'[v] # "open" => events'[v] = <<>>
  BY <1>1, <1>2, Zenon DEF Converging
<1> QED
  BY <1>2, <1>3, <1>4, <1>5, Zenon DEF Converging

\* A closing window takes no event, and its last write is its cache.
LEMMA CloseConverges ==
    ASSUME TypeOK, Converging, NEW w \in Windows, closeWindow(w)
    PROVE  Converging'
<1>1. persisted[w] \in Values /\ status[w] = "open"
  BY Zenon DEF closeWindow, TypeOK
<1>2. PICK value \in Values : set(w, value)
  BY <1>1, SaveStores, Zenon DEF closeWindow
<1>3. /\ \/ cache'[w] = cache[w] /\ pending'[w] = pending[w]
         \/ pending'[w] = {cache'[w]}
      /\ \A v \in Windows \ {w} :
            cache'[v] = cache[v] /\ pending'[v] = pending[v]
  BY <1>2 DEF set, TypeOK
<1>4. /\ status'[w] = "closing" /\ events'[w] = <<>>
      /\ \A v \in Windows \ {w} :
            status'[v] = status[v] /\ events'[v] = events[v]
      /\ UNCHANGED <<isEmptyWindow, main, changed, flushing>>
  BY Zenon DEF closeWindow, TypeOK
<1>5. ASSUME NEW v \in Windows
      PROVE  (Fresh(v) => Fresh(v)') /\ (Kept(v) => Kept(v)')
  <2>1. CASE v = w
    BY <1>1, <1>3, <1>4, <2>1, Zenon DEF Fresh, Kept
  <2>2. CASE v # w
    BY <1>3, <1>4, <2>2, Zenon DEF Fresh, Kept
  <2> QED
    BY <2>1, <2>2, Zenon
<1>6. OneActive => OneActive'
  <2>1. \A v \in Windows : Active(v)' <=> Active(v)
    BY <1>1, <1>4, Zenon DEF Active
  <2> QED
    BY <2>1, Zenon DEF OneActive
<1>7. \A v \in Windows : events[v] = <<>> => events'[v] = <<>>
  BY <1>4, Zenon
<1>8. \A v \in Windows : status'[v] # "open" => events'[v] = <<>>
  BY <1>4, Zenon DEF Converging
<1> QED
  BY <1>4, <1>5, <1>6, <1>7, <1>8, Zenon DEF Converging

\* A window that ends leaves the others alone.
LEMMA EndConverges ==
    ASSUME TypeOK, Converging, NEW w \in Windows, windowGone(w) \/ crash(w)
    PROVE  Converging'
<1>1. /\ status'[w] = "closed"
      /\ \A v \in Windows \ {w} :
            /\ status'[v] = status[v] /\ cache'[v] = cache[v]
            /\ pending'[v] = pending[v] /\ events'[v] = events[v]
            /\ flushing'[v] = flushing[v]
      /\ UNCHANGED <<isEmptyWindow, main, changed>>
  BY DEF windowGone, crash, forget, TypeOK
<1>2. events'[w] = <<>> /\ flushing'[w] \in {flushing[w], {}}
  BY Zenon DEF windowGone, crash, TypeOK, Converging
<1>3. ASSUME NEW v \in Windows
      PROVE  (Fresh(v) => Fresh(v)') /\ (Kept(v) => Kept(v)')
  <2>1. CASE v = w
    BY <1>1, <2>1, Zenon DEF Fresh, Kept
  <2>2. CASE v # w
    BY <1>1, <2>2, Zenon DEF Fresh, Kept
  <2> QED
    BY <2>1, <2>2, Zenon
<1>4. OneActive => OneActive'
  <2>1. \A v \in Windows : Active(v)' => Active(v)
    BY <1>1, <1>2, Zenon DEF Active
  <2> QED
    BY <2>1, Zenon DEF OneActive
<1>5. /\ \A v \in Windows : events[v] = <<>> => events'[v] = <<>>
      /\ \A v \in Windows : status'[v] # "open" => events'[v] = <<>>
  BY <1>1, <1>2, Zenon DEF Converging
<1> QED
  BY <1>1, <1>3, <1>4, <1>5, Zenon DEF Converging
-----------------------------------------------------------------------------
(* The theorem. *)

LEMMA InitStore == Init => StoreInv
<1> SUFFICES ASSUME Init PROVE StoreInv
  BY Zenon
<1>1. NoChats \in LiveChats /\ NoChats \in Values
  BY NoChatsMaps, Zenon DEF LiveChats, Values
<1>2. TypeOK
  <2>1. isEmptyWindow \in BOOLEAN /\ changed \in BOOLEAN
    BY Zenon DEF Init
  <2>2. /\ created \in 0 .. MaxChats /\ updates \in 0 .. MaxSharedUpdates
        /\ main \in Values /\ owed \in LiveChats /\ gone \in SUBSET Chats
    BY <1>1, StoreAssumption DEF Init
  <2>3. /\ status \in [Windows -> {"closed", "open", "closing"}]
        /\ models \in [Windows -> LiveChats]
        /\ persisted \in [Windows -> Values]
        /\ cache \in [Windows -> Values]
    BY <1>1, Zenon DEF Init
  <2>4. /\ pending \in [Windows -> SUBSET Values]
        /\ flushing \in [Windows -> SUBSET Values]
        /\ \A w \in Windows : pending[w] = {}
    BY Zenon DEF Init
  <2>5. <<>> \in Seq(Values)
    OBVIOUS
  <2>6. events \in [Windows -> Seq(Values)]
    BY <2>5, Zenon DEF Init
  <2> QED
    BY <2>1, <2>2, <2>3, <2>4, <2>6, Zenon DEF TypeOK
<1>3. Converging
  BY Zenon DEF Init, Converging, Fresh, Kept, OneActive, Active
<1> QED
  BY <1>2, <1>3, Zenon DEF StoreInv

LEMMA NextStore == StoreInv /\ [Next]_vars => StoreInv'
<1> SUFFICES ASSUME TypeOK, Converging, [Next]_vars
             PROVE  TypeOK' /\ Converging'
  BY Zenon DEF StoreInv
<1>1. ASSUME NEW w \in Windows, NEW c \in Chats,
             \/ startSession(w) \/ getOrRestoreSession(w, c)
             \/ addRequest(w, c) \/ addResponse(w, c) \/ clearSession(w, c)
      PROVE  TypeOK' /\ Converging'
  <2>1. UNCHANGED <<isEmptyWindow, main, changed, status, cache, pending,
                    flushing, events>>
    BY <1>1, Zenon DEF startSession, getOrRestoreSession, addRequest, addResponse,
      addExchanges, clearSession
  <2> QED
    BY <1>1, <2>1, ChatTypes, SameConverges, Zenon
<1>2. ASSUME NEW w \in Windows, startSession(w)
      PROVE  TypeOK' /\ Converging'
  <2>1. created + 1 \in Chats
    BY <1>2, StoreAssumption DEF startSession, TypeOK, Chats
  <2> QED
    BY <1>1, <1>2, <2>1, Zenon
<1>3. ASSUME NEW w \in Windows, NEW c \in Chats, removeHistoryEntry(w, c)
      PROVE  TypeOK' /\ Converging'
  BY <1>3, SaveTypes, SaveConverges, Zenon
<1>4. ASSUME NEW w \in Windows,
             onWillSaveState(w) \/ clearAllHistoryEntries(w)
      PROVE  TypeOK' /\ Converging'
  BY <1>4, SaveTypes, SaveConverges, Zenon
<1>5. ASSUME NEW w \in Windows, flushPending(w) \/ acceptExternal(w)
      PROVE  TypeOK' /\ Converging'
  BY <1>5, StorageTypes, FlushConverges, AcceptConverges, Zenon
<1>6. ASSUME NEW w \in Windows, NEW value \in flushing[w],
             updateItems(w, value)
      PROVE  TypeOK' /\ Converging'
  BY <1>6, StorageTypes, UpdateConverges, Zenon
<1>7. ASSUME NEW w \in Windows,
             openWindow(w) \/ closeWindow(w) \/ windowGone(w) \/ crash(w)
      PROVE  TypeOK' /\ Converging'
  BY <1>7, WindowTypes, OpenConverges, CloseConverges, EndConverges, Zenon
<1>8. CASE UNCHANGED vars
  <2>1. TypeOK'
    BY <1>8, Zenon DEF vars, windowVars, history, TypeOK
  <2>2. Converging'
    BY <1>8, SameConverges, Zenon DEF vars, windowVars
  <2> QED
    BY <2>1, <2>2, Zenon
<1>9. CASE onDidChangeStorage
  BY <1>9, EventTypes, EventConverges, Zenon
<1> QED
  BY <1>1, <1>2, <1>3, <1>4, <1>5, <1>6, <1>7, <1>8, <1>9, Zenon
    DEF Next

\* In every reachable state, for any number of windows and chats, types hold
\* and the caches of all open windows are the stored value when no write and
\* no event is under way.
THEOREM CachesConverge == Spec => [](TypeOK /\ QuietCachesAgree)
<1>1. StoreInv => TypeOK /\ QuietCachesAgree
  <2> SUFFICES ASSUME TypeOK, Converging PROVE QuietCachesAgree
    BY Zenon DEF StoreInv
  <2> SUFFICES ASSUME ~changed, NEW w \in Windows,
                      \A v \in Windows : pending[v] = {} /\ flushing[v] = {},
                      status[w] = "open", events[w] = <<>>
               PROVE  cache[w] = main
    BY Zenon DEF QuietCachesAgree
  <2>1. Fresh(w) \/ Kept(w)
    BY Zenon DEF Converging
  <2> QED
    BY <2>1, Zenon DEF Fresh, Kept
<1> QED
  BY <1>1, InitStore, NextStore, PTL DEF Spec
-----------------------------------------------------------------------------
(* A workspace keeps what was said. *)

\* The exchanges a window holds of chat c, when its live chats are `live` and
\* its persisted sessions are `sessions`.
HeldIn(live, sessions, c) ==
    IF c \in DOMAIN live THEN live[c]
    ELSE IF c \in DOMAIN sessions THEN sessions[c].exchanges ELSE 0

\* The exchanges of c in a value of the storage, and those that are owed.
Told(value, c) == IF c \in DOMAIN value THEN value[c].exchanges ELSE 0
Due(c) == IF c \in DOMAIN owed THEN owed[c] ELSE 0

\* A value that a save has written: no chat of it is empty or yet to come.
Good(value) == \A c \in DOMAIN value : c <= created /\ value[c].exchanges > 0

\* The value has exactly what is owed, and nothing that was deleted.
Promised(value) ==
    /\ \A c \in Chats : Told(value, c) = Due(c)
    /\ gone \cap DOMAIN value = {}

\* The same of the chats an open window holds.
Holds(w) ==
    /\ \A c \in Chats : HeldIn(models[w], persisted[w], c) = Due(c)
    /\ \A c \in DOMAIN models[w] \cup DOMAIN persisted[w] :
          c \notin gone /\ c <= created

StoredGood ==
    /\ Good(main)
    /\ \A w \in Windows :
        \A value \in pending[w] \cup flushing[w] \cup {cache[w]} : Good(value)
    /\ \A w \in Windows : \A u, v \in flushing[w] : u = v

HistoryGood ==
    /\ \A c \in DOMAIN owed : owed[c] > 0
    /\ \A c \in gone : c <= created

\* What is owed is held by the open window, then by the cache of the closing
\* one, which is its last write, and then by the value that is stored last.
PromiseKept ==
    /\ \A w \in Windows : status[w] = "closed" => DOMAIN models[w] = {}
    /\ \A w \in Windows : status[w] = "open" => Holds(w)
    /\ \A w \in Windows : status[w] = "closing" => Promised(cache[w])
    /\ (\A w \in Windows : status[w] = "closed") =>
        /\ \A w \in Windows : \A value \in flushing[w] : Promised(value)
        /\ (\A w \in Windows : flushing[w] = {}) => Promised(main)

Keeping == StoredGood /\ HistoryGood /\ PromiseKept

\* Inductive together with StoreInv.
KeepInv == ~isEmptyWindow => Keeping

\* What a save of the workspace writes, before it is cut to the newest.
Joined(w, sessions) == Over(liveChats(w), closedChats(w, sessions))
-----------------------------------------------------------------------------
\* Types, spelled out.
LEMMA MapTypes ==
    ASSUME TypeOK, NEW w \in Windows
    PROVE  /\ DOMAIN models[w] \subseteq Chats
           /\ models[w] \in [DOMAIN models[w] -> 0 .. MaxExchanges]
           /\ DOMAIN owed \subseteq Chats
           /\ owed \in [DOMAIN owed -> 0 .. MaxExchanges]
           /\ DOMAIN persisted[w] \subseteq Chats
           /\ persisted[w] \in [DOMAIN persisted[w] -> Entry]
<1>1. /\ models[w] \in Maps(0 .. MaxExchanges)
      /\ owed \in Maps(0 .. MaxExchanges)
      /\ persisted[w] \in Maps(Entry)
  BY Zenon DEF TypeOK, LiveChats, Values
<1> QED
  BY <1>1, MapsDef, Zenon

\* A save joins the live chats and the closed ones.
LEMMA JoinedTold ==
    ASSUME TypeOK, NEW w \in Windows, NEW sessions \in Values
    PROVE  /\ \A c \in DOMAIN Joined(w, sessions) :
                /\ c \in DOMAIN models[w] \cup DOMAIN sessions
                /\ Joined(w, sessions)[c].exchanges > 0
           /\ \A c \in Chats : Told(Joined(w, sessions), c)
                                 = HeldIn(models[w], sessions, c)
<1> DEFINE m == models[w]
           L == {d \in DOMAIN m : m[d] > 0}
           C == {c \in DOMAIN sessions \ DOMAIN m : sessions[c].exchanges > 0}
           J == [c \in L \cup C |->
                    IF c \in L THEN [exchanges |-> m[c], isNew |-> FALSE]
                    ELSE sessions[c]]
<1>1. m \in [DOMAIN m -> 0 .. MaxExchanges]
  BY MapTypes, Zenon
<1>2. sessions \in [DOMAIN sessions -> Entry]
  BY MapsDef, Zenon DEF Values
<1>3. \A c \in DOMAIN sessions : sessions[c].exchanges \in 0 .. MaxExchanges
  BY <1>2, Zenon DEF Entry
<1>4. liveChats(w) = [c \in L |-> [exchanges |-> m[c], isNew |-> FALSE]]
  BY Zenon DEF liveChats
<1>5. closedChats(w, sessions) = [c \in C |-> sessions[c]]
  BY Zenon DEF closedChats, Restrict
<1>6. Joined(w, sessions) = J
  BY <1>4, <1>5, Zenon DEF Joined, Over
<1>7. \A c \in DOMAIN J : c \in DOMAIN m \cup DOMAIN sessions /\ J[c].exchanges > 0
  BY Zenon
<1>8. ASSUME NEW c \in Chats PROVE Told(J, c) = HeldIn(m, sessions, c)
  <2>1. CASE c \in L
    BY <2>1, Zenon DEF Told, HeldIn
  <2>2. CASE c \in C
    BY <2>2, Zenon DEF Told, HeldIn
  <2>3. CASE c \notin L /\ c \notin C
    <3>1. c \in DOMAIN m => m[c] = 0
      BY <2>3, <1>1
    <3>2. c \in DOMAIN sessions \ DOMAIN m => sessions[c].exchanges = 0
      BY <2>3, <1>3
    <3> QED
      BY <2>3, <3>1, <3>2, Zenon DEF Told, HeldIn
  <2> QED
    BY <2>1, <2>2, <2>3, Zenon
<1> QED
  BY <1>6, <1>7, <1>8, Zenon

\* Cutting to the newest depends on the chats alone.
LEMMA NewestPart ==
    ASSUME NEW f
    PROVE  \A c \in DOMAIN newest(f) : c \in DOMAIN f /\ newest(f)[c] = f[c]
BY Zenon DEF newest, Restrict

LEMMA NewestSame ==
    ASSUME NEW f, NEW g, DOMAIN f = DOMAIN g
    PROVE  DOMAIN newest(f) = DOMAIN newest(g)
BY Zenon DEF newest, Restrict

\* What a save does in a workspace.
LEMMA WorkspaceSave ==
    ASSUME TypeOK, ~isEmptyWindow, NEW w \in Windows, NEW sessions \in Values,
           NEW deleted, saveState(w, sessions, deleted)
    PROVE  /\ persisted'[w] = sessions
           /\ cache'[w] = newest(Joined(w, sessions))
           /\ pending'[w] \in {pending[w], {cache'[w]}}
           /\ \A v \in Windows \ {w} :
                /\ cache'[v] = cache[v] /\ pending'[v] = pending[v]
                /\ persisted'[v] = persisted[v]
<1>1. /\ persisted' = [persisted EXCEPT ![w] = sessions]
      /\ set(w, newest(Joined(w, sessions)))
  BY Zenon DEF saveState, Joined
<1>2. persisted \in [Windows -> Values] /\ cache \in [Windows -> Values]
      /\ pending \in [Windows -> SUBSET Values]
  BY Zenon DEF TypeOK
<1> QED
  BY <1>1, <1>2, Zenon DEF set

\* A window that is not closed is the only one.
LEMMA Alone ==
    ASSUME Converging, ~isEmptyWindow, NEW w \in Windows, status[w] # "closed"
    PROVE  \A v \in Windows \ {w} : status[v] = "closed" /\ flushing[v] = {}
BY Zenon DEF Converging, OneActive, Active

\* A value stays good while chats are created.
LEMMA GoodStays ==
    ASSUME NEW value \in Values, Good(value), created \in Nat,
           created' \in Nat, created <= created'
    PROVE  Good(value)'
<1>1. DOMAIN value \subseteq Nat
  BY MapsDef DEF Values, Chats
<1> QED
  BY <1>1 DEF Good

\* The window stays open and holds what is owed.
LEMMA OpenKeeps ==
    ASSUME Converging, ~isEmptyWindow, PromiseKept, NEW w \in Windows,
           status[w] = "open", status' = status, Holds(w)',
           \A v \in Windows \ {w} : models'[v] = models[v]
    PROVE  PromiseKept'
<1>1. \A v \in Windows \ {w} : status'[v] = "closed" /\ DOMAIN models'[v] = {}
  BY Alone, Zenon DEF PromiseKept
<1>2. status'[w] = "open"
  BY Zenon
<1> QED
  BY <1>1, <1>2, Zenon DEF PromiseKept

\* Steps that write nothing keep the stored values good.
LEMMA UnwrittenGood ==
    ASSUME TypeOK, TypeOK', StoredGood, created <= created',
           UNCHANGED <<main, pending, flushing, cache>>
    PROVE  StoredGood'
<1>1. /\ created \in Nat /\ created' \in Nat
      /\ main \in Values
      /\ \A w \in Windows :
            pending[w] \cup flushing[w] \cup {cache[w]} \subseteq Values
  BY StoreAssumption DEF TypeOK
<1>2. Good(main)'
  BY <1>1, GoodStays, Zenon DEF StoredGood, Good
<1>3. ASSUME NEW w \in Windows,
             NEW value \in pending[w] \cup flushing[w] \cup {cache[w]}
      PROVE  Good(value)'
  <2>1. value \in Values /\ Good(value)
    BY <1>1, Zenon DEF StoredGood
  <2> QED
    BY <1>1, <2>1, GoodStays, Zenon
<1> QED
  BY <1>2, <1>3, Zenon DEF StoredGood

LEMMA StartKeeps ==
    ASSUME TypeOK, TypeOK', Converging, ~isEmptyWindow, Keeping,
           NEW w \in Windows, startSession(w)
    PROVE  Keeping'
<1> DEFINE n == created + 1
<1>1. /\ created \in Nat /\ created' = n /\ status[w] = "open"
      /\ models'[w] = Over([c \in {n} |-> 0], models[w])
      /\ \A v \in Windows \ {w} : models'[v] = models[v]
      /\ UNCHANGED <<main, pending, flushing, cache, status, persisted, owed, gone>>
  BY DEF startSession, TypeOK, history
<1>2. StoredGood'
  BY <1>1, UnwrittenGood DEF Keeping
<1>3. gone \subseteq Nat
  BY DEF TypeOK, Chats
<1>4. HistoryGood'
  BY <1>1, <1>3 DEF Keeping, HistoryGood
<1>5. Holds(w)
  BY <1>1, Zenon DEF Keeping, PromiseKept
<1>6. /\ DOMAIN models[w] \subseteq Nat /\ DOMAIN persisted[w] \subseteq Nat
      /\ DOMAIN owed \subseteq Nat
  BY MapTypes DEF Chats
<1>7. n \notin DOMAIN models[w] \cup DOMAIN persisted[w] /\ n \notin gone
  BY <1>1, <1>3, <1>5 DEF Holds, Keeping, HistoryGood
<1>8. /\ DOMAIN models'[w] = DOMAIN models[w] \cup {n}
      /\ models'[w][n] = 0
      /\ \A c \in DOMAIN models[w] : models'[w][c] = models[w][c]
  BY <1>1, <1>7, Zenon DEF Over
<1>9. ASSUME NEW c \in Chats
      PROVE  HeldIn(models'[w], persisted'[w], c) = Due(c)'
  <2>1. HeldIn(models[w], persisted[w], c) = Due(c) /\ Due(c)' = Due(c)
    BY <1>1, <1>5, Zenon DEF Holds, Due
  <2>2. CASE c = n
    BY <1>1, <1>7, <1>8, <2>1, <2>2, Zenon DEF HeldIn
  <2>3. CASE c # n
    BY <1>1, <1>8, <2>1, <2>3, Zenon DEF HeldIn
  <2> QED
    BY <2>2, <2>3, Zenon
<1>10. \A c \in DOMAIN models'[w] \cup DOMAIN persisted'[w] :
          c \notin gone' /\ c <= created'
  BY <1>1, <1>5, <1>6, <1>7, <1>8 DEF Holds
<1>11. Holds(w)'
  BY <1>9, <1>10, Zenon DEF Holds
<1> QED
  BY <1>1, <1>2, <1>4, <1>11, OpenKeeps, Zenon DEF Keeping

LEMMA RestoreKeeps ==
    ASSUME TypeOK, TypeOK', Converging, ~isEmptyWindow, Keeping,
           NEW w \in Windows, NEW c \in Chats, getOrRestoreSession(w, c)
    PROVE  Keeping'
<1> DEFINE n == persisted[w][c].exchanges
<1>1. /\ status[w] = "open"
      /\ c \in DOMAIN persisted[w] \ DOMAIN models[w]
      /\ models'[w] = Over([d \in {c} |-> n], models[w])
      /\ \A v \in Windows \ {w} : models'[v] = models[v]
      /\ UNCHANGED <<main, pending, flushing, cache, status, persisted, owed,
                     gone, created>>
  BY Zenon DEF getOrRestoreSession, TypeOK, history
<1>2. StoredGood' /\ HistoryGood'
  BY <1>1, UnwrittenGood DEF Keeping, HistoryGood, TypeOK
<1>3. Holds(w)
  BY <1>1, Zenon DEF Keeping, PromiseKept
<1>4. /\ DOMAIN models'[w] = DOMAIN models[w] \cup {c}
      /\ models'[w][c] = n
      /\ \A d \in DOMAIN models[w] : models'[w][d] = models[w][d]
  BY <1>1, Zenon DEF Over
<1>5. ASSUME NEW d \in Chats
      PROVE  HeldIn(models'[w], persisted'[w], d) = Due(d)'
  <2>1. HeldIn(models[w], persisted[w], d) = Due(d) /\ Due(d)' = Due(d)
    BY <1>1, <1>3, Zenon DEF Holds, Due
  <2>2. CASE c = d
    BY <1>1, <1>4, <2>1, <2>2, Zenon DEF HeldIn
  <2>3. CASE c # d
    BY <1>1, <1>4, <2>1, <2>3, Zenon DEF HeldIn
  <2> QED
    BY <2>2, <2>3, Zenon
<1>6. \A d \in DOMAIN models'[w] \cup DOMAIN persisted'[w] :
          d \notin gone' /\ d <= created'
  BY <1>1, <1>3, <1>4, Zenon DEF Holds
<1>7. Holds(w)'
  BY <1>5, <1>6, Zenon DEF Holds
<1> QED
  BY <1>1, <1>2, <1>7, OpenKeeps, Zenon DEF Keeping

LEMMA AddKeeps ==
    ASSUME TypeOK, TypeOK', Converging, ~isEmptyWindow, Keeping,
           NEW w \in Windows, NEW c \in Chats, NEW n \in Nat \ {0},
           addExchanges(w, c, n)
    PROVE  Keeping'
<1> DEFINE k == models[w][c] + n
<1>0. models[w] \in [DOMAIN models[w] -> 0 .. MaxExchanges]
  BY MapTypes, Zenon
<1>1. /\ status[w] = "open"
      /\ c \in DOMAIN models[w]
      /\ models'[w] = [models[w] EXCEPT ![c] = k]
      /\ \A v \in Windows \ {w} : models'[v] = models[v]
      /\ owed' = Over([d \in {c} |-> k], owed)
      /\ UNCHANGED <<main, pending, flushing, cache, status, persisted,
                     gone, created>>
  BY Zenon DEF addExchanges, TypeOK, Owe
<1>2. k > 0
  BY <1>0, <1>1
<1>3. StoredGood'
  BY <1>1, UnwrittenGood DEF Keeping, TypeOK
<1>4. /\ DOMAIN owed' = DOMAIN owed \cup {c} /\ owed'[c] = k
      /\ \A d \in DOMAIN owed \ {c} : owed'[d] = owed[d]
  BY <1>1, Zenon DEF Over
<1>5. HistoryGood'
  BY <1>1, <1>2, <1>4, Zenon DEF Keeping, HistoryGood
<1>6. Holds(w)
  BY <1>1, Zenon DEF Keeping, PromiseKept
<1>7. /\ DOMAIN models'[w] = DOMAIN models[w] /\ models'[w][c] = k
      /\ \A d \in DOMAIN models[w] \ {c} : models'[w][d] = models[w][d]
  BY <1>0, <1>1, Zenon
<1>8. ASSUME NEW d \in Chats
      PROVE  HeldIn(models'[w], persisted'[w], d) = Due(d)'
  <2>1. HeldIn(models[w], persisted[w], d) = Due(d)
    BY <1>6, Zenon DEF Holds
  <2>2. CASE c = d
    BY <1>1, <1>4, <1>7, <2>2, Zenon DEF HeldIn, Due
  <2>3. CASE c # d
    <3>1. Due(d)' = Due(d)
      BY <1>4, <2>3, Zenon DEF Due
    <3>2. HeldIn(models'[w], persisted'[w], d) = HeldIn(models[w], persisted[w], d)
      BY <1>1, <1>7, <2>3, Zenon DEF HeldIn
    <3> QED
      BY <2>1, <3>1, <3>2, Zenon
  <2> QED
    BY <2>2, <2>3, Zenon
<1>9. \A d \in DOMAIN models'[w] \cup DOMAIN persisted'[w] :
          d \notin gone' /\ d <= created'
  BY <1>1, <1>6, <1>7, Zenon DEF Holds
<1>10. Holds(w)'
  BY <1>8, <1>9, Zenon DEF Holds
<1> QED
  BY <1>1, <1>3, <1>5, <1>10, OpenKeeps, Zenon DEF Keeping

LEMMA ClearKeeps ==
    ASSUME TypeOK, TypeOK', Converging, ~isEmptyWindow, Keeping,
           NEW w \in Windows, NEW c \in Chats, clearSession(w, c)
    PROVE  Keeping'
<1> DEFINE e == [exchanges |-> models[w][c], isNew |-> TRUE]
<1>1. /\ status[w] = "open"
      /\ c \in DOMAIN models[w]
      /\ models'[w] = Without(models[w], {c})
      /\ persisted'[w] = Over([d \in {c} |-> e], persisted[w])
      /\ \A v \in Windows \ {w} : models'[v] = models[v]
      /\ UNCHANGED <<main, pending, flushing, cache, status, owed,
                     gone, created>>
  BY Zenon DEF clearSession, TypeOK, history
<1>2. StoredGood' /\ HistoryGood'
  BY <1>1, UnwrittenGood DEF Keeping, HistoryGood, TypeOK
<1>3. Holds(w)
  BY <1>1, Zenon DEF Keeping, PromiseKept
<1>4. /\ DOMAIN models'[w] = DOMAIN models[w] \ {c}
      /\ \A d \in DOMAIN models[w] \ {c} : models'[w][d] = models[w][d]
  BY <1>1, Zenon DEF Without, Restrict
<1>5. /\ DOMAIN persisted'[w] = DOMAIN persisted[w] \cup {c}
      /\ persisted'[w][c].exchanges = models[w][c]
      /\ \A d \in DOMAIN persisted[w] \ {c} : persisted'[w][d] = persisted[w][d]
  BY <1>1 DEF Over
<1>6. ASSUME NEW d \in Chats
      PROVE  HeldIn(models'[w], persisted'[w], d) = Due(d)'
  <2>1. HeldIn(models[w], persisted[w], d) = Due(d) /\ Due(d)' = Due(d)
    BY <1>1, <1>3, Zenon DEF Holds, Due
  <2>2. CASE c = d
    BY <1>1, <1>4, <1>5, <2>1, <2>2, Zenon DEF HeldIn
  <2>3. CASE c # d
    BY <1>1, <1>4, <1>5, <2>1, <2>3, Zenon DEF HeldIn
  <2> QED
    BY <2>2, <2>3
<1>7. \A d \in DOMAIN models'[w] \cup DOMAIN persisted'[w] :
          d \notin gone' /\ d <= created'
  BY <1>1, <1>3, <1>4, <1>5, Zenon DEF Holds
<1>8. Holds(w)'
  BY <1>6, <1>7 DEF Holds
<1> QED
  BY <1>1, <1>2, <1>8, OpenKeeps, Zenon DEF Keeping

\* A save of an open window writes a good value.
LEMMA SavedGood ==
    ASSUME TypeOK, ~isEmptyWindow, Keeping, NEW w \in Windows,
           status[w] = "open", NEW sessions \in Values, NEW deleted,
           saveState(w, sessions, deleted),
           DOMAIN sessions \subseteq DOMAIN persisted[w],
           UNCHANGED <<main, flushing, created>>
    PROVE  StoredGood'
<1>1. Holds(w)
  BY Zenon DEF Keeping, PromiseKept
<1>2. Good(newest(Joined(w, sessions)))
  <2>1. \A c \in DOMAIN newest(Joined(w, sessions)) :
           /\ c \in DOMAIN models[w] \cup DOMAIN sessions
           /\ newest(Joined(w, sessions))[c].exchanges > 0
    BY JoinedTold, NewestPart, Zenon
  <2> QED
    BY <1>1, <2>1, Zenon DEF Holds, Good
<1>3. /\ cache'[w] = newest(Joined(w, sessions))
      /\ pending'[w] \in {pending[w], {cache'[w]}}
      /\ \A v \in Windows \ {w} :
            cache'[v] = cache[v] /\ pending'[v] = pending[v]
  BY WorkspaceSave, Zenon
<1>4. \A value : Good(value)' <=> Good(value)
  BY Zenon DEF Good
<1>5. ASSUME NEW v \in Windows,
             NEW value \in pending'[v] \cup flushing'[v] \cup {cache'[v]}
      PROVE  Good(value)
  <2>1. CASE v = w
    <3>1. value \in pending[w] \cup flushing[w] \cup {cache'[w]}
      BY <1>3, <2>1, Zenon
    <3> QED
      BY <1>2, <1>3, <3>1, Zenon DEF Keeping, StoredGood
  <2>2. CASE v # w
    BY <1>3, <2>2, Zenon DEF Keeping, StoredGood
  <2> QED
    BY <2>1, <2>2, Zenon
<1>6. Good(main) /\ \A v \in Windows : \A a, b \in flushing[v] : a = b
  BY Zenon DEF Keeping, StoredGood
<1>7. Good(main)'
  BY <1>6, Zenon DEF Good
<1> QED
  BY <1>4, <1>5, <1>6, <1>7, Zenon DEF StoredGood

\* A save after the deletion of the closed chats S.
LEMMA DeletionKeeps ==
    ASSUME TypeOK, TypeOK', Converging, ~isEmptyWindow, Keeping,
           NEW w \in Windows, status[w] = "open",
           NEW S, S \cap DOMAIN models[w] = {}, S \subseteq DOMAIN persisted[w],
           NEW sessions \in Values, NEW deleted,
           saveState(w, sessions, deleted),
           DOMAIN sessions \subseteq DOMAIN persisted[w] \ S,
           DOMAIN persisted[w] \ S \subseteq DOMAIN models[w] \cup DOMAIN sessions,
           \A c \in DOMAIN sessions : sessions[c] = persisted[w][c],
           owed' = Without(owed, S), gone' = gone \cup S,
           UNCHANGED <<main, flushing, created, models, status>>
    PROVE  Keeping'
<1>1. StoredGood'
  BY SavedGood, Zenon
<1>2. Holds(w)
  BY Zenon DEF Keeping, PromiseKept
<1>3. /\ DOMAIN owed' = DOMAIN owed \ S
      /\ \A c \in DOMAIN owed' : owed'[c] = owed[c]
  BY Zenon DEF Without, Restrict
<1>4. HistoryGood'
  BY <1>2, <1>3, Zenon DEF Keeping, HistoryGood, Holds
<1>5. persisted'[w] = sessions
  BY WorkspaceSave, Zenon
<1>6. ASSUME NEW c \in Chats
      PROVE  HeldIn(models'[w], persisted'[w], c) = Due(c)'
  <2>1. HeldIn(models[w], persisted[w], c) = Due(c)
    BY <1>2, Zenon DEF Holds
  <2>2. CASE c \in S
    BY <1>3, <1>5, <2>2, Zenon DEF HeldIn, Due
  <2>3. CASE c \notin S
    <3>1. Due(c)' = Due(c)
      BY <1>3, <2>3, Zenon DEF Due
    <3>2. HeldIn(models[w], sessions, c) = HeldIn(models[w], persisted[w], c)
      BY <2>3, Zenon DEF HeldIn
    <3> QED
      BY <1>5, <2>1, <3>1, <3>2, Zenon
  <2> QED
    BY <2>2, <2>3, Zenon
<1>7. \A c \in DOMAIN models'[w] \cup DOMAIN persisted'[w] :
          c \notin gone' /\ c <= created'
  BY <1>2, <1>5, Zenon DEF Holds
<1>8. Holds(w)'
  BY <1>6, <1>7, Zenon DEF Holds
<1> QED
  BY <1>1, <1>4, <1>8, OpenKeeps, Zenon DEF Keeping

LEMMA SaveKeeps ==
    ASSUME TypeOK, TypeOK', Converging, ~isEmptyWindow, Keeping,
           NEW w \in Windows, NEW c,
           \/ onWillSaveState(w)
           \/ c \in Chats /\ removeHistoryEntry(w, c)
           \/ clearAllHistoryEntries(w)
    PROVE  Keeping'
<1>1. persisted[w] \in Values /\ owed \in LiveChats
  BY Zenon DEF TypeOK
<1>2. CASE onWillSaveState(w)
  <2>1. /\ saveState(w, persisted[w], {}) /\ status[w] = "open"
        /\ UNCHANGED <<main, flushing, created, models, status, owed, gone>>
    BY <1>2, Zenon DEF onWillSaveState, history
  <2>2. StoredGood' /\ HistoryGood'
    BY <1>1, <2>1, SavedGood, Zenon DEF Keeping, HistoryGood
  <2>3. persisted'[w] = persisted[w] /\ Holds(w)
    BY <1>1, <2>1, WorkspaceSave, Zenon DEF Keeping, PromiseKept
  <2>4. Holds(w)'
    BY <2>1, <2>3, Zenon DEF Holds, Due
  <2> QED
    BY <2>1, <2>2, <2>4, OpenKeeps, Zenon DEF Keeping
<1>3. CASE c \in Chats /\ removeHistoryEntry(w, c)
  <2> DEFINE sessions == Without(persisted[w], {c})
  <2>1. /\ saveState(w, sessions, {c}) /\ status[w] = "open"
        /\ c \in DOMAIN persisted[w] \ DOMAIN models[w]
        /\ owed' = Without(owed, {c}) /\ gone' = gone \cup {c}
        /\ UNCHANGED <<main, flushing, created, models, status>>
    BY <1>3, Zenon DEF removeHistoryEntry, Owe
  <2>2. sessions \in Values
    BY <1>1, WithoutMaps, Zenon DEF Values
  <2>3. /\ DOMAIN sessions = DOMAIN persisted[w] \ {c}
        /\ \A d \in DOMAIN sessions : sessions[d] = persisted[w][d]
    BY Zenon DEF Without, Restrict
  <2>4. {c} \cap DOMAIN models[w] = {} /\ {c} \subseteq DOMAIN persisted[w]
    BY <2>1, Zenon
  <2> HIDE DEF sessions
  <2> QED
    BY <2>1, <2>2, <2>3, <2>4, DeletionKeeps
<1>4. CASE clearAllHistoryEntries(w)
  <2> DEFINE S == DOMAIN persisted[w] \ DOMAIN models[w]
  <2>1. /\ saveState(w, NoChats, DOMAIN persisted[w]) /\ status[w] = "open"
        /\ owed' = Without(owed, S) /\ gone' = gone \cup S
        /\ UNCHANGED <<main, flushing, created, models, status>>
    BY <1>4, Zenon DEF clearAllHistoryEntries, Owe
  <2>2. NoChats \in Values /\ DOMAIN NoChats = {}
    BY NoChatsMaps, Zenon DEF Values, NoChats
  <2>3. /\ S \cap DOMAIN models[w] = {} /\ S \subseteq DOMAIN persisted[w]
        /\ DOMAIN persisted[w] \ S \subseteq DOMAIN models[w]
    BY Zenon
  <2> HIDE DEF S
  <2>4. /\ DOMAIN NoChats \subseteq DOMAIN persisted[w] \ S
        /\ DOMAIN persisted[w] \ S \subseteq DOMAIN models[w] \cup DOMAIN NoChats
        /\ \A d \in DOMAIN NoChats : NoChats[d] = persisted[w][d]
    BY <2>2, <2>3, Zenon
  <2> QED
    BY <2>1, <2>2, <2>3, <2>4, DeletionKeeps, Zenon
<1> QED
  BY <1>2, <1>3, <1>4, Zenon

\* The promise is about the window's chats while it is there.
LEMMA FlushKeeps ==
    ASSUME TypeOK, Converging, ~isEmptyWindow, Keeping,
           NEW w \in Windows, flushPending(w)
    PROVE  Keeping'
<1>1. /\ flushing[w] = {} /\ pending[w] # {}
      /\ flushing'[w] = pending[w] /\ pending'[w] = {}
      /\ \A v \in Windows \ {w} :
            flushing'[v] = flushing[v] /\ pending'[v] = pending[v]
      /\ UNCHANGED <<main, status, cache, models, persisted, created, owed, gone>>
  BY Zenon DEF flushPending, TypeOK, history
<1>2. status[w] # "closed"
  BY <1>1, Zenon DEF TypeOK
<1>3. pending[w] = {cache[w]}
  BY <1>1, <1>2, Zenon DEF Converging, Kept
<1>4. \A value : Good(value)' <=> Good(value)
  BY <1>1, Zenon DEF Good
<1>5. ASSUME NEW v \in Windows
      PROVE  /\ \A value \in pending'[v] \cup flushing'[v] \cup {cache'[v]} :
                   Good(value)
             /\ \A a, b \in flushing'[v] : a = b
  <2>1. CASE v = w
    BY <1>1, <1>3, <2>1 DEF Keeping, StoredGood
  <2>2. CASE v # w
    BY <1>1, <2>2, Zenon DEF Keeping, StoredGood
  <2> QED
    BY <2>1, <2>2, Zenon
<1>6. Good(main)'
  BY <1>1, Zenon DEF Keeping, StoredGood, Good
<1>7. StoredGood'
  BY <1>4, <1>5, <1>6, Zenon DEF StoredGood
<1>8. HistoryGood'
  BY <1>1, Zenon DEF Keeping, HistoryGood
<1>9. ASSUME NEW v \in Windows
      PROVE  /\ status'[v] = "closed" => DOMAIN models'[v] = {}
             /\ status'[v] = "open" => Holds(v)'
             /\ status'[v] = "closing" => Promised(cache[v])'
  BY <1>1, Zenon DEF Keeping, PromiseKept, Holds, Promised, Due
<1>10. PromiseKept'
  BY <1>1, <1>2, <1>9, Zenon DEF PromiseKept
<1> QED
  BY <1>7, <1>8, <1>10, Zenon DEF Keeping

\* The update of a window that is no more is the last one: it stores what is
\* owed.
LEMMA UpdateKeeps ==
    ASSUME TypeOK, Converging, ~isEmptyWindow, Keeping,
           NEW w \in Windows, NEW value \in flushing[w], updateItems(w, value)
    PROVE  Keeping'
<1>1. /\ flushing'[w] = {} /\ main' = value
      /\ \A v \in Windows \ {w} : flushing'[v] = flushing[v]
      /\ UNCHANGED <<status, cache, pending, models, persisted, created, owed,
                     gone>>
  BY Zenon DEF updateItems, TypeOK, history
<1>2. \A v : Good(v)' <=> Good(v)
  BY <1>1, Zenon DEF Good
<1>3. Good(value)
  BY Zenon DEF Keeping, StoredGood
<1>4. Good(main)'
  BY <1>1, <1>3, Zenon DEF Good
<1>5. \A v \in Windows :
        /\ \A u \in pending'[v] \cup flushing'[v] \cup {cache'[v]} : Good(u)
        /\ \A a, b \in flushing'[v] : a = b
  BY <1>1, Zenon DEF Keeping, StoredGood
<1>6. StoredGood'
  BY <1>2, <1>4, <1>5, Zenon DEF StoredGood
<1>7. HistoryGood'
  BY <1>1, Zenon DEF Keeping, HistoryGood
<1>8. ASSUME NEW v \in Windows
      PROVE  /\ status'[v] = "closed" => DOMAIN models'[v] = {}
             /\ status'[v] = "open" => Holds(v)'
             /\ status'[v] = "closing" => Promised(cache[v])'
  BY <1>1, Zenon DEF Keeping, PromiseKept, Holds, Promised, Due
<1>9. ASSUME \A v \in Windows : status[v] = "closed"
      PROVE  /\ \A v \in Windows : \A u \in flushing'[v] : Promised(u)'
             /\ Promised(main)'
  <2>1. \A v \in Windows : \A u \in flushing[v] : Promised(u)
    BY <1>9, Zenon DEF Keeping, PromiseKept
  <2>2. \A u : Promised(u)' <=> Promised(u)
    BY <1>1, Zenon DEF Promised, Due
  <2>3. Promised(main)'
    BY <1>1, <2>1, Zenon DEF Promised, Due
  <2> QED
    BY <1>1, <2>1, <2>2, <2>3, Zenon
<1>10. PromiseKept'
  BY <1>1, <1>8, <1>9, Zenon DEF PromiseKept
<1> QED
  BY <1>6, <1>7, <1>10, Zenon DEF Keeping

\* A new window holds what is stored.
LEMMA OpenWindowKeeps ==
    ASSUME TypeOK, Converging, ~isEmptyWindow, Keeping,
           NEW w \in Windows, openWindow(w)
    PROVE  Keeping'
<1>1. /\ \A v \in Windows : status[v] = "closed" /\ flushing[v] = {}
      /\ status'[w] = "open" /\ cache'[w] = main /\ persisted'[w] = main
      /\ \A v \in Windows \ {w} :
            status'[v] = status[v] /\ cache'[v] = cache[v]
      /\ UNCHANGED <<main, models, pending, flushing, created, owed, gone>>
  BY Zenon DEF openWindow, TypeOK, history
<1>2. /\ \A v \in Windows : DOMAIN models[v] = {}
      /\ Promised(main) /\ Good(main)
  BY <1>1, Zenon DEF Keeping, PromiseKept, StoredGood
<1>3. \A v : Good(v)' <=> Good(v)
  BY <1>1, Zenon DEF Good
<1>4. \A v \in Windows :
        /\ \A u \in pending'[v] \cup flushing'[v] \cup {cache'[v]} : Good(u)
        /\ \A a, b \in flushing'[v] : a = b
  BY <1>1, <1>2 DEF Keeping, StoredGood
<1>5. Good(main)'
  BY <1>1, <1>2, Zenon DEF Good
<1>6. StoredGood'
  BY <1>3, <1>4, <1>5, Zenon DEF StoredGood
<1>7. HistoryGood'
  BY <1>1, Zenon DEF Keeping, HistoryGood
<1>8. ASSUME NEW c \in Chats
      PROVE  HeldIn(models'[w], persisted'[w], c) = Due(c)'
  <2>1. Told(main, c) = Due(c) /\ Due(c)' = Due(c)
    BY <1>1, <1>2, Zenon DEF Promised, Due
  <2> QED
    BY <1>1, <1>2, <2>1, Zenon DEF HeldIn, Told
<1>9. Holds(w)'
  BY <1>1, <1>2, <1>8, Zenon DEF Holds, Promised, Good
<1>10. PromiseKept'
  BY <1>1, <1>2, <1>9, Zenon DEF PromiseKept
<1> QED
  BY <1>6, <1>7, <1>10 DEF Keeping

\* A closing window has written what it holds, cut to the newest chats: those
\* that are owed from now on.
LEMMA CloseWindowKeeps ==
    ASSUME TypeOK, Converging, ~isEmptyWindow, Keeping,
           NEW w \in Windows, closeWindow(w)
    PROVE  Keeping'
<1> DEFINE J == Joined(w, persisted[w])
<1>1. /\ status[w] = "open" /\ status'[w] = "closing"
      /\ saveState(w, persisted[w], {})
      /\ \A v \in Windows \ {w} : status'[v] = status[v]
      /\ owed' = newest(owed) /\ gone' = gone
      /\ UNCHANGED <<main, models, flushing, created>>
  BY Zenon DEF closeWindow, TypeOK, Owe
<1>2. persisted[w] \in Values
  BY Zenon DEF TypeOK
<1>3. StoredGood'
  BY <1>1, <1>2, SavedGood, Zenon
<1>4. HistoryGood'
  BY <1>1, NewestPart, Zenon DEF Keeping, HistoryGood
<1>5. cache'[w] = newest(J)
  BY <1>1, <1>2, WorkspaceSave, Zenon
<1>6. Holds(w)
  BY <1>1, Zenon DEF Keeping, PromiseKept
<1>7. /\ \A c \in DOMAIN J : /\ c \in DOMAIN models[w] \cup DOMAIN persisted[w]
                             /\ J[c].exchanges > 0
      /\ \A c \in Chats : Told(J, c) = HeldIn(models[w], persisted[w], c)
  BY <1>2, JoinedTold, Zenon
<1>8. DOMAIN J \subseteq Chats /\ DOMAIN owed \subseteq Chats
  BY <1>7, MapTypes, Zenon
<1> HIDE DEF J
<1>9. \A c \in Chats : Told(J, c) = Due(c)
  BY <1>6, <1>7, Zenon DEF Holds
<1>10. DOMAIN J = DOMAIN owed
  <2>1. ASSUME NEW c \in DOMAIN J PROVE c \in DOMAIN owed
    BY <1>7, <1>8, <1>9 DEF Told, Due
  <2>2. ASSUME NEW c \in DOMAIN owed PROVE c \in DOMAIN J
    BY <1>8, <1>9 DEF Told, Due, Keeping, HistoryGood
  <2> QED
    BY <2>1, <2>2, Zenon
<1>11. DOMAIN newest(J) = DOMAIN newest(owed)
  BY <1>10, NewestSame, Zenon
<1>12. ASSUME NEW c \in Chats PROVE Told(newest(J), c) = Due(c)'
  <2>1. CASE c \in DOMAIN newest(J)
    <3>1. newest(J)[c] = J[c] /\ c \in DOMAIN J
      BY <2>1, NewestPart, Zenon
    <3>2. newest(owed)[c] = owed[c] /\ c \in DOMAIN owed
      BY <2>1, <1>11, NewestPart, Zenon
    <3>3. J[c].exchanges = owed[c]
      BY <3>1, <3>2, <1>9, Zenon DEF Told, Due
    <3> QED
      BY <1>1, <1>11, <2>1, <3>1, <3>2, <3>3, Zenon DEF Told, Due
  <2>2. CASE c \notin DOMAIN newest(J)
    BY <1>1, <1>11, <2>2, Zenon DEF Told, Due
  <2> QED
    BY <2>1, <2>2, Zenon
<1>13. gone' \cap DOMAIN newest(J) = {}
  BY <1>1, <1>6, <1>7, NewestPart, Zenon DEF Holds
<1>14. Promised(cache[w])'
  BY <1>5, <1>12, <1>13, Zenon DEF Promised
<1>15. \A v \in Windows \ {w} : status'[v] = "closed" /\ DOMAIN models'[v] = {}
  BY <1>1, Alone, Zenon DEF Keeping, PromiseKept
<1>16. PromiseKept'
  BY <1>1, <1>14, <1>15, Zenon DEF PromiseKept
<1> QED
  BY <1>3, <1>4, <1>16 DEF Keeping

\* The stored values of a window that is no more.
LEMMA ForgetGood ==
    ASSUME TypeOK, StoredGood, NEW w \in Windows, forget(w),
           pending'[w] = {}, flushing'[w] \subseteq flushing[w],
           \A v \in Windows \ {w} :
              pending'[v] = pending[v] /\ flushing'[v] = flushing[v]
    PROVE  StoredGood'
<1>1. /\ cache'[w] = NoChats /\ created' = created /\ main' = main
      /\ \A v \in Windows \ {w} : cache'[v] = cache[v]
  BY Zenon DEF forget, TypeOK
<1>2. \A v : Good(v)' <=> Good(v)
  BY <1>1, Zenon DEF Good
<1>3. Good(NoChats)
  BY Zenon DEF Good, NoChats
<1>4. ASSUME NEW v \in Windows
      PROVE /\ \A u \in pending'[v] \cup flushing'[v] \cup {cache'[v]} : Good(u)
            /\ \A a, b \in flushing'[v] : a = b
  <2>1. CASE v = w
    <3>1. \A u \in flushing[w] : Good(u)
      BY Zenon DEF StoredGood
    <3>2. \A a, b \in flushing[w] : a = b
      BY Zenon DEF StoredGood
    <3>3. \A u \in pending'[w] \cup flushing'[w] \cup {cache'[w]} :
             u = NoChats \/ u \in flushing[w]
      BY <1>1, Zenon
    <3> QED
      BY <1>3, <2>1, <3>1, <3>2, <3>3, Zenon
  <2>2. CASE v # w
    BY <1>1, <2>2 DEF StoredGood
  <2> QED
    BY <2>1, <2>2, Zenon
<1>5. Good(main)'
  BY <1>1, Zenon DEF StoredGood, Good
<1> QED
  BY <1>2, <1>4, <1>5, Zenon DEF StoredGood

\* All windows are closed after the only one is.
LEMMA AllForgotten ==
    ASSUME TypeOK, Converging, ~isEmptyWindow, PromiseKept, NEW w \in Windows,
           status[w] # "closed", forget(w)
    PROVE  \A v \in Windows :
              /\ status'[v] = "closed" /\ DOMAIN models'[v] = {}
              /\ v # w => flushing[v] = {}
<1>1. /\ status'[w] = "closed" /\ models'[w] = NoChats
      /\ \A v \in Windows \ {w} : status'[v] = status[v] /\ models'[v] = models[v]
  BY Zenon DEF forget, TypeOK
<1>2. DOMAIN NoChats = {}
  BY Zenon DEF NoChats
<1> QED
  BY <1>1, <1>2, Alone, Zenon DEF PromiseKept

LEMMA GoneKeeps ==
    ASSUME TypeOK, Converging, ~isEmptyWindow, Keeping,
           NEW w \in Windows, windowGone(w)
    PROVE  Keeping'
<1>1. /\ status[w] = "closing" /\ pending[w] = {} /\ flushing[w] = {}
      /\ forget(w) /\ UNCHANGED <<pending, flushing, owed, gone>>
      /\ UNCHANGED <<main, created>>
  BY Zenon DEF windowGone, history, forget
<1>2. main = cache[w]
  BY <1>1, Zenon DEF Converging, Kept
<1>3. Promised(main)'
  <2>1. Promised(main)
    BY <1>1, <1>2, Zenon DEF Keeping, PromiseKept
  <2> QED
    BY <1>1, <2>1, Zenon DEF Promised, Due
<1>4. \A v \in Windows :
         status'[v] = "closed" /\ DOMAIN models'[v] = {} /\ flushing'[v] = {}
  BY <1>1, AllForgotten, Zenon DEF Keeping
<1>5. PromiseKept'
  BY <1>3, <1>4, Zenon DEF PromiseKept
<1>6. StoredGood' /\ HistoryGood'
  BY <1>1, ForgetGood, Zenon DEF Keeping, HistoryGood
<1> QED
  BY <1>5, <1>6, Zenon DEF Keeping

\* What is left after a crash is what is owed then.
LEMMA LeftPromised ==
    ASSUME TypeOK, ~isEmptyWindow, HistoryGood, NEW value \in Values, Good(value),
           OweLeft(value), created' = created
    PROVE  HistoryGood' /\ Promised(value)'
<1>1. /\ owed' = [c \in DOMAIN value |-> value[c].exchanges]
      /\ gone' = gone \ DOMAIN value
  BY Zenon DEF OweLeft, Owe
<1>2. HistoryGood'
  BY <1>1, Zenon DEF HistoryGood, Good
<1>3. \A c \in Chats : Told(value, c) = Due(c)'
  BY <1>1, Zenon DEF Told, Due
<1> QED
  BY <1>1, <1>2, <1>3, Zenon DEF Promised

LEMMA CrashKeeps ==
    ASSUME TypeOK, Converging, ~isEmptyWindow, Keeping,
           NEW w \in Windows, crash(w)
    PROVE  Keeping'
<1>1. /\ status[w] # "closed" /\ forget(w) /\ pending'[w] = {}
      /\ main' = main /\ created' = created
      /\ \A v \in Windows \ {w} : pending'[v] = pending[v]
  BY Zenon DEF crash, forget, TypeOK
<1>2. \A v \in Windows : /\ status'[v] = "closed" /\ DOMAIN models'[v] = {}
                         /\ v # w => flushing[v] = {}
  BY <1>1, AllForgotten, Zenon DEF Keeping
<1>3. CASE flushing' = [flushing EXCEPT ![w] = {}] /\ OweLeft(main)
  <2>1. flushing'[w] = {} /\ \A v \in Windows \ {w} : flushing'[v] = flushing[v]
    BY <1>3, Zenon DEF TypeOK
  <2>2. StoredGood'
    BY <1>1, <2>1, ForgetGood, Zenon DEF Keeping
  <2>3. HistoryGood' /\ Promised(main)'
    <3>1. main \in Values /\ Good(main)
      BY Zenon DEF TypeOK, Keeping, StoredGood
    <3>2. HistoryGood' /\ \A u \in Values : u = main => Promised(u)'
      BY <1>1, <1>3, <3>1, LeftPromised, Zenon DEF Keeping
    <3> QED
      BY <1>1, <3>1, <3>2, Zenon DEF Promised
  <2>4. PromiseKept'
    BY <1>2, <2>1, <2>3, Zenon DEF PromiseKept
  <2> QED
    BY <2>2, <2>3, <2>4, Zenon DEF Keeping
<1>4. ASSUME NEW value \in flushing[w], UNCHANGED flushing, OweLeft(value)
      PROVE  Keeping'
  <2>1. StoredGood'
    BY <1>1, <1>4, ForgetGood, Zenon DEF Keeping
  <2>2. HistoryGood' /\ Promised(value)'
    <3>1. value \in Values /\ Good(value)
      BY Zenon DEF TypeOK, Keeping, StoredGood
    <3> QED
      BY <1>1, <1>4, <3>1, LeftPromised, Zenon DEF Keeping
  <2>3. \A u \in flushing[w] : u = value
    BY Zenon DEF Keeping, StoredGood
  <2>4. \A v \in Windows : \A u \in flushing'[v] : u = value
    BY <1>2, <1>4, <2>3, Zenon
  <2>5. flushing'[w] # {}
    BY <1>4, Zenon
  <2>6. PromiseKept'
    BY <1>2, <2>2, <2>4, <2>5, Zenon DEF PromiseKept
  <2> QED
    BY <2>1, <2>2, <2>6, Zenon DEF Keeping
<1> QED
  BY <1>3, <1>4, Zenon DEF crash

LEMMA InitKeeps == Init => KeepInv
<1> SUFFICES ASSUME Init PROVE Keeping
  BY Zenon DEF KeepInv
<1>1. DOMAIN NoChats = {}
  BY Zenon DEF NoChats
<1>2. Good(NoChats)
  BY <1>1, Zenon DEF Good
<1>3. StoredGood
  BY <1>2, Zenon DEF Init, StoredGood
<1>4. HistoryGood
  BY <1>1, Zenon DEF Init, HistoryGood
<1>5. Promised(main)
  BY <1>1, Zenon DEF Init, Promised, Told, Due
<1>6. PromiseKept
  BY <1>1, <1>5, Zenon DEF Init, PromiseKept
<1> QED
  BY <1>3, <1>4, <1>6, Zenon DEF Keeping

LEMMA NextKeeps == StoreInv /\ StoreInv' /\ KeepInv /\ [Next]_vars => KeepInv'
<1> SUFFICES ASSUME TypeOK, TypeOK', Converging, KeepInv, [Next]_vars,
                    ~isEmptyWindow'
             PROVE  Keeping'
  BY Zenon DEF StoreInv, KeepInv
<1>1. isEmptyWindow' = isEmptyWindow
  <2>1. ASSUME NEW w \in Windows, NEW c \in Chats,
               \/ getOrRestoreSession(w, c) \/ addRequest(w, c)
               \/ addResponse(w, c) \/ clearSession(w, c)
               \/ removeHistoryEntry(w, c)
        PROVE  isEmptyWindow' = isEmptyWindow
    BY <2>1, Zenon DEF getOrRestoreSession, addRequest, addResponse, addExchanges,
      clearSession, removeHistoryEntry
  <2>2. ASSUME NEW w \in Windows,
               \/ onWillSaveState(w) \/ startSession(w)
               \/ clearAllHistoryEntries(w) \/ flushPending(w)
               \/ \E value \in flushing[w] : updateItems(w, value)
               \/ acceptExternal(w)
        PROVE  isEmptyWindow' = isEmptyWindow
    BY <2>2, Zenon DEF onWillSaveState, startSession, clearAllHistoryEntries,
      flushPending, updateItems, acceptExternal
  <2>3. ASSUME NEW w \in Windows,
               \/ openWindow(w) \/ closeWindow(w) \/ windowGone(w) \/ crash(w)
        PROVE  isEmptyWindow' = isEmptyWindow
    BY <2>3, Zenon DEF openWindow, closeWindow, windowGone, crash, forget
  <2>4. CASE onDidChangeStorage \/ UNCHANGED vars
    BY <2>4, Zenon DEF onDidChangeStorage, vars
  <2> QED
    BY <2>1, <2>2, <2>3, <2>4, Zenon DEF Next
<1>2. ~isEmptyWindow /\ Keeping
  BY <1>1, Zenon DEF KeepInv
<1>3. ASSUME NEW w \in Windows, startSession(w) PROVE Keeping'
  BY <1>2, <1>3, StartKeeps, Zenon
<1>4. ASSUME NEW w \in Windows, NEW c \in Chats,
             \/ getOrRestoreSession(w, c) \/ clearSession(w, c)
             \/ addRequest(w, c) \/ addResponse(w, c)
      PROVE  Keeping'
  <2>1. 1 \in Nat \ {0} /\ 2 \in Nat \ {0}
    OBVIOUS
  <2> QED
    BY <1>2, <1>4, <2>1, RestoreKeeps, ClearKeeps, AddKeeps, Zenon
      DEF addRequest, addResponse
<1>5. ASSUME NEW w \in Windows, NEW c \in Chats, removeHistoryEntry(w, c)
      PROVE  Keeping'
  BY <1>2, <1>5, SaveKeeps, Zenon
<1>6. ASSUME NEW w \in Windows,
             onWillSaveState(w) \/ clearAllHistoryEntries(w)
      PROVE  Keeping'
  BY <1>2, <1>6, SaveKeeps, Zenon
<1>7. ASSUME NEW w \in Windows, flushPending(w) PROVE Keeping'
  BY <1>2, <1>7, FlushKeeps, Zenon
<1>8. ASSUME NEW w \in Windows, NEW value \in flushing[w],
             updateItems(w, value)
      PROVE  Keeping'
  BY <1>2, <1>8, UpdateKeeps, Zenon
<1>9. ASSUME NEW w \in Windows,
             openWindow(w) \/ closeWindow(w) \/ windowGone(w) \/ crash(w)
      PROVE  Keeping'
  BY <1>2, <1>9, OpenWindowKeeps, CloseWindowKeeps, GoneKeeps, CrashKeeps, Zenon
<1>10. ~onDidChangeStorage /\ \A w \in Windows : ~acceptExternal(w)
  BY <1>2, Zenon DEF onDidChangeStorage, acceptExternal, Converging
<1>11. CASE UNCHANGED vars
  BY <1>2, <1>11 DEF vars, windowVars, history, Keeping, StoredGood, HistoryGood,
    PromiseKept, Holds, Promised, Good, Due
<1> QED
  BY <1>3, <1>4, <1>5, <1>6, <1>7, <1>8, <1>9, <1>10, <1>11, Zenon DEF Next

\* The promise about the stored value implies both properties.
LEMMA PromiseMeans ==
    ASSUME TypeOK, KeepInv
    PROVE  ClosedWindowKeepsAll /\ DeletedStaysDeleted
<1> SUFFICES ASSUME ~isEmptyWindow, AllClosed
             PROVE  /\ \A c \in DOMAIN owed :
                          c \in DOMAIN main /\ main[c].exchanges >= owed[c]
                    /\ gone \cap DOMAIN main = {}
  BY Zenon DEF ClosedWindowKeepsAll, DeletedStaysDeleted
<1>1. Promised(main) /\ HistoryGood
  BY Zenon DEF KeepInv, Keeping, PromiseKept, AllClosed
<1>2. DOMAIN owed \subseteq Chats /\ owed \in [DOMAIN owed -> 0 .. MaxExchanges]
  BY MapsDef, Zenon DEF TypeOK, LiveChats
<1>3. ASSUME NEW c \in DOMAIN owed
      PROVE  c \in DOMAIN main /\ main[c].exchanges >= owed[c]
  <2>1. Told(main, c) = owed[c] /\ owed[c] > 0 /\ owed[c] \in Nat
    BY <1>1, <1>2 DEF Promised, Due, HistoryGood
  <2>2. c \in DOMAIN main
    BY <2>1 DEF Told
  <2>3. main[c].exchanges = owed[c]
    BY <2>1, <2>2, Zenon DEF Told
  <2> QED
    BY <2>1, <2>2, <2>3
<1> QED
  BY <1>1, <1>3, Zenon DEF Promised

\* The state of windows, storage and history is well typed, and a closed
\* window holds no write back.
THEOREM StoreTyped == Spec => []TypeOK
  BY CachesConverge, PTL

\* A workspace whose window is closed has every exchange of its newest chats
\* stored, however chats were opened, cleared, restored, deleted and saved
\* before, for any number of chats, any limit on them and any crashes: the
\* join of live and persisted sessions in saveState loses none.
THEOREM NothingLost == Spec => []ClosedWindowKeepsAll
<1>1. StoreInv /\ KeepInv => ClosedWindowKeepsAll
  BY PromiseMeans, Zenon DEF StoreInv
<1> QED
  BY <1>1, InitStore, NextStore, InitKeeps, NextKeeps, PTL DEF Spec

\* A chat that was deleted in the history of a workspace is not stored when
\* the window is closed, though every save writes all chats again.
THEOREM DeletionLasts == Spec => []DeletedStaysDeleted
<1>1. StoreInv /\ KeepInv => DeletedStaysDeleted
  BY PromiseMeans, Zenon DEF StoreInv
<1> QED
  BY <1>1, InitStore, NextStore, InitKeeps, NextKeeps, PTL DEF Spec
=============================================================================
