----------------------------- MODULE ChatStore -----------------------------
(***************************************************************************)
(* How chats are kept between windows and restarts.  ChatService holds the *)
(* chats of a window as live models and as persisted sessions, and saves   *)
(* both under one key of a storage.  Every window has a cache of that      *)
(* storage and a write that waits to be flushed; the main process holds    *)
(* the value itself.                                                       *)
(*                                                                         *)
(* A window on a workspace is the only one with its storage.  Windows      *)
(* without a workspace share one value, and the main process tells all of  *)
(* them of its changes.  isEmptyWindow says which case a behaviour is.     *)
(***************************************************************************)
EXTENDS Naturals, Sequences, FiniteSets, Functions

CONSTANTS
    Windows,               \* the windows
    maxPersistedSessions,  \* how many chats are stored
    MaxChats,              \* bound: chats created in a workspace
    MaxSharedChats,        \* bound: chats created by empty windows
    MaxExchanges,          \* bound: exchanges of a chat
    MaxSharedUpdates,      \* bound: updates sent by empty windows
    MaxEvents              \* bound: change events under way to a window

ASSUME StoreAssumption ==
    /\ maxPersistedSessions \in Nat
    /\ MaxChats \in Nat
    /\ MaxSharedChats \in 0 .. MaxChats
    /\ MaxExchanges \in Nat
    /\ MaxSharedUpdates \in Nat
    /\ MaxEvents \in Nat

VARIABLES
    isEmptyWindow,  \* the windows have no workspace
    created,        \* the number of chats created; a chat is its number
    main,           \* the value in the main process
    changed,        \* main changed and the debounced event has not fired
    status,         \* a window is closed, open or closing
    models,         \* _sessionModels: the number of exchanges of each live chat
    persisted,      \* _persistedSessions of each window
    cache,          \* the window's copy of the value
    pending,        \* pendingInserts: no value or one
    flushing,       \* the update sent to the main process: no value or one
    updates,        \* how many updates empty windows sent
    events,         \* values of the change events under way to each window
    owed,           \* history: exchanges the user has a right to see again
    gone            \* history: chats the user deleted

windowVars == <<status, models, persisted, cache, pending, flushing,
                updates, events>>
history == <<owed, gone>>
vars == <<isEmptyWindow, created, main, changed, windowVars, history>>
-----------------------------------------------------------------------------
Chats == 1 .. MaxChats

\* What is stored of a chat.
Entry == [exchanges : 0 .. MaxExchanges, isNew : BOOLEAN]

\* Some chats, each with an element of E.
Maps(E) == UNION {[S -> E] : S \in SUBSET Chats}

Values == Maps(Entry)

LiveChats == Maps(0 .. MaxExchanges)

NoChats == [c \in {} |-> 0]

Without(f, S) == Restrict(f, DOMAIN f \ S)

\* f where it is defined, else g.
Over(f, g) ==
    [c \in DOMAIN f \cup DOMAIN g |-> IF c \in DOMAIN f THEN f[c] ELSE g[c]]

Init ==
    /\ isEmptyWindow \in BOOLEAN
    /\ created = 0
    /\ main = NoChats
    /\ changed = FALSE
    /\ status = [w \in Windows |-> "closed"]
    /\ models = [w \in Windows |-> NoChats]
    /\ persisted = [w \in Windows |-> NoChats]
    /\ cache = [w \in Windows |-> NoChats]
    /\ pending = [w \in Windows |-> {}]
    /\ flushing = [w \in Windows |-> {}]
    /\ updates = 0
    /\ events = [w \in Windows |-> <<>>]
    /\ owed = NoChats
    /\ gone = {}
-----------------------------------------------------------------------------
(* Saving. *)

\* Sorting by creation date and slicing: the newest chats are kept.
newest(f) ==
    Restrict(f, {c \in DOMAIN f :
        Cardinality({d \in DOMAIN f : d > c}) < maxPersistedSessions})

\* The chats of a window that are open and not empty, as toJSON gives them.
liveChats(w) ==
    [c \in {d \in DOMAIN models[w] : models[w][d] > 0} |->
        [exchanges |-> models[w][c], isNew |-> FALSE]]

\* Storage.set: returns early if the cache has the value already.
set(w, value) ==
    IF cache[w] = value
    THEN UNCHANGED <<cache, pending>>
    ELSE /\ cache' = [cache EXCEPT ![w] = value]
         /\ pending' = [pending EXCEPT ![w] = {value}]

\* The persisted sessions of an empty window after a save: those of the
\* storage, but for chats the window closed with more exchanges, and those
\* it created that the storage lacks.
syncEmptyWindowChats(sessions, stored) ==
    LET updated == {c \in DOMAIN sessions \cap DOMAIN stored :
                        sessions[c].exchanges > stored[c].exchanges}
        added == {c \in DOMAIN sessions \ DOMAIN stored : sessions[c].isNew}
    IN  [c \in DOMAIN stored \cup added |->
            IF c \in updated THEN sessions[c]
            ELSE IF c \in added THEN [sessions[c] EXCEPT !.isNew = FALSE]
            ELSE stored[c]]

\* In a workspace: the persisted sessions that are not empty and not live.
closedChats(w, sessions) ==
    Restrict(sessions, {c \in DOMAIN sessions \ DOMAIN models[w] :
                            sessions[c].exchanges > 0})

\* A save of a window whose persisted sessions are `sessions`, when the ids
\* `deleted` are in _deletedChatIds.  They are cleared at its end.
saveState(w, sessions, deleted) ==
    LET synced == syncEmptyWindowChats(sessions, Without(cache[w], deleted))
    IN  IF isEmptyWindow
        THEN /\ persisted' = [persisted EXCEPT ![w] = synced]
             /\ set(w, newest(Over(liveChats(w), synced)))
        ELSE /\ persisted' = [persisted EXCEPT ![w] = sessions]
             /\ set(w, newest(Over(liveChats(w), closedChats(w, sessions))))

onWillSaveState(w) ==
    /\ status[w] = "open"
    /\ saveState(w, persisted[w], {})
    /\ UNCHANGED <<isEmptyWindow, updates, created, main, changed, status,
                   models, flushing, events, history>>
-----------------------------------------------------------------------------
(* What the user is owed in a workspace: all exchanges of the chats that   *)
(* were not deleted, and of the newest of them once the window is closed.  *)
Owe(f, S) ==
    IF isEmptyWindow
    THEN UNCHANGED history
    ELSE owed' = f /\ gone' = S

\* After a crash the user is owed what has reached the storage.
OweLeft(value) ==
    Owe([c \in DOMAIN value |-> value[c].exchanges], gone \ DOMAIN value)
-----------------------------------------------------------------------------
(* Chats of a window. *)

startSession(w) ==
    /\ status[w] = "open"
    /\ created < (IF isEmptyWindow THEN MaxSharedChats ELSE MaxChats)
    /\ created' = created + 1
    /\ models' = [models EXCEPT ![w] = Over([c \in {created + 1} |-> 0], @)]
    /\ UNCHANGED <<isEmptyWindow, updates, main, changed, status, persisted,
                   cache, pending, flushing, events, history>>

getOrRestoreSession(w, c) ==
    /\ status[w] = "open"
    /\ c \in DOMAIN persisted[w] \ DOMAIN models[w]
    /\ models' =
         [models EXCEPT ![w] =
             Over([d \in {c} |-> persisted[w][c].exchanges], @)]
    /\ UNCHANGED <<isEmptyWindow, updates, created, main, changed, status,
                   persisted, cache, pending, flushing, events, history>>

\* A live chat grows.
addExchanges(w, c, n) ==
    /\ status[w] = "open"
    /\ c \in DOMAIN models[w]
    /\ models[w][c] + n <= MaxExchanges
    /\ models' = [models EXCEPT ![w][c] = @ + n]
    /\ Owe(Over([d \in {c} |-> models[w][c] + n], owed), gone)
    /\ UNCHANGED <<isEmptyWindow, updates, created, main, changed, status,
                   persisted, cache, pending, flushing, events>>

\* A request comes with an empty response.
addRequest(w, c) == addExchanges(w, c, 2)

addResponse(w, c) == addExchanges(w, c, 1)

\* Fault: a chat that was stored before is not written back when it closes.
clearAndForget(w, c) ==
    /\ status[w] = "open"
    /\ c \in DOMAIN models[w]
    /\ persisted' =
         [persisted EXCEPT ![w] =
             Over(@, [d \in {c} |->
                         [exchanges |-> models[w][c], isNew |-> TRUE]])]
    /\ models' = [models EXCEPT ![w] = Without(@, {c})]
    /\ UNCHANGED <<isEmptyWindow, updates, created, main, changed, status,
                   cache, pending, flushing, events, history>>

\* The chat becomes a persisted session, marked as new.
clearSession(w, c) ==
    /\ status[w] = "open"
    /\ c \in DOMAIN models[w]
    /\ persisted' =
         [persisted EXCEPT ![w] =
             Over([d \in {c} |->
                      [exchanges |-> models[w][c], isNew |-> TRUE]], @)]
    /\ models' = [models EXCEPT ![w] = Without(@, {c})]
    /\ UNCHANGED <<isEmptyWindow, updates, created, main, changed, status,
                   cache, pending, flushing, events, history>>

\* Fault: the chat is only noted as deleted.
removeOnlyFromStorage(w, c) ==
    /\ status[w] = "open"
    /\ c \in DOMAIN persisted[w] \ DOMAIN models[w]
    /\ saveState(w, persisted[w], {c})
    /\ Owe(Without(owed, {c}), gone \cup {c})
    /\ UNCHANGED <<isEmptyWindow, updates, created, main, changed, status,
                   models, flushing, events>>

\* The history picker offers it for chats that are not live.
removeHistoryEntry(w, c) ==
    /\ status[w] = "open"
    /\ c \in DOMAIN persisted[w] \ DOMAIN models[w]
    /\ saveState(w, Without(persisted[w], {c}), {c})
    /\ Owe(Without(owed, {c}), gone \cup {c})
    /\ UNCHANGED <<isEmptyWindow, updates, created, main, changed, status,
                   models, flushing, events>>

clearAllHistoryEntries(w) ==
    LET closed == DOMAIN persisted[w] \ DOMAIN models[w]
    IN  /\ status[w] = "open"
        /\ saveState(w, NoChats, DOMAIN persisted[w])
        /\ Owe(Without(owed, closed), gone \cup closed)
        /\ UNCHANGED <<isEmptyWindow, updates, created, main, changed, status,
                       models, flushing, events>>
-----------------------------------------------------------------------------
(* Storage. *)

\* flushPending, after its delay.  The throttler waits for the last update.
flushPending(w) ==
    /\ pending[w] # {}
    /\ flushing[w] = {}
    /\ IF isEmptyWindow
       THEN updates < MaxSharedUpdates /\ updates' = updates + 1
       ELSE UNCHANGED updates
    /\ flushing' = [flushing EXCEPT ![w] = pending[w]]
    /\ pending' = [pending EXCEPT ![w] = {}]
    /\ UNCHANGED <<isEmptyWindow, created, main, changed, status, models,
                   persisted, cache, events, history>>

\* Fault: the main process writes without an event.
updateSilently(w, value) ==
    /\ value \in flushing[w]
    /\ flushing' = [flushing EXCEPT ![w] = {}]
    /\ main' = value
    /\ UNCHANGED <<isEmptyWindow, updates, created, changed, status, models,
                   persisted, cache, pending, events, history>>

\* The main process sets the value; only application storage has events.
updateItems(w, value) ==
    /\ value \in flushing[w]
    /\ flushing' = [flushing EXCEPT ![w] = {}]
    /\ main' = value
    /\ changed' = (changed \/ (isEmptyWindow /\ main # value))
    /\ UNCHANGED <<isEmptyWindow, updates, created, status, models, persisted,
                   cache, pending, events, history>>

\* The debounced event carries the value of the moment it fires.
onDidChangeStorage ==
    /\ changed
    /\ \A w \in Windows : Len(events[w]) < MaxEvents
    /\ changed' = FALSE
    /\ events' = [w \in Windows |->
                    IF status[w] = "open" THEN Append(events[w], main)
                    ELSE events[w]]
    /\ UNCHANGED <<isEmptyWindow, updates, created, main, status, models,
                   persisted, cache, pending, flushing, history>>

\* The cache takes the value, whatever the window has pending.
acceptExternal(w) ==
    /\ events[w] # <<>>
    /\ cache' = [cache EXCEPT ![w] = Head(events[w])]
    /\ events' = [events EXCEPT ![w] = Tail(@)]
    /\ UNCHANGED <<isEmptyWindow, updates, created, main, changed, status,
                   models, persisted, pending, flushing, history>>
-----------------------------------------------------------------------------
(* Windows. *)

\* A window starts with what is stored.  A workspace has one window.
openWindow(w) ==
    /\ status[w] = "closed"
    /\ flushing[w] = {}
    /\ isEmptyWindow
         \/ \A v \in Windows : status[v] = "closed" /\ flushing[v] = {}
    /\ status' = [status EXCEPT ![w] = "open"]
    /\ cache' = [cache EXCEPT ![w] = main]
    /\ persisted' = [persisted EXCEPT ![w] = main]
    /\ UNCHANGED <<isEmptyWindow, updates, created, main, changed, models,
                   pending, flushing, events, history>>

\* Shutdown saves once more, then the storage closes: it takes no event.
closeWindow(w) ==
    /\ status[w] = "open"
    /\ saveState(w, persisted[w], {})
    /\ status' = [status EXCEPT ![w] = "closing"]
    /\ events' = [events EXCEPT ![w] = <<>>]
    /\ Owe(newest(owed), gone)
    /\ UNCHANGED <<isEmptyWindow, updates, created, main, changed, models,
                   flushing>>

\* A window that is no more has no memory.
forget(w) ==
    /\ status' = [status EXCEPT ![w] = "closed"]
    /\ models' = [models EXCEPT ![w] = NoChats]
    /\ persisted' = [persisted EXCEPT ![w] = NoChats]
    /\ cache' = [cache EXCEPT ![w] = NoChats]
    /\ UNCHANGED <<isEmptyWindow, updates, created, main, changed>>

\* Fault: the window goes while its last write waits for an earlier one.
goneUnflushed(w) ==
    /\ status[w] = "closing"
    /\ flushing[w] = {}
    /\ forget(w)
    /\ UNCHANGED <<pending, flushing, events, history>>

\* The window goes when its writes have reached the main process.
windowGone(w) ==
    /\ status[w] = "closing"
    /\ pending[w] = {}
    /\ flushing[w] = {}
    /\ forget(w)
    /\ UNCHANGED <<pending, flushing, events, history>>

\* A crash loses what is pending, and perhaps the update under way.  Then
\* only what is left is owed.
crash(w) ==
    /\ status[w] # "closed"
    /\ forget(w)
    /\ pending' = [pending EXCEPT ![w] = {}]
    /\ events' = [events EXCEPT ![w] = <<>>]
    /\ \/ flushing' = [flushing EXCEPT ![w] = {}] /\ OweLeft(main)
       \/ \E value \in flushing[w] : UNCHANGED flushing /\ OweLeft(value)
-----------------------------------------------------------------------------
Next ==
    \/ onDidChangeStorage
    \/ \E w \in Windows :
        \/ onWillSaveState(w)
        \/ startSession(w)
        \/ \E c \in Chats :
            \/ getOrRestoreSession(w, c)
            \/ addRequest(w, c)
            \/ addResponse(w, c)
            \/ clearSession(w, c)
            \/ removeHistoryEntry(w, c)
        \/ clearAllHistoryEntries(w)
        \/ flushPending(w)
        \/ \E value \in flushing[w] : updateItems(w, value)
        \/ acceptExternal(w)
        \/ openWindow(w)
        \/ closeWindow(w)
        \/ windowGone(w)
        \/ crash(w)

Spec == Init /\ [][Next]_vars
-----------------------------------------------------------------------------
(* Properties. *)

\* Types: every map is one from chats, and a window that is closed holds no
\* write back (Storage.doClose flushes before it ends).
TypeOK ==
    /\ isEmptyWindow \in BOOLEAN
    /\ created \in 0 .. MaxChats
    /\ main \in Values
    /\ changed \in BOOLEAN
    /\ status \in [Windows -> {"closed", "open", "closing"}]
    /\ models \in [Windows -> LiveChats]
    /\ persisted \in [Windows -> Values]
    /\ cache \in [Windows -> Values]
    /\ pending \in [Windows -> SUBSET Values]
    /\ flushing \in [Windows -> SUBSET Values]
    /\ updates \in 0 .. MaxSharedUpdates
    /\ events \in [Windows -> Seq(Values)]
    /\ owed \in LiveChats
    /\ gone \in SUBSET Chats
    /\ \A w \in Windows : status[w] = "closed" => pending[w] = {}

\* Nobody runs and nothing is under way.
AllClosed == \A w \in Windows : status[w] = "closed" /\ flushing[w] = {}

\* In a workspace every exchange of the chats that are kept is stored once
\* the window is closed, whatever was opened, closed, restored, deleted and
\* saved in between (saveState joins live and persisted sessions).
ClosedWindowKeepsAll ==
    ~isEmptyWindow /\ AllClosed =>
        \A c \in DOMAIN owed :
            c \in DOMAIN main /\ main[c].exchanges >= owed[c]

\* In a workspace a chat that was deleted is not stored once the window is
\* closed, though a save writes all sessions (removeHistoryEntry).
DeletedStaysDeleted ==
    ~isEmptyWindow /\ AllClosed => gone \cap DOMAIN main = {}

\* No window is out of date for ever: when no write and no event is under
\* way, the cache of every open window is the stored value, though writes
\* and events of several windows cross (acceptExternal, set).
QuietCachesAgree ==
    (~changed /\ \A w \in Windows : pending[w] = {} /\ flushing[w] = {}) =>
        \A w \in Windows :
            status[w] = "open" /\ events[w] = <<>> => cache[w] = main
=============================================================================
