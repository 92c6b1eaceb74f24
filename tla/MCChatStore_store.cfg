\* Two windows: in a workspace three chats of which one is kept, else one chat.
CONSTANTS
    w1 = w1
    w2 = w2
    Windows = {w1, w2}
    maxPersistedSessions = 1
    MaxChats = 3
    MaxSharedChats = 1
    MaxExchanges = 2
    MaxSharedUpdates = 2
    MaxEvents = 1
SPECIFICATION Spec
SYMMETRY WindowSymmetry
INVARIANTS
    TypeOK
    
    DeletedStaysDeleted
    QuietCachesAgree
