\* One chat that edits near and far lines of a file in two sessions.
CONSTANTS
    c1 = c1
    f1 = f1
    Chats = {c1}
    Files = {f1}
    Lines = {1, 2, 20}
    MaxEdits = 2
    MaxSessions = 2
    MaxTyped = 1
    MaxClosed = 1
    MaxSteps = 1
SPECIFICATION FairSpec
CHECK_DEADLOCK FALSE
INVARIANTS
    TypeOK
    IgnoringEnds
    
    EditsInOrder
PROPERTIES
    
    ViewsSettle
