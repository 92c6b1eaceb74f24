\* A chat is closed and restored between two edits.
CONSTANTS
    c1 = c1
    f1 = f1
    Chats = {c1}
    Files = {f1}
    Lines = {1}
    MaxEdits = 2
    MaxSessions = 1
    MaxTyped = 0
    MaxClosed = 1
    MaxSteps = 2
SPECIFICATION Spec
CHECK_DEADLOCK FALSE
INVARIANTS
    NothingThrown
