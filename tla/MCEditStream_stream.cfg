\* One edit of a file with three lines, two requests at a time.
CONSTANTS
    r1 = r1
    r2 = r2
    Requests = {r1, r2}
    File <- MCFile
    Tokens <- MCTokens
    MaxTokens = 7
    MaxDelta = 3
SPECIFICATION Spec
CHECK_DEADLOCK FALSE
INVARIANTS
    TypeOK
    
    EndsAsExpected

    
