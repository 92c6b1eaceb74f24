\* Two sessions, two streams, two readers.
CONSTANTS
    s1 = s1
    s2 = s2
    NoSession = NoSession
    Sessions = {s1, s2}
    MaxStreams = 2
    MaxReaders = 2
SPECIFICATION FairSpec
CHECK_DEADLOCK FALSE
INVARIANTS
    TypeOK
    OpenUntilClosed
    ThinkingOfOpenStreams
PROPERTIES
    ClosesOneSession
    ErrorStreamsClose
