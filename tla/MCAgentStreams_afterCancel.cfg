\* One session: a request and the cancellation of its stream.
CONSTANTS
    s1 = s1
    NoSession = NoSession
    Sessions = {s1}
    MaxStreams = 2
    MaxReaders = 2
SPECIFICATION FairSpec
CHECK_DEADLOCK FALSE
PROPERTIES
    NoExchangeAfterCancellation
