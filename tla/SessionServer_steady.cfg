\* Three connections and two descriptors, so one connection waits to be
\* accepted; client b may stop anywhere, also in its answer of two writes.
\* The process may really end.
SPECIFICATION FairSpec
CONSTANTS
    Conns <- MixedConns
    Asks <- Mixed
    Patient = {"a", "c"}
    Descriptors = 2
INVARIANTS TypeOK HandlersSeeHeads StatusCounts StatusTotal ShortAnswersArrive
PROPERTIES ConnectionsEnd ImplementsLog
CHECK_DEADLOCK FALSE
