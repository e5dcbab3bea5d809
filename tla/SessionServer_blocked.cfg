\* An upstream server that never answers, and a client that does not need it.
SPECIFICATION HangSpec
CONSTANTS
    Conns <- TwoConns
    Asks <- Proxied
    Patient = {"a", "b"}
    Descriptors = 2
PROPERTY LocalRequestsAnswered
CHECK_DEADLOCK FALSE
