\* An answer that takes two writes.
SPECIFICATION Spec
CONSTANTS
    Conns <- OneConn
    Asks <- Large
    Patient = {"a"}
    Descriptors = 1
INVARIANT AnswersAreTheResponse
CHECK_DEADLOCK FALSE
