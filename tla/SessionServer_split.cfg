\* A form whose body comes in a packet of its own.
SPECIFICATION Spec
CONSTANTS
    Conns <- OneConn
    Asks <- Post
    Patient = {"a"}
    Descriptors = 1
INVARIANT HandlersSeeBodies
CHECK_DEADLOCK FALSE
