\* One client of two resets its connection.
SPECIFICATION Spec
CONSTANTS
    Conns <- TwoConns
    Asks <- Proxied
    Patient = {"b"}
    Descriptors = 2
PROPERTY ErrorsStayLocal
CHECK_DEADLOCK FALSE
