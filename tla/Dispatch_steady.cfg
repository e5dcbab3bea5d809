SPECIFICATION Spec
CONSTANTS
    Configs <- AllConfigs
    Requests <- AllRequests
    Sent <- AllSent
    Paths <- AllPaths
    Occurs <- OccursHere
    Ports <- PortsHere
    Files <- FilesHere
    Types <- TypesHere
INVARIANTS
    TypeOK
    TablesAgree
    StatusShowsDispatch
    RightHandler
    RequestAsSent
    AttributesAreOwn
    EndsOnlyWhere
CHECK_DEADLOCK FALSE
