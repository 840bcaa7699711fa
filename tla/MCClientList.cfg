CONSTANTS
    pods = pods
    nodes = nodes
    ns1 = ns1
    ns2 = ns2
    ns3 = ns3
    empty = empty
    Api = {pods, nodes}
    Namespaced = {pods}
    Namespace = {ns1, ns2, ns3}
    AllNamespaces = empty
    Requests <- MCRequests
    MaxPages = 2
SPECIFICATION FairSpec
INVARIANTS
    TypeOK
    ListIsWhole
    EveryScopeTried
    CauseReported
PROPERTIES
    ListReturns
    ImplementsAbstractList
CHECK_DEADLOCK FALSE
