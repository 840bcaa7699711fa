CONSTANTS
    x = x
    y = y
    n = n
    p = p
    q = q
    u1 = u1
    u2 = u2
    u3 = u3
    u4 = u4
    u5 = u5
    u6 = u6
    app = app
    Uid = {"", u1, u2, u3, u4, u5, u6, n, p, q}
    Class <- MCClass
    NodeClass <- Node
    Name = {"", n, p, q}
    Namespace = {"", x, y}
    Label = {app}
    Relationship <- MCRelationship
    ControllerRef = "ControllerReference"
    OwnerRef = "OwnerReference"
    InTree = {p}
    Clusters <- MCClusters
    Inputs <- MCInputs
SPECIFICATION ClusterSpec
INVARIANTS
    PolicyReachIsAuthorised
    UsersShown
CHECK_DEADLOCK FALSE
