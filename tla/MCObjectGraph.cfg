CONSTANTS
    w = w
    p = p
    k = k
    k2 = k2
    name = name
    host = host
    gone = gone
    Workload = Workload
    Pod = Pod
    NodeK = NodeK
    x = x
    y = y
    none = none
    app = app
    rel1 = rel1
    rel2 = rel2
    controllerRef = controllerRef
    ownerRef = ownerRef
    Uid = {w, p, k, k2, name, host, gone}
    Class = {Workload, Pod, NodeK}
    NodeClass = NodeK
    Name = {name}
    Namespace = {none, x, y}
    Label = {app}
    Relationship = {rel1, rel2, controllerRef, ownerRef}
    ControllerRef = controllerRef
    OwnerRef = ownerRef
    Inputs <- MCInputs
SPECIFICATION Spec
INVARIANTS
    TypeOK
    MapsAgree
    EdgeTargetsKnown
    EdgesMutual
    GraphIsDeclared
CHECK_DEADLOCK FALSE
