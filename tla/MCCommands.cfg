CONSTANTS
    w = w
    p = p
    p2 = p2
    q = q
    e = e
    k = k
    s = s
    x = x
    y = y
    app = app
    nameW = nameW
    nameP = nameP
    nameQ = nameQ
    nameE = nameE
    nameK = nameK
    nameS = nameS
    Uid = {w, p, p2, q, e, k, s, nameW, nameP, nameQ, nameE, nameK, nameS}
    Class <- MCClass
    Name = {nameW, nameP, nameQ, nameE, nameK, nameS}
    Namespace = {"", x, y}
    Label = {app}
    Relationship = {"PodNode", "EventRegarding", "ControllerReference", "OwnerReference"}
    NodeClass <- Node
    ControllerRef = "ControllerReference"
    OwnerRef = "OwnerReference"
    NamespacedClass <- MCNamespaced
    Served <- MCServed
    Inputs <- MCInputs
SPECIFICATION FairSpec
INVARIANTS
    TypeOK
    ResultIsLineage
    ListedIsVisible
    OnlyRequestedShown
    TreeIsPrintable
    DepthsAreDistances
PROPERTY CommandReturns
CHECK_DEADLOCK FALSE
