--------------------------- MODULE MCTreePrinter ---------------------------
(***************************************************************************)
(* Instances of TreePrinter for TLC.                                       *)
(***************************************************************************)
EXTENDS TreeCells

CONSTANTS a, b, c, d, e

Rank == [u \in Uid |-> CASE u = a -> 1 [] u = b -> 2 [] u = c -> 3 [] u = d -> 4 [] u = e -> 5]

Plain == [class |-> "ConfigMap", conditions |-> <<>>]

Input(graphs, ranks, depths) ==
    [adj : graphs, rank : ranks, root : {a}, maxDepth : depths, objects : {[u \in Uid |-> Plain]}]

RankOf(known) == [u \in known |-> Rank[u]]

GraphsOver(known, most) ==
    [known -> {S \in SUBSET known : Cardinality(S) <= most}]

(* Containers of a pod, as the kubelet reports them.                       *)
Container(state, reason, code, signal, ready) ==
    [state |-> state, reason |-> reason, code |-> code, signal |-> signal, ready |-> ready]

Broken ==
    {Container("waiting", "CrashLoopBackOff", 0, 0, FALSE),
     Container("terminated", "Error", 1, 0, FALSE),
     Container("terminated", "", 137, 9, FALSE),
     Container("terminated", "", 2, 0, FALSE)}

Containers ==
    Broken \union
    {Container("running", "", 0, 0, TRUE), Container("running", "", 0, 0, FALSE),
     Container("waiting", "", 0, 0, FALSE),
     Container("terminated", "Completed", 0, 0, FALSE)}

Inits ==
    {<<>>, <<Container("terminated", "Completed", 0, 0, FALSE)>>,
     <<Container("terminated", "Completed", 0, 0, FALSE), Container("running", "", 0, 0, FALSE)>>,
     <<Container("waiting", "PodInitializing", 0, 0, FALSE)>>}
    \union {<<x>> : x \in Broken}

Pod(statuses, inits, conditionReady, reason, deleted) ==
    [class |-> "Pod", containers |-> Len(statuses), initContainers |-> Len(inits),
     phase |-> "Running", reason |-> reason, inits |-> inits, statuses |-> statuses,
     conditionReady |-> conditionReady, deleted |-> deleted]

Statuses == {<<x, y>> : x \in Containers, y \in Containers}

Pods ==
    {Pod(s, <<>>, ready, "", FALSE) : s \in Statuses, ready \in BOOLEAN}
    \union {Pod(<<x, y, z>>, <<>>, FALSE, "", FALSE) :
                x \in Containers, y \in Containers, z \in Containers}
    \union {Pod(<<x>>, inits, FALSE, "", FALSE) : x \in Containers, inits \in Inits}
    \union {Pod(<<x>>, <<>>, TRUE, reason, deleted) :
                x \in Containers, reason \in {"", "NodeLost", "DeadlineExceeded"}, deleted \in BOOLEAN}

Errors(message) == {<<>>} \union {<<[time |-> t, message |-> message]>> : t \in 1 .. 2}

Condition(type, status, reason, generation) ==
    [type |-> type, status |-> status, reason |-> reason, generation |-> generation]

OtherObjects ==
    [class : {"VolumeAttachment"}, attached : BOOLEAN,
     attachError : Errors("attach"), detachError : Errors("detach")]
    \union [class : {"Deployment"}, replicas : {3}, readyReplicas : {2}]
    \union [class : {"Event"}, reason : {"Killing"}, message : {"m"}, count : 1 .. 2]
    \union [class : {"APIService"},
             conditions : {<<>>} \union
                 {<<Condition("Other", "False", "Q", 1), Condition("Available", s, "R", 1)>> :
                     s \in {"True", "False"}}]
    \union [class : {"PodDisruptionBudget"}, generation : {2},
             conditions : {<<Condition("DisruptionAllowed", "True", "R", g)>> : g \in 1 .. 2}]
    \union [class : {"Release"}, status : {"Deployed", "Failed"}]
    \union [class : {"ConfigMap"},
             conditions : {<<Condition("Ready", s, "R", 1)>> : s \in {"True", "False"}}]

(* Each object below a root.                                               *)
ObjectInputs ==
    [adj : {(a :> {b}) @@ (b :> {})}, rank : {RankOf({a, b})}, root : {a}, maxDepth : {0},
     objects : {(a :> Plain) @@ (b :> o) : o \in Pods \union OtherObjects}]

(* Every graph over three nodes, with all or no ranks equal; and those of  *)
(* four nodes with at most two relations each.                             *)
MCInputs ==
    Input(GraphsOver({a, b, c}, 3), {RankOf({a, b, c}), [u \in {a, b, c} |-> 0]}, 0 .. 3)
    \union Input(GraphsOver({a, b, c, d}, 2), {RankOf({a, b, c, d})}, {0, 2, 3})
    \union ObjectInputs

(* Five nodes, the first branch of the root reaching a node the second one *)
(* reaches sooner.                                                         *)
SharedInputs ==
    Input({[u \in Uid |-> CASE u = a -> {b, c} [] u = b -> {c} [] u = c -> {d}
                            [] u = d -> {e} [] u = e -> S] : S \in SUBSET {a, b}},
          {RankOf(Uid)}, 0 .. 4)
=============================================================================
