---------------------------- MODULE MCTraversal ----------------------------
(***************************************************************************)
(* Instances of Traversal for TLC.                                         *)
(***************************************************************************)
EXTENDS Traversal

CONSTANTS a, b, c, d

(* All graphs over the nodes of "known" whose nodes have at most "fan"     *)
(* successors.                                                             *)
GraphsOver(known, fan) ==
    [known -> {S \in SUBSET known : Cardinality(S) <= fan}]

RootLists(S, n) == UNION {[1 .. k -> S] : k \in 0 .. n}

(* Every graph over three objects with two roots, one of which may be      *)
(* unknown or repeated; and the graphs of four objects with a root and at  *)
(* most two successors each, in which a node is reached over paths of      *)
(* three lengths.                                                          *)
MCInputs ==
    [adj : GraphsOver({a, b, c}, 3), roots : RootLists({a, b, d}, 2)]
        \union [adj : GraphsOver({a, b, c, d}, 2), roots : {<<a>>}]

(* A root that has no UID, as the objects that an API server makes up on   *)
(* request (ComponentStatus, PodMetrics).                                  *)
EmptyUidInputs ==
    [adj : GraphsOver({a, Delimiter}, 2), roots : {<<a>>, <<Delimiter>>}]
=============================================================================
