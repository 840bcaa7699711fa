------------------------------ MODULE MCTables ------------------------------
(***************************************************************************)
(* Instances of Tables for TLC.                                            *)
(***************************************************************************)
EXTENDS Tables

CONSTANTS u1, u2, u3, u4

Object(group, kind, ns, name, depth, prints) ==
    [group |-> group, kind |-> kind, ns |-> ns, name |-> name, depth |-> depth,
     namespaced |-> ns # 0, prints |-> prints]

(* Kinds 1 and 2 are namespaced, kind 1 in the core group and in another,  *)
(* kind 3 is cluster-scoped.                                               *)
Objects ==
    {Object(group, 1, ns, name, 1, TRUE) : group \in 0 .. 1, ns \in 1 .. 2, name \in 1 .. 2}
    \union {Object(1, 2, 1, 1, depth, TRUE) : depth \in 1 .. 2}
    \union {Object(0, 3, 0, 1, 1, FALSE), Object(0, 3, 0, 2, 2, TRUE)}

Release == [group |-> 0, kind |-> 0, ns |-> 1, name |-> 1, depth |-> 0,
            namespaced |-> FALSE, prints |-> FALSE]

Input(nodeMaps, depths, splits, flags) ==
    [nodes : nodeMaps, maxDepth : depths, root : {u1}, split : splits,
     showGroup : flags, showNamespace : flags]

(* Every pair of objects, with and without a release above them, and a map *)
(* without the root.                                                       *)
Pairs ==
    {(u1 :> Release) @@ (u2 :> o) @@ (u3 :> p) : o \in Objects, p \in Objects}
    \union {(u1 :> o) @@ (u2 :> p) : o \in Objects, p \in Objects}
    \union {(u2 :> o) : o \in {Object(0, 1, 1, 1, 1, TRUE)}}

(* Four requests: two namespaces of one class, a second class and group.   *)
Four ==
    {(u1 :> Object(0, 1, 1, 1, 0, TRUE)) @@ (u2 :> Object(0, 1, 2, 1, 1, TRUE))
        @@ (u3 :> Object(1, 1, 1, 1, 1, TRUE)) @@ (u4 :> Object(0, 3, 0, 1, 1, TRUE))}

MCInputs ==
    Input(Pairs, {0}, {FALSE}, BOOLEAN)
    \union Input(Pairs, {1}, {TRUE}, {FALSE})
    \union Input(Four, {0}, {TRUE}, {FALSE})

LostInputs == Input(Pairs, {0}, {TRUE}, {FALSE})
=============================================================================
