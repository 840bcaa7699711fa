--------------------------- MODULE MCClientList ---------------------------
(***************************************************************************)
(* Instances of ClientList for TLC: pods are namespaced, nodes are not.    *)
(***************************************************************************)
EXTENDS ClientList

CONSTANTS pods, nodes, ns1, ns2, ns3, empty

(* Without namespaces, with -A, in a namespace, and in all of them with a  *)
(* namespace to fall back to: two resources, whose goroutines in ns1 share *)
(* the error.  And one resource in several namespaces, which share it too. *)
MCRequests ==
    [apis : {{pods, nodes}}, namespaces : {{}, {empty}, {ns1}, {ns1, empty}}]
        \union [apis : {{pods}}, namespaces : {{ns1, ns2, ns3}, {ns1, ns2, empty}}]
=============================================================================
