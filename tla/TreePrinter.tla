---------------------------- MODULE TreePrinter ----------------------------
(***************************************************************************)
(* nodeMapToTable and nodeDepsToTableRows                                  *)
(* (internal/printers/printers_humanreadable.go): draw the nodes resolved  *)
(* by the walk of Traversal as a tree, depth first.  A node is printed     *)
(* under every node it relates to, and its own relations are printed the   *)
(* first time it is met; --depth cuts the recursion.                       *)
(*                                                                         *)
(* The recursion is a stack of frames.  A prefix ("|   |-- ") is the list  *)
(* of what it is made of: for every level above, whether the branch there  *)
(* was the last one.                                                       *)
(***************************************************************************)
EXTENDS Naturals, Sequences, FiniteSets, Functions

CONSTANTS
    Uid,
    Inputs       \* what the printer may be given

(* A node map with the relations in one direction between its nodes, the   *)
(* sort rank of every node (namespace, kind, group, name: two nodes may    *)
(* have the same), the root and the depth to print, 0 for all.  The walk   *)
(* returns a closed node map (ExactlyReachable), so that the branches of   *)
(* the code for a relation that is not in it are never taken.              *)
ASSUME InputsAssumption ==
    \A i \in Inputs :
        /\ DOMAIN i.adj \in SUBSET Uid /\ IsFiniteSet(DOMAIN i.adj)
        /\ i.adj \in [DOMAIN i.adj -> SUBSET DOMAIN i.adj]
        /\ i.rank \in [DOMAIN i.adj -> Nat]
        /\ i.root \in DOMAIN i.adj
        /\ i.maxDepth \in Nat

VARIABLES
    input,      \* [adj, rank, root, maxDepth], never changed
    pc,         \* "root", then "call" or "loop", then "done"
    uidSet,     \* the nodes whose relations are printed, or being printed
    callee,     \* the arguments of the call being made: node, prefix
    stack,      \* the calls in progress, innermost last: node, prefix, and the
                \* sorted relations that are still to print
    rows        \* the table: node, its prefix, and the node whose relation it is

vars == <<input, pc, uidSet, callee, stack, rows>>

adj == input.adj
root == input.root
maxDepth == input.maxDepth

(* Mutant of SortDeps: the sorted relations are appended to a slice made   *)
(* with their number of elements, not with their capacity.                 *)
SortDepsPadded(S) ==
    {[i \in 1 .. Cardinality(S) |-> "nil"] \o s : s \in Surjection(1 .. Cardinality(S), S)}

(* The sort is not stable, and the relations come from a Go map: equal     *)
(* ranks come in any order.                                                *)
SortDeps(S) ==
    {s \in Surjection(1 .. Cardinality(S), S) :
        \A i, j \in DOMAIN s : i < j => input.rank[s[i]] <= input.rank[s[j]]}

Init ==
    /\ input \in Inputs
    /\ pc = "root"
    /\ uidSet = {}
    /\ callee = [uid |-> root, prefix |-> <<>>]
    /\ stack = <<>>
    /\ rows = <<>>

PrintRoot ==
    /\ pc = "root"
    /\ rows' = <<[uid |-> root, prefix |-> <<>>, of |-> root]>>
    /\ pc' = "call"
    /\ UNCHANGED <<input, uidSet, callee, stack>>

(* Mutant of Seen: no guard against cycles.                                *)
NeverSeen(u) == FALSE

Seen(u) == u \in uidSet

(* Mutant of SkipSeen: the call does not return.                           *)
SkipSeenInPlace == pc = "call" /\ Seen(callee.uid) /\ UNCHANGED vars

(* The guard against cycles: the relations of this node are printed at     *)
(* another place.                                                          *)
SkipSeen ==
    /\ pc = "call"
    /\ Seen(callee.uid)
    /\ pc' = "loop"
    /\ UNCHANGED <<input, uidSet, callee, stack, rows>>

Enter ==
    /\ pc = "call"
    /\ ~Seen(callee.uid)
    /\ uidSet' = uidSet \union {callee.uid}
    /\ \E deps \in SortDeps(adj[callee.uid]) :
          stack' = Append(stack, [uid |-> callee.uid, prefix |-> callee.prefix, deps |-> deps])
    /\ pc' = "loop"
    /\ UNCHANGED <<input, callee, rows>>

Top == stack[Len(stack)]

(* The parameter "depth" of the call at the top of the stack: 1 for the    *)
(* root.                                                                   *)
Depth == Len(Top.prefix) + 1

(* Mutants of Descends: 0 does not stand for "no limit", and one level too *)
(* many.                                                                   *)
DescendsLimited == Depth < maxDepth
DescendsPast == maxDepth = 0 \/ Depth <= maxDepth

Descends == maxDepth = 0 \/ Depth < maxDepth

(* Mutant of IsLast: the index of the last relation is one too small.      *)
IsLastButOne == Len(Top.deps) = 2

(* The relation that is printed next is the last one of its node.          *)
IsLast == Len(Top.deps) = 1

(* One turn of the loop over the sorted relations: a row for the next, and *)
(* a recursive call unless the depth is reached.                           *)
PrintDep ==
    /\ pc = "loop"
    /\ stack # <<>>
    /\ Top.deps # <<>>
    /\ LET child == Head(Top.deps)
           prefix == Append(Top.prefix, IsLast)
       IN /\ rows' = Append(rows, [uid |-> child, prefix |-> prefix, of |-> Top.uid])
          /\ stack' = [stack EXCEPT ![Len(stack)].deps = Tail(@)]
          /\ IF Descends
             THEN pc' = "call" /\ callee' = [uid |-> child, prefix |-> prefix]
             ELSE UNCHANGED <<pc, callee>>
    /\ UNCHANGED <<input, uidSet>>

Return ==
    /\ pc = "loop"
    /\ stack # <<>>
    /\ Top.deps = <<>>
    /\ stack' = SubSeq(stack, 1, Len(stack) - 1)
    /\ UNCHANGED <<input, pc, uidSet, callee, rows>>

Finish ==
    /\ pc = "loop"
    /\ stack = <<>>
    /\ pc' = "done"
    /\ UNCHANGED <<input, uidSet, callee, stack, rows>>

Next == PrintRoot \/ SkipSeen \/ Enter \/ PrintDep \/ Return \/ Finish

Spec == Init /\ [][Next]_vars

(* A single thread that runs until it returns.                             *)
FairSpec == Spec /\ WF_vars(Next)

-----------------------------------------------------------------------------
Nodes == DOMAIN adj

TypeOK ==
    /\ input \in Inputs
    /\ pc \in {"root", "call", "loop", "done"}
    /\ uidSet \subseteq Nodes
    /\ callee \in [uid : Nodes, prefix : Seq(BOOLEAN)]
    /\ stack \in Seq([uid : Nodes, prefix : Seq(BOOLEAN), deps : Seq(Nodes)])
    /\ rows \in Seq([uid : Nodes, prefix : Seq(BOOLEAN), of : Nodes])

(* The level at which row k is indented, 0 for the root.                   *)
Level(k) == Len(rows[k].prefix)

(* The nodes at most n relations away from the root.                       *)
Within(n) ==
    LET W[k \in 0 .. n] == IF k = 0 THEN {root}
                           ELSE W[k - 1] \union UNION {adj[u] : u \in W[k - 1]}
    IN  W[n]

Reachable == Within(Cardinality(Nodes))

(* Without --depth the tree shows every relation between the nodes that    *)
(* the root reaches, each of them once, cycles and shared dependencies     *)
(* included.                                                               *)
EveryRelationPrintedOnce ==
    pc = "done" /\ maxDepth = 0 =>
        /\ Len(rows) = 1 + Cardinality({e \in Reachable \X Reachable : e[2] \in adj[e[1]]})
        /\ \A u \in Reachable, v \in Reachable :
              v \in adj[u] => \E k \in 2 .. Len(rows) : rows[k].of = u /\ rows[k].uid = v

(* --depth: no row is deeper than asked, a row is never less deep than its *)
(* distance from the root, and nothing within two relations of the root is *)
(* left out.                                                               *)
DepthHonoured ==
    /\ \A k \in 1 .. Len(rows) :
          /\ maxDepth # 0 => Level(k) <= maxDepth
          /\ rows[k].uid \in Within(Level(k))
    /\ pc = "done" /\ maxDepth \in 1 .. 2 =>
          Within(maxDepth) = {rows[k].uid : k \in 1 .. Len(rows)}

(* Row j is the parent of row k: the nearest row above it, one level up.   *)
ParentRow(j, k) ==
    /\ j < k /\ Level(j) + 1 = Level(k)
    /\ \A i \in j + 1 .. k - 1 : Level(i) >= Level(k)

(* The drawing can be read: the row that the indentation makes the parent  *)
(* of another is the node whose relation it is, with the same lines to the *)
(* left; a row drawn as the last branch ("`--") has no later sibling, and  *)
(* in the finished tree one drawn as a middle branch ("|--") has one.      *)
DrawingIsATree ==
    /\ \A k \in 2 .. Len(rows) :
          \E j \in 1 .. k - 1 :
              /\ ParentRow(j, k)
              /\ rows[j].uid = rows[k].of
              /\ SubSeq(rows[k].prefix, 1, Level(j)) = rows[j].prefix
              /\ LET later == \E i \in k + 1 .. Len(rows) : ParentRow(j, i)
                     isLast == rows[k].prefix[Level(k)]
                 IN  /\ isLast => ~later
                     /\ pc = "done" /\ ~isLast => later

(* Cycles do not deepen the recursion: the calls in progress are for       *)
(* different nodes, so there are never more of them than nodes.            *)
RecursionBounded ==
    /\ {stack[k].uid : k \in 1 .. Len(stack)} \subseteq uidSet
    /\ \A j, k \in 1 .. Len(stack) : stack[j].uid = stack[k].uid => j = k

(* The printer returns whatever the cycles.                                *)
Terminates == <>(pc = "done")

(* "so that when printing the tree with a depth of 2, the node will still  *)
(* be printed": a node whose Depth, its distance from the root, is within  *)
(* the depth asked for has a row.                                          *)
WithinDepthPrinted ==
    pc = "done" /\ maxDepth # 0 =>
        Within(maxDepth) \subseteq {rows[k].uid : k \in 1 .. Len(rows)}
=============================================================================
