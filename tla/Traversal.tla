----------------------------- MODULE Traversal -----------------------------
(***************************************************************************)
(* The last part of resolveDeps (internal/graph/graph.go): the walk that   *)
(* starts at the objects the user asked about and collects, level by       *)
(* level, every object they reach through the relationships in one         *)
(* direction.  The result is the NodeMap the printers draw; the level at   *)
(* which a node is first met becomes its Depth, which --depth cuts at.     *)
(*                                                                         *)
(* One queue serves all levels: an empty UID marks the end of a level.     *)
(* Dependencies are stored in a Go map, so each node's are queued in an    *)
(* order that differs from run to run.                                     *)
(***************************************************************************)
EXTENDS Naturals, Sequences, FiniteSets, Functions

CONSTANTS
    Uid,         \* the UIDs of the objects
    Delimiter,   \* the empty UID, that ends a level in the queue
    Inputs       \* the graphs and lists of roots the walk may be given

(* A graph maps the UID of each known object (globalMapByUID) to the UIDs  *)
(* of its dependencies, or of its dependents.  They are all known objects: *)
(* an edge is only added between two nodes of the global maps.  A root may *)
(* be unknown, and may be listed twice.                                    *)
ASSUME InputsAssumption ==
    /\ IsFiniteSet(Uid)
    /\ \A i \in Inputs :
          /\ i.roots \in Seq(Uid)
          /\ \E known \in SUBSET Uid : i.adj \in [known -> SUBSET known]

VARIABLES
    adj,         \* input: the relationships, GetDeps of every node
    roots,       \* input: the UIDs to start from
    pc,          \* "roots" while they are queued, then "walk", then "done"
    ix,          \* the position in roots
    nodeMap,     \* the UIDs of the nodes resolved so far
    queue,       \* uidQueue
    seen,        \* uidSet
    depth,       \* the level being walked
    nodeDepth    \* the Depth field of every known node

input == <<adj, roots>>
vars == <<adj, roots, pc, ix, nodeMap, queue, seen, depth, nodeDepth>>

Known == DOMAIN adj

Init ==
    /\ \E i \in Inputs : adj = i.adj /\ roots = i.roots
    /\ pc = IF roots = <<>> THEN "done" ELSE "roots"
    /\ ix = 1
    /\ nodeMap = {}
    /\ queue = <<>>
    /\ seen = {}
    /\ depth = 0
    /\ nodeDepth = [u \in Known |-> 0]

(* Mutant of LoadRoot: the UID is queued without looking it up.            *)
LoadRootUnchecked ==
    /\ pc = "roots"
    /\ ix <= Len(roots)
    /\ nodeMap' = nodeMap \union {roots[ix]}
    /\ queue' = Append(queue, roots[ix])
    /\ ix' = ix + 1
    /\ UNCHANGED <<input, pc, seen, depth, nodeDepth>>

(* One turn of the loop over the provided UIDs: a UID that no listed       *)
(* object has is passed over.                                              *)
LoadRoot ==
    /\ pc = "roots"
    /\ ix <= Len(roots)
    /\ IF roots[ix] \in Known
       THEN /\ nodeMap' = nodeMap \union {roots[ix]}
            /\ queue' = Append(queue, roots[ix])
       ELSE UNCHANGED <<nodeMap, queue>>
    /\ ix' = ix + 1
    /\ UNCHANGED <<input, pc, seen, depth, nodeDepth>>

(* All roots queued: mark the end of level 0.                              *)
StartWalk ==
    /\ pc = "roots"
    /\ ix > Len(roots)
    /\ pc' = "walk"
    /\ depth' = 0
    /\ queue' = Append(queue, Delimiter)
    /\ UNCHANGED <<input, ix, nodeMap, seen, nodeDepth>>

(* Some entry is left beside the mark.                                     *)
Continues == pc = "walk" /\ Len(queue) > 1

(* Mutant of NextLevel: the level is not counted.                          *)
NextLevelUncounted ==
    /\ Continues
    /\ Head(queue) = Delimiter
    /\ queue' = Append(Tail(queue), Delimiter)
    /\ UNCHANGED <<input, pc, ix, nodeMap, seen, depth, nodeDepth>>

(* A level ends: put the mark behind the entries of the next one.          *)
NextLevel ==
    /\ Continues
    /\ Head(queue) = Delimiter
    /\ depth' = depth + 1
    /\ queue' = Append(Tail(queue), Delimiter)
    /\ UNCHANGED <<input, pc, ix, nodeMap, seen, nodeDepth>>

(* Mutant of Seen: no guard against cycles.                                *)
NeverSeen(u) == FALSE

Seen(u) == u \in seen

(* Mutant of SkipSeen: the entry is not taken off the queue.               *)
SkipSeenInPlace ==
    /\ Continues
    /\ Head(queue) # Delimiter
    /\ Seen(Head(queue))
    /\ UNCHANGED vars

(* A node that was met before: the guard against cycles.                   *)
SkipSeen ==
    /\ Continues
    /\ Head(queue) # Delimiter
    /\ Seen(Head(queue))
    /\ queue' = Tail(queue)
    /\ UNCHANGED <<input, pc, ix, nodeMap, seen, depth, nodeDepth>>

(* The orders in which ranging over a Go map may present the keys S.       *)
RangeOrders(S) == Surjection(1 .. Cardinality(S), S)

(* Mutant of Enqueue: the dependencies are put before the rest.            *)
EnqueueFirst(order) == queue' = order \o Tail(queue)

(* Take the first entry off the queue and queue others behind the rest.    *)
Enqueue(order) == queue' = Tail(queue) \o order

(* A node met for the first time: give it its depth, resolve all its       *)
(* dependencies and queue them for the next level.                         *)
Visit ==
    /\ Continues
    /\ Head(queue) # Delimiter
    /\ ~Seen(Head(queue))
    /\ LET u == Head(queue) IN
          /\ seen' = seen \union {u}
          /\ nodeDepth' = [nodeDepth EXCEPT ![u] =
                              IF @ = 0 \/ depth < @ THEN depth ELSE @]
          /\ nodeMap' = nodeMap \union adj[u]
          /\ \E order \in RangeOrders(adj[u]) : Enqueue(order)
    /\ UNCHANGED <<input, pc, ix, depth>>

(* Mutant of Stop: it leaves an entry beside the mark.                     *)
StopEarly ==
    /\ pc = "walk"
    /\ Len(queue) <= 2
    /\ pc' = "done"
    /\ UNCHANGED <<input, ix, nodeMap, queue, seen, depth, nodeDepth>>

Stop ==
    /\ pc = "walk"
    /\ Len(queue) <= 1
    /\ pc' = "done"
    /\ UNCHANGED <<input, ix, nodeMap, queue, seen, depth, nodeDepth>>

Next == LoadRoot \/ StartWalk \/ NextLevel \/ SkipSeen \/ Visit \/ Stop

Spec == Init /\ [][Next]_vars

(* A single thread that runs until it returns.                             *)
FairSpec == Spec /\ WF_vars(Next)

-----------------------------------------------------------------------------
TypeOK ==
    /\ Known \subseteq Uid
    /\ adj \in [Known -> SUBSET Known]
    /\ roots \in Seq(Uid)
    /\ pc \in {"roots", "walk", "done"}
    /\ ix \in 1 .. Len(roots) + 1
    /\ nodeMap \subseteq Known
    /\ queue \in Seq(Known \union {Delimiter})
    /\ seen \subseteq Known
    /\ depth \in Nat
    /\ nodeDepth \in [Known -> Nat]

(* The roots that name a listed object.                                    *)
Roots == Range(roots) \intersect Known

Closed(S) == \A u \in S : adj[u] \subseteq S

(* What resolveDeps promises ("resolves all dependencies or dependents of  *)
(* the provided objects"): the nodes it returns are those the roots reach, *)
(* that is the smallest closed set that holds the roots, whatever the      *)
(* cycles, the duplicate roots and the iteration orders.                   *)
ExactlyReachable ==
    pc = "done" =>
        /\ Roots \subseteq nodeMap
        /\ Closed(nodeMap)
        /\ \A S \in SUBSET Known :
              Roots \subseteq S /\ Closed(S) => nodeMap \subseteq S

(* "Allow nodes to keep the smallest depth": the Depth of a resolved node  *)
(* is its distance from the nearest root.  The roots are at 0, an edge     *)
(* leads at most one level down, and a node below the roots has a          *)
(* predecessor exactly one level up.                                       *)
DepthsAreDistances ==
    pc = "done" =>
        /\ \A r \in Roots : nodeDepth[r] = 0
        /\ \A u \in nodeMap : \A v \in adj[u] :
              nodeDepth[v] <= nodeDepth[u] + 1
        /\ \A v \in nodeMap \ Roots :
              \E u \in nodeMap : v \in adj[u] /\ nodeDepth[v] = nodeDepth[u] + 1

(* The walk makes progress: no level begins without a node visited in the  *)
(* one before it, so there are never more levels than visited nodes.       *)
DepthBounded == depth <= Cardinality(seen)

(* The walk implements Reachability: each of its steps follows the         *)
(* relationships of one resolved node or changes nothing that a caller     *)
(* sees, it returns only when nothing is left to follow, and it does       *)
(* return.                                                                 *)
R == INSTANCE Reachability WITH
        roots <- Range(roots), found <- nodeMap, returned <- (pc = "done")

ImplementsReachability == R!FairSpec

(* The walk returns: cycles and duplicates do not keep it going.           *)
Terminates == <>(pc = "done")

-----------------------------------------------------------------------------
(* The invariant that the proofs and the runs share.  The queue holds one  *)
(* mark; "now" are the UIDs before it, of the level being walked, "later"  *)
(* those behind it, of the next one.                                       *)
Entries(q, i, j) == {q[k] : k \in i .. j}

(* v may be met at a level: as a root at level 0, or as a successor of a   *)
(* node of the level above.                                                *)
Justified(v, level) ==
    \/ v \in Roots /\ level = 0
    \/ \E u \in seen : v \in adj[u] /\ nodeDepth[u] + 1 = level

(* What the walk owes to the successor v of a visited node u.              *)
Settled(u, v, now, later) ==
    \/ v \in seen /\ nodeDepth[v] <= nodeDepth[u] + 1
    \/ v \notin seen /\ v \in now /\ depth <= nodeDepth[u] + 1
    \/ v \notin seen /\ v \in later /\ depth = nodeDepth[u]

LevelInv(now, later) ==
    /\ now \union later \union seen \subseteq nodeMap
    /\ nodeMap \ seen \subseteq now \union later
    /\ \A v \in now : Justified(v, depth)
    /\ \A v \in later : Justified(v, depth + 1)
    /\ \A u \in seen : nodeDepth[u] <= depth /\ Justified(u, nodeDepth[u])
    /\ \A u \in seen : \A v \in adj[u] : Settled(u, v, now, later)
    /\ \A r \in Roots : IF r \in seen THEN nodeDepth[r] = 0
                                      ELSE r \in now /\ depth = 0
    /\ depth + (IF later = {} THEN 0 ELSE 1) <= Cardinality(seen)

WalkInv ==
    \E p \in DOMAIN queue :
        /\ queue[p] = Delimiter
        /\ LevelInv(Entries(queue, 1, p - 1), Entries(queue, p + 1, Len(queue)))

(* While the roots are queued nothing is visited.                          *)
RootsInv ==
    /\ seen = {} /\ depth = 0
    /\ Entries(queue, 1, Len(queue)) = nodeMap
    /\ nodeMap = {roots[i] : i \in 1 .. ix - 1} \intersect Known

(* No node is resolved that the roots do not reach.                        *)
OnlyReachable ==
    \A S \in SUBSET Known : Roots \subseteq S /\ Closed(S) => nodeMap \subseteq S

Unvisited == \A u \in Known \ seen : nodeDepth[u] = 0

(* The state of the queue justifies every depth given so far and accounts  *)
(* for every node that is not visited yet: no successor of a visited node  *)
(* is ever forgotten, and none is queued for a level too deep.             *)
QueueAccountsForAll ==
    /\ OnlyReachable
    /\ Unvisited
    /\ pc = "roots" => RootsInv
    /\ pc = "walk" => WalkInv
    /\ pc = "done" => /\ Roots \subseteq nodeMap
                      /\ nodeMap = seen
                      /\ \A r \in Roots : nodeDepth[r] = 0
                      /\ \A u \in seen : Justified(u, nodeDepth[u])
                      /\ \A u \in seen : \A v \in adj[u] :
                            v \in seen /\ nodeDepth[v] <= nodeDepth[u] + 1
                      /\ depth <= Cardinality(seen)
=============================================================================
