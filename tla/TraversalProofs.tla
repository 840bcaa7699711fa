-------------------------- MODULE TraversalProofs --------------------------
(***************************************************************************)
(* Theorems about the walk of resolveDeps, for every finite set of objects *)
(* and every graph and list of roots.  They assume that no object has an   *)
(* empty UID: the run MCTraversalEmptyUid shows what happens otherwise.    *)
(***************************************************************************)
EXTENDS Traversal, FiniteSetTheorems, SequenceTheorems, TLAPS

(***************************************************************************)
(* Lemmas about the queue as a sequence.                                   *)
(***************************************************************************)
LEMMA Dequeue ==
    ASSUME NEW S, NEW q \in Seq(S), q # <<>>, NEW o \in Seq(S)
    PROVE  /\ Tail(q) \o o \in Seq(S)
           /\ Len(Tail(q) \o o) = Len(q) - 1 + Len(o)
           /\ \A k \in 1 .. Len(q) - 1 : (Tail(q) \o o)[k] = q[k + 1]
           /\ \A k \in 1 .. Len(o) : (Tail(q) \o o)[Len(q) - 1 + k] = o[k]
<1>1. /\ Tail(q) \in Seq(S)
      /\ Len(Tail(q)) = Len(q) - 1
      /\ \A k \in 1 .. Len(Tail(q)) : Tail(q)[k] = q[k + 1]
  BY HeadTailProperties
<1>2. /\ Tail(q) \o o \in Seq(S)
      /\ Len(Tail(q) \o o) = Len(Tail(q)) + Len(o)
      /\ \A k \in 1 .. Len(Tail(q)) + Len(o) :
            (Tail(q) \o o)[k] = IF k <= Len(Tail(q)) THEN Tail(q)[k]
                                                     ELSE o[k - Len(Tail(q))]
  BY <1>1, ConcatProperties
<1>3. Len(q) \in Nat /\ Len(o) \in Nat /\ Len(q) - 1 \in Nat
  BY <1>1, LenProperties
<1>4. ASSUME NEW k \in 1 .. Len(q) - 1
      PROVE  (Tail(q) \o o)[k] = q[k + 1]
  BY <1>1, <1>2, <1>3, <1>4
<1>5. ASSUME NEW k \in 1 .. Len(o)
      PROVE  (Tail(q) \o o)[Len(q) - 1 + k] = o[k]
  <2>1. /\ Len(q) - 1 + k \in 1 .. Len(Tail(q)) + Len(o)
        /\ ~(Len(q) - 1 + k <= Len(Tail(q)))
        /\ Len(q) - 1 + k - Len(Tail(q)) = k
    BY <1>1, <1>3
  <2> QED  BY <1>2, <2>1
<1> QED  BY <1>1, <1>2, <1>4, <1>5

(* Dequeuing the head and queueing the UIDs of o moves the mark one place  *)
(* to the front and adds those UIDs to the next level.                     *)
LEMMA LevelsAfterDequeue ==
    ASSUME NEW S, NEW q \in Seq(S), NEW o \in Seq(S),
           NEW p \in DOMAIN q, p # 1
    PROVE  LET r == Tail(q) \o o IN
           /\ p - 1 \in DOMAIN r
           /\ r[p - 1] = q[p]
           /\ Entries(q, 1, p - 1) = {Head(q)} \union Entries(r, 1, p - 2)
           /\ Entries(r, p, Len(r)) = Entries(q, p + 1, Len(q)) \union Range(o)
<1> DEFINE r == Tail(q) \o o
<1> HIDE DEF r
<1>1. Len(q) \in Nat /\ DOMAIN q = 1 .. Len(q) /\ Len(o) \in Nat /\ DOMAIN o = 1 .. Len(o)
  BY LenProperties
<1>2. q # <<>> /\ Head(q) = q[1] /\ p \in 2 .. Len(q)
  BY <1>1, HeadTailProperties
<1>3. /\ r \in Seq(S)
      /\ Len(r) = Len(q) - 1 + Len(o)
      /\ \A k \in 1 .. Len(q) - 1 : r[k] = q[k + 1]
      /\ \A k \in 1 .. Len(o) : r[Len(q) - 1 + k] = o[k]
  BY <1>2, Dequeue DEF r
<1>4. Len(r) \in Nat /\ DOMAIN r = 1 .. Len(r)
  BY <1>3, LenProperties
<1>5. p - 1 \in DOMAIN r /\ r[p - 1] = q[p]
  BY <1>1, <1>2, <1>3, <1>4
<1>6. Entries(q, 1, p - 1) = {Head(q)} \union Entries(r, 1, p - 2)
  <2>1. ASSUME NEW k \in 1 .. p - 1, k # 1
        PROVE  k - 1 \in 1 .. p - 2 /\ r[k - 1] = q[k]
    BY <1>1, <1>2, <1>3, <2>1
  <2>2. ASSUME NEW k \in 1 .. p - 2
        PROVE  k + 1 \in 1 .. p - 1 /\ r[k] = q[k + 1]
    BY <1>1, <1>2, <1>3, <2>2
  <2>3. 1 \in 1 .. p - 1
    BY <1>1, <1>2
  <2>4. ASSUME NEW x \in Entries(q, 1, p - 1)
        PROVE  x = Head(q) \/ x \in Entries(r, 1, p - 2)
    <3>1. PICK k \in 1 .. p - 1 : x = q[k]
      BY <2>4 DEF Entries
    <3>2. CASE k = 1
      BY <1>2, <3>1, <3>2
    <3>3. CASE k # 1
      BY <2>1, <3>1, <3>3 DEF Entries
    <3> QED  BY <3>2, <3>3
  <2>5. ASSUME NEW x \in Entries(r, 1, p - 2)
        PROVE  x \in Entries(q, 1, p - 1)
    <3>1. PICK k \in 1 .. p - 2 : x = r[k]
      BY <2>5 DEF Entries
    <3> QED  BY <2>2, <3>1 DEF Entries
  <2>6. Head(q) \in Entries(q, 1, p - 1)
    BY <1>2, <2>3 DEF Entries
  <2> QED  BY <2>4, <2>5, <2>6
<1>7. Entries(r, p, Len(r)) = Entries(q, p + 1, Len(q)) \union Range(o)
  <2>1. ASSUME NEW k \in p .. Len(r)
        PROVE  r[k] \in Entries(q, p + 1, Len(q)) \union Range(o)
    <3>1. CASE k <= Len(q) - 1
      <4>1. k + 1 \in p + 1 .. Len(q) /\ r[k] = q[k + 1]
        BY <1>1, <1>2, <1>3, <3>1
      <4> QED  BY <4>1 DEF Entries
    <3>2. CASE ~(k <= Len(q) - 1)
      <4>1. k - (Len(q) - 1) \in 1 .. Len(o) /\ Len(q) - 1 + (k - (Len(q) - 1)) = k
        BY <1>1, <1>2, <1>3, <3>2
      <4>2. r[k] = o[k - (Len(q) - 1)]
        BY <1>3, <4>1
      <4> QED  BY <1>1, <4>1, <4>2 DEF Range
    <3> QED  BY <3>1, <3>2
  <2>2. ASSUME NEW k \in p + 1 .. Len(q)
        PROVE  k - 1 \in p .. Len(r) /\ r[k - 1] = q[k]
    BY <1>1, <1>2, <1>3, <2>2
  <2>3. ASSUME NEW k \in 1 .. Len(o)
        PROVE  Len(q) - 1 + k \in p .. Len(r) /\ r[Len(q) - 1 + k] = o[k]
    BY <1>1, <1>2, <1>3, <2>3
  <2>4. Entries(r, p, Len(r)) \subseteq Entries(q, p + 1, Len(q)) \union Range(o)
    BY <2>1 DEF Entries
  <2>5. ASSUME NEW x \in Entries(q, p + 1, Len(q))
        PROVE  x \in Entries(r, p, Len(r))
    <3>1. PICK k \in p + 1 .. Len(q) : x = q[k]
      BY <2>5 DEF Entries
    <3> QED  BY <2>2, <3>1 DEF Entries
  <2>6. ASSUME NEW x \in Range(o)
        PROVE  x \in Entries(r, p, Len(r))
    <3>1. PICK k \in 1 .. Len(o) : x = o[k]
      BY <1>1, <2>6 DEF Range
    <3> QED  BY <2>3, <3>1 DEF Entries
  <2> QED  BY <2>4, <2>5, <2>6
<1> QED  BY <1>5, <1>6, <1>7 DEF r

(* Moving the mark from the front to the back turns the entries of the     *)
(* next level into those of the current one.                               *)
LEMMA LevelsAfterMark ==
    ASSUME NEW S, NEW q \in Seq(S), q # <<>>, NEW m \in S
    PROVE  LET r == Append(Tail(q), m) IN
           /\ r \in Seq(S)
           /\ Len(r) = Len(q)
           /\ Len(r) \in DOMAIN r
           /\ r[Len(r)] = m
           /\ Entries(r, 1, Len(r) - 1) = Entries(q, 2, Len(q))
           /\ Entries(r, Len(r) + 1, Len(r)) = {}
<1> DEFINE r == Append(Tail(q), m)
<1> HIDE DEF r
<1>1. Len(q) \in Nat /\ Len(q) # 0 /\ DOMAIN q = 1 .. Len(q)
  BY LenProperties, EmptySeq
<1>2. /\ Tail(q) \in Seq(S)
      /\ Len(Tail(q)) = Len(q) - 1
      /\ \A k \in 1 .. Len(Tail(q)) : Tail(q)[k] = q[k + 1]
  BY HeadTailProperties
<1>3. /\ r \in Seq(S)
      /\ Len(r) = Len(Tail(q)) + 1
      /\ \A k \in 1 .. Len(Tail(q)) : r[k] = Tail(q)[k]
      /\ r[Len(Tail(q)) + 1] = m
  BY <1>2, AppendProperties DEF r
<1>4. Len(r) = Len(q) /\ DOMAIN r = 1 .. Len(r)
  BY <1>1, <1>2, <1>3, LenProperties
<1>5. Entries(r, 1, Len(r) - 1) = Entries(q, 2, Len(q))
  <2>1. ASSUME NEW k \in 1 .. Len(r) - 1
        PROVE  k + 1 \in 2 .. Len(q) /\ r[k] = q[k + 1]
    BY <1>1, <1>2, <1>3, <1>4, <2>1
  <2>2. ASSUME NEW k \in 2 .. Len(q)
        PROVE  k - 1 \in 1 .. Len(r) - 1 /\ r[k - 1] = q[k]
    BY <1>1, <1>2, <1>3, <1>4, <2>2
  <2> QED  BY <2>1, <2>2 DEF Entries
<1>6. Entries(r, Len(r) + 1, Len(r)) = {}
  BY <1>1, <1>4 DEF Entries
<1> QED  BY <1>1, <1>2, <1>3, <1>4, <1>5, <1>6 DEF r

(***************************************************************************)
(* Type correctness.                                                       *)
(***************************************************************************)
LEMMA FiniteDeps ==
    ASSUME TypeOK, NEW u \in Known, NEW order \in RangeOrders(adj[u]), IsFiniteSet(Known)
    PROVE  order \in Seq(adj[u]) /\ Range(order) = adj[u]
<1>1. adj[u] \subseteq Known
  BY DEF TypeOK
<1>2. IsFiniteSet(adj[u])
  BY <1>1, FS_Subset
<1>3. Cardinality(adj[u]) \in Nat
  BY <1>2, FS_CardinalityType
<1>4. /\ order \in [1 .. Cardinality(adj[u]) -> adj[u]]
      /\ \A v \in adj[u] : \E k \in 1 .. Cardinality(adj[u]) : order[k] = v
  BY DEF RangeOrders, Surjection
<1>5. order \in Seq(adj[u])
  BY <1>3, <1>4, IsASeq
<1>6. Range(order) = adj[u]
  BY <1>4 DEF Range
<1> QED  BY <1>5, <1>6

LEMMA TypeInit == Init => TypeOK /\ IsFiniteSet(Known)
<1> SUFFICES ASSUME Init PROVE TypeOK /\ IsFiniteSet(Known)
  OBVIOUS
<1>1. PICK i \in Inputs : adj = i.adj /\ roots = i.roots
  BY DEF Init
<1>2. PICK known \in SUBSET Uid : i.adj \in [known -> SUBSET known]
  BY InputsAssumption
<1>3. Known = known /\ Known \subseteq Uid /\ adj \in [Known -> SUBSET Known]
  BY <1>1, <1>2 DEF Known
<1>4. IsFiniteSet(Known)
  BY <1>3, InputsAssumption, FS_Subset
<1>5. roots \in Seq(Uid) /\ Len(roots) \in Nat
  BY <1>1, InputsAssumption, LenProperties
<1>6. queue \in Seq(Known \union {Delimiter})
  BY EmptySeq DEF Init
<1>7. nodeDepth \in [Known -> Nat]
  BY DEF Init
<1> QED  BY <1>3, <1>4, <1>5, <1>6, <1>7 DEF Init, TypeOK

LEMMA TypeStep ==
    ASSUME TypeOK, IsFiniteSet(Known), [Next]_vars
    PROVE  TypeOK' /\ IsFiniteSet(Known)'
<1> DEFINE Entry == Known \union {Delimiter}
<1>1. UNCHANGED input /\ Known' = Known
  BY DEF Next, LoadRoot, StartWalk, NextLevel, SkipSeen, Visit, Seen, Enqueue, Stop, vars, input, Known
<1>2. /\ Len(roots) \in Nat /\ DOMAIN roots = 1 .. Len(roots)
      /\ \A i \in 1 .. Len(roots) : roots[i] \in Uid
  BY LenProperties, ElementOfSeq DEF TypeOK
<1>3. CASE LoadRoot
  <2>1. ix' \in 1 .. Len(roots') + 1
    BY <1>1, <1>2, <1>3 DEF LoadRoot, TypeOK, input
  <2>2. CASE roots[ix] \in Known
    <3>1. queue \in Seq(Entry) /\ roots[ix] \in Entry /\ queue' = Append(queue, roots[ix])
      BY <1>3, <2>2 DEF LoadRoot, TypeOK
    <3>2. queue' \in Seq(Entry)
      BY <3>1, AppendProperties
    <3> QED  BY <1>1, <1>3, <2>1, <2>2, <3>1, <3>2 DEF LoadRoot, TypeOK, input
  <2>3. CASE roots[ix] \notin Known
    BY <1>1, <1>3, <2>1, <2>3 DEF LoadRoot, TypeOK, input
  <2> QED  BY <1>1, <2>2, <2>3
<1>4. CASE StartWalk
  <2>1. queue' \in Seq(Entry)
    BY <1>4, AppendProperties DEF StartWalk, TypeOK
  <2> QED  BY <1>1, <1>4, <2>1 DEF StartWalk, TypeOK, input
<1>5. CASE NextLevel
  <2>1. queue # <<>>
    BY <1>5, LenProperties, EmptySeq DEF NextLevel, Continues, TypeOK
  <2>2. queue' \in Seq(Entry)
    BY <1>5, <2>1, LevelsAfterMark DEF NextLevel, TypeOK
  <2> QED  BY <1>1, <1>5, <2>2 DEF NextLevel, TypeOK, input
<1>6. CASE SkipSeen
  <2>1. queue # <<>>
    BY <1>6, LenProperties, EmptySeq DEF SkipSeen, Seen, Continues, TypeOK
  <2>2. queue' \in Seq(Entry)
    BY <1>6, <2>1, HeadTailProperties DEF SkipSeen, Seen, TypeOK
  <2> QED  BY <1>1, <1>6, <2>2 DEF SkipSeen, Seen, TypeOK, input
<1>7. CASE Visit
  <2> DEFINE u == Head(queue)
  <2>1. queue # <<>>
    BY <1>7, LenProperties, EmptySeq DEF Visit, Seen, Enqueue, Continues, TypeOK
  <2>2. u \in Entry /\ u # Delimiter
    BY <1>7, <2>1, HeadTailProperties DEF Visit, Seen, Enqueue, TypeOK
  <2>3. PICK order \in RangeOrders(adj[u]) : queue' = Tail(queue) \o order
    BY <1>7 DEF Visit, Seen, Enqueue
  <2>4. order \in Seq(adj[u]) /\ adj[u] \subseteq Entry
    BY <2>2, FiniteDeps DEF TypeOK
  <2>5. order \in Seq(Entry)
    BY <2>4, SeqMonotonic
  <2>6. queue' \in Seq(Entry)
    BY <2>1, <2>3, <2>5, Dequeue DEF TypeOK
  <2>7. nodeMap' \subseteq Known /\ nodeDepth' \in [Known -> Nat]
    BY <1>7, <2>2 DEF Visit, Seen, Enqueue, TypeOK
  <2> QED  BY <1>1, <1>7, <2>2, <2>6, <2>7 DEF Visit, Seen, Enqueue, TypeOK, input
<1>8. CASE Stop
  BY <1>1, <1>8 DEF Stop, TypeOK, input
<1>9. CASE UNCHANGED vars
  BY <1>9 DEF vars, TypeOK, Known
<1> QED  BY <1>3, <1>4, <1>5, <1>6, <1>7, <1>8, <1>9 DEF Next

(***************************************************************************)
(* The steps of the walk preserve what the queue accounts for.             *)
(***************************************************************************)
LEMMA MarkStep ==
    ASSUME TypeOK, WalkInv, NextLevel, Delimiter \notin Uid
    PROVE  WalkInv'
<1>1. PICK p \in DOMAIN queue :
        /\ queue[p] = Delimiter
        /\ LevelInv(Entries(queue, 1, p - 1), Entries(queue, p + 1, Len(queue)))
  BY DEF WalkInv
<1>2. queue \in Seq(Known \union {Delimiter}) /\ queue # <<>> /\ Len(queue) \in Nat
      /\ Head(queue) = queue[1] /\ Len(queue) > 1
  BY LenProperties, EmptySeq, HeadTailProperties DEF NextLevel, Continues, TypeOK
<1>3. p = 1
  <2>1. SUFFICES ASSUME p # 1 PROVE FALSE
    OBVIOUS
  <2>2. 1 \in 1 .. p - 1
    BY <1>2, <2>1, LenProperties
  <2>3. queue[1] \in Entries(queue, 1, p - 1)
    BY <2>2 DEF Entries
  <2>4. queue[1] \in Known
    BY <1>1, <2>3 DEF LevelInv, TypeOK
  <2> QED  BY <1>2, <2>4 DEF NextLevel, TypeOK
<1>4. PICK later : later = Entries(queue, 2, Len(queue))
  OBVIOUS
<1>5. Entries(queue, 1, p - 1) = {} /\ Entries(queue, p + 1, Len(queue)) = later
  BY <1>3, <1>4 DEF Entries
<1>6. LevelInv({}, later)
  BY <1>1, <1>5
<1>7. /\ Len(queue') \in DOMAIN queue'
      /\ queue'[Len(queue')] = Delimiter
      /\ Entries(queue', 1, Len(queue') - 1) = later
      /\ Entries(queue', Len(queue') + 1, Len(queue')) = {}
  BY <1>2, <1>4, LevelsAfterMark DEF NextLevel
<1>8. UNCHANGED <<adj, roots, nodeMap, seen, nodeDepth>> /\ depth' = depth + 1
  BY DEF NextLevel, input
<1>9. UNCHANGED <<Known, Roots>> /\ Roots \subseteq Known
  BY <1>8 DEF Known, Roots
<1>10. later # {}
  <2>1. 2 \in 2 .. Len(queue)
    BY <1>2
  <2> QED  BY <1>4, <2>1 DEF Entries
<1>11. depth \in Nat /\ \A u \in seen : nodeDepth[u] \in Nat
  BY DEF TypeOK
<1>12. (later \union seen \subseteq nodeMap /\ nodeMap \ seen \subseteq later)'
  BY <1>6, <1>8 DEF LevelInv
<1>13. (\A v \in later : Justified(v, depth))'
  BY <1>6, <1>8, <1>9 DEF LevelInv, Justified
<1>14. (\A u \in seen : nodeDepth[u] <= depth /\ Justified(u, nodeDepth[u]))'
  BY <1>6, <1>8, <1>9, <1>11 DEF LevelInv, Justified
<1>15. (\A u \in seen : \A v \in adj[u] : Settled(u, v, later, {}))'
  <2>1. \A u \in seen : \A v \in adj[u] : Settled(u, v, {}, later)
    BY <1>6 DEF LevelInv
  <2> QED  BY <1>8, <1>11, <2>1 DEF Settled
<1>16. (\A r \in Roots : IF r \in seen THEN nodeDepth[r] = 0
                                       ELSE r \in later /\ depth = 0)'
  BY <1>6, <1>8, <1>9 DEF LevelInv
<1>17. (depth + 0 <= Cardinality(seen))'
  BY <1>6, <1>8, <1>10, <1>11 DEF LevelInv
<1>18. LevelInv(later, {})'
  BY <1>12, <1>13, <1>14, <1>15, <1>16, <1>17 DEF LevelInv
<1>19. WalkInv'
  BY <1>7, <1>18 DEF WalkInv
<1> QED  BY <1>19

(* Unless it is the mark, the head of the queue is an entry of this level. *)
LEMMA HeadIsNow ==
    ASSUME TypeOK, Continues, Head(queue) # Delimiter,
           NEW p \in DOMAIN queue, queue[p] = Delimiter,
           LevelInv(Entries(queue, 1, p - 1), Entries(queue, p + 1, Len(queue)))
    PROVE  /\ p # 1
           /\ queue # <<>>
           /\ Head(queue) \in Entries(queue, 1, p - 1)
           /\ Head(queue) \in nodeMap
<1>1. /\ queue \in Seq(Known \union {Delimiter}) /\ queue # <<>>
      /\ Head(queue) = queue[1] /\ DOMAIN queue = 1 .. Len(queue)
      /\ Len(queue) \in Nat
  BY LenProperties, EmptySeq, HeadTailProperties DEF Continues, TypeOK
<1>2. p # 1 /\ 1 \in 1 .. p - 1
  BY <1>1
<1>3. Head(queue) \in Entries(queue, 1, p - 1)
  BY <1>1, <1>2 DEF Entries
<1> QED  BY <1>1, <1>2, <1>3 DEF LevelInv

LEMMA SkipStep ==
    ASSUME TypeOK, WalkInv, SkipSeen
    PROVE  WalkInv'
<1>1. PICK p \in DOMAIN queue :
        /\ queue[p] = Delimiter
        /\ LevelInv(Entries(queue, 1, p - 1), Entries(queue, p + 1, Len(queue)))
  BY DEF WalkInv
<1>0. PICK u : u = Head(queue)
  OBVIOUS
<1>2. p # 1 /\ queue # <<>> /\ u \in seen
  BY <1>0, <1>1, HeadIsNow DEF SkipSeen, Seen
<1>3. Tail(queue) \o <<>> = Tail(queue)
  BY <1>2, HeadTailProperties, ConcatEmptySeq DEF TypeOK
<1>4. PICK now, next, later :
        /\ now = Entries(queue, 1, p - 1)
        /\ later = Entries(queue, p + 1, Len(queue))
        /\ next = Entries(queue', 1, p - 2)
  OBVIOUS
<1>5. /\ p - 1 \in DOMAIN queue'
      /\ queue'[p - 1] = Delimiter
      /\ now = {u} \union next
      /\ Entries(queue', p, Len(queue')) = later
  <2>1. PICK none : none = <<>>
    OBVIOUS
  <2>2. none \in Seq(Known \union {Delimiter})
    BY <2>1, EmptySeq
  <2>3. queue' = Tail(queue) \o none
    BY <1>3, <2>1 DEF SkipSeen, Seen
  <2>4. /\ p - 1 \in DOMAIN queue'
        /\ queue'[p - 1] = queue[p]
        /\ Entries(queue, 1, p - 1) = {Head(queue)} \union Entries(queue', 1, p - 2)
        /\ Entries(queue', p, Len(queue'))
              = Entries(queue, p + 1, Len(queue)) \union Range(none)
    BY <1>2, <2>2, <2>3, LevelsAfterDequeue DEF TypeOK
  <2>5. Range(none) = {}
    BY <2>1 DEF Range
  <2> QED  BY <1>0, <1>1, <1>4, <2>4, <2>5
<1>6. LevelInv(now, later)
  BY <1>1, <1>4
<1>7. UNCHANGED <<adj, roots, nodeMap, seen, depth, nodeDepth>>
  BY DEF SkipSeen, Seen, input
<1>8. UNCHANGED <<Known, Roots>>
  BY <1>7 DEF Known, Roots
<1>9. LevelInv(next, later)
  <2>1. \A w \in seen : \A v \in adj[w] : Settled(w, v, next, later)
    BY <1>2, <1>5, <1>6 DEF LevelInv, Settled
  <2>2. /\ next \union later \union seen \subseteq nodeMap
        /\ nodeMap \ seen \subseteq next \union later
        /\ \A r \in Roots : IF r \in seen THEN nodeDepth[r] = 0
                                          ELSE r \in next /\ depth = 0
    BY <1>2, <1>5, <1>6 DEF LevelInv
  <2>3. \A v \in next : Justified(v, depth)
    BY <1>5, <1>6 DEF LevelInv
  <2> QED  BY <1>6, <2>1, <2>2, <2>3 DEF LevelInv
<1>10. LevelInv(next, later)'
  BY <1>7, <1>8, <1>9 DEF LevelInv, Justified, Settled
<1>11. p \in Nat /\ (p - 1) - 1 = p - 2 /\ (p - 1) + 1 = p
  BY LenProperties DEF TypeOK
<1>12. WalkInv'
  BY <1>4, <1>5, <1>10, <1>11 DEF WalkInv
<1> QED  BY <1>12

LEMMA VisitStep ==
    ASSUME TypeOK, WalkInv, Unvisited, Visit, IsFiniteSet(Known), Delimiter \notin Uid
    PROVE  WalkInv'
<1>1. PICK p \in DOMAIN queue :
        /\ queue[p] = Delimiter
        /\ LevelInv(Entries(queue, 1, p - 1), Entries(queue, p + 1, Len(queue)))
  BY DEF WalkInv
<1>0. PICK u : u = Head(queue)
  OBVIOUS
<1>2. p # 1 /\ queue # <<>> /\ u \in nodeMap /\ u \in Known /\ u \notin seen
  BY <1>0, <1>1, HeadIsNow DEF Visit, Seen, Enqueue, TypeOK
<1>3. PICK order \in RangeOrders(adj[u]) : queue' = Tail(queue) \o order
  BY <1>0 DEF Visit, Seen, Enqueue
<1>4. order \in Seq(Known \union {Delimiter}) /\ Range(order) = adj[u]
  <2>1. order \in Seq(adj[u]) /\ Range(order) = adj[u]
    BY <1>2, FiniteDeps
  <2>2. adj[u] \subseteq Known \union {Delimiter}
    BY <1>2 DEF TypeOK
  <2> QED  BY <2>1, <2>2, SeqMonotonic
<1>5. PICK now, next, later :
        /\ now = Entries(queue, 1, p - 1)
        /\ later = Entries(queue, p + 1, Len(queue))
        /\ next = Entries(queue', 1, p - 2)
  OBVIOUS
<1>6. /\ p - 1 \in DOMAIN queue'
      /\ queue'[p - 1] = Delimiter
      /\ now = {u} \union next
      /\ Entries(queue', p, Len(queue')) = later \union adj[u]
  BY <1>0, <1>1, <1>2, <1>3, <1>4, <1>5, LevelsAfterDequeue DEF TypeOK
<1>7. LevelInv(now, later)
  BY <1>1, <1>5
<1>8. /\ UNCHANGED <<adj, roots, depth>>
      /\ seen' = seen \union {u}
      /\ nodeMap' = nodeMap \union adj[u]
  BY <1>0 DEF Visit, Seen, Enqueue, input
<1>9. UNCHANGED <<Known, Roots>>
  BY <1>8 DEF Known, Roots
<1>10. depth \in Nat /\ \A w \in Known : nodeDepth[w] \in Nat
  BY DEF TypeOK
<1>11. nodeDepth' = [nodeDepth EXCEPT ![u] = depth]
  BY <1>0, <1>2 DEF Visit, Seen, Enqueue, Unvisited
<1>12. nodeDepth'[u] = depth /\ \A w \in seen : nodeDepth'[w] = nodeDepth[w]
  BY <1>2, <1>11 DEF TypeOK
<1>13. seen \subseteq Known
  BY DEF TypeOK
<1> PICK future : future = later \union adj[u]
  OBVIOUS
<1>14. (/\ next \union future \union seen \subseteq nodeMap
        /\ nodeMap \ seen \subseteq next \union future)'
  BY <1>2, <1>6, <1>7, <1>8 DEF LevelInv
<1>15. \A v, level : Justified(v, level) => Justified(v, level)'
  BY <1>8, <1>9, <1>12 DEF Justified
<1>16. (\A v \in next : Justified(v, depth))'
  BY <1>6, <1>7, <1>8, <1>9, <1>12 DEF LevelInv, Justified
<1>17. (\A v \in future : Justified(v, depth + 1))'
  <2>1. ASSUME NEW v \in later
        PROVE  Justified(v, depth + 1)'
    BY <1>7, <1>8, <1>9, <1>12 DEF LevelInv, Justified
  <2>2. ASSUME NEW v \in adj[u]
        PROVE  Justified(v, depth + 1)'
    BY <1>8, <1>12 DEF Justified
  <2> QED  BY <1>8, <2>1, <2>2
<1>18. (\A w \in seen : nodeDepth[w] <= depth /\ Justified(w, nodeDepth[w]))'
  <2>1. ASSUME NEW w \in seen
        PROVE  (nodeDepth[w] <= depth /\ Justified(w, nodeDepth[w]))'
    BY <1>7, <1>8, <1>9, <1>12 DEF LevelInv, Justified
  <2>2. Justified(u, depth)
    BY <1>6, <1>7 DEF LevelInv
  <2>3. (nodeDepth[u] <= depth)' /\ Justified(u, nodeDepth[u])'
    BY <1>8, <1>9, <1>10, <1>12, <2>2 DEF Justified
  <2> QED  BY <1>8, <2>1, <2>3
<1>19. (\A w \in seen : \A v \in adj[w] : Settled(w, v, next, future))'
  <2>1. ASSUME NEW w \in seen, NEW v \in adj[w]
        PROVE  Settled(w, v, next, future)'
    <3>1. Settled(w, v, now, later)
      BY <1>7 DEF LevelInv
    <3>2. nodeDepth[w] \in Nat /\ nodeDepth[w] <= depth
      BY <1>7, <1>10, <1>13 DEF LevelInv
    <3>3. CASE v = u
      BY <1>2, <1>8, <1>10, <1>12, <3>1, <3>2, <3>3 DEF Settled
    <3>4. CASE v # u
      BY <1>6, <1>8, <1>12, <3>1, <3>4 DEF Settled
    <3> QED  BY <3>3, <3>4
  <2>2. ASSUME NEW v \in adj[u]
        PROVE  Settled(u, v, next, future)'
    <3>1. CASE v \in seen
      BY <1>7, <1>8, <1>10, <1>12, <1>13, <3>1 DEF Settled, LevelInv
    <3>2. CASE v = u
      BY <1>8, <1>10, <1>12, <3>2 DEF Settled
    <3>3. CASE v \notin seen /\ v # u
      BY <1>8, <1>12, <3>3 DEF Settled
    <3> QED  BY <3>1, <3>2, <3>3
  <2> QED  BY <1>8, <2>1, <2>2
<1>20. (\A r \in Roots : IF r \in seen THEN nodeDepth[r] = 0
                                       ELSE r \in next /\ depth = 0)'
  BY <1>6, <1>7, <1>8, <1>9, <1>12 DEF LevelInv
<1>21. (depth + (IF future = {} THEN 0 ELSE 1) <= Cardinality(seen))'
  <2>1. IsFiniteSet(seen)
    BY <1>13, FS_Subset
  <2>2. Cardinality(seen) \in Nat /\ Cardinality(seen') = Cardinality(seen) + 1
    BY <1>2, <1>8, <2>1, FS_CardinalityType, FS_AddElement
  <2>3. depth <= Cardinality(seen)
    BY <1>7, <1>10, <2>2 DEF LevelInv
  <2> QED  BY <1>8, <1>10, <2>2, <2>3
<1>22. LevelInv(next, future)'
  BY <1>14, <1>16, <1>17, <1>18, <1>19, <1>20, <1>21, <1>8 DEF LevelInv
<1>23. p \in Nat /\ (p - 1) - 1 = p - 2 /\ (p - 1) + 1 = p
  BY LenProperties DEF TypeOK
<1>24. WalkInv'
  BY <1>5, <1>6, <1>8, <1>22, <1>23 DEF WalkInv
<1> QED  BY <1>24

LEMMA InvInit == Init => QueueAccountsForAll
<1> SUFFICES ASSUME Init PROVE QueueAccountsForAll
  OBVIOUS
<1>1. TypeOK /\ Len(roots) \in Nat /\ DOMAIN roots = 1 .. Len(roots)
  BY TypeInit, LenProperties DEF TypeOK
<1>2. OnlyReachable /\ Unvisited
  BY DEF Init, OnlyReachable, Unvisited
<1>3. Len(queue) = 0 /\ ix = 1
  BY EmptySeq DEF Init
<1>4. RootsInv
  <2>1. Entries(queue, 1, Len(queue)) = {} /\ {roots[i] : i \in 1 .. ix - 1} = {}
    BY <1>3 DEF Entries
  <2> QED  BY <2>1 DEF RootsInv, Init
<1>5. CASE roots = <<>>
  <2>1. Roots = {}
    BY <1>1, <1>5 DEF Roots, Range
  <2>2. Cardinality(seen) = 0
    BY FS_EmptySet DEF Init
  <2> QED  BY <1>2, <1>5, <2>1, <2>2 DEF QueueAccountsForAll, Init
<1>6. CASE roots # <<>>
  BY <1>2, <1>4, <1>6 DEF QueueAccountsForAll, Init
<1> QED  BY <1>5, <1>6

(* All roots queued: the first level holds exactly the known roots.        *)
LEMMA StartStep ==
    ASSUME TypeOK, RootsInv, StartWalk
    PROVE  WalkInv'
<1>1. Len(roots) \in Nat /\ DOMAIN roots = 1 .. Len(roots) /\ ix - 1 = Len(roots)
  BY LenProperties DEF TypeOK, StartWalk
<1>2. nodeMap = Roots
  BY <1>1 DEF RootsInv, Roots, Range
<1>3. PICK p : p = Len(queue) + 1
  OBVIOUS
<1>4. /\ queue' \in Seq(Known \union {Delimiter})
      /\ Len(queue') = p
      /\ queue'[p] = Delimiter
      /\ \A k \in 1 .. Len(queue) : queue'[k] = queue[k]
  BY <1>3, AppendProperties DEF StartWalk, TypeOK
<1>5. Len(queue) \in Nat /\ p \in DOMAIN queue' /\ p - 1 = Len(queue)
  BY <1>3, <1>4, LenProperties DEF TypeOK
<1>6. Entries(queue', 1, p - 1) = nodeMap /\ Entries(queue', p + 1, Len(queue')) = {}
  <2>1. Entries(queue', 1, p - 1) = Entries(queue, 1, Len(queue))
    BY <1>4, <1>5 DEF Entries
  <2>2. Entries(queue', p + 1, Len(queue')) = {}
    BY <1>4, <1>5 DEF Entries
  <2> QED  BY <2>1, <2>2 DEF RootsInv
<1>7. UNCHANGED <<adj, roots, nodeMap, seen, nodeDepth>> /\ depth' = 0
  BY DEF StartWalk, input
<1>8. UNCHANGED <<Known, Roots>>
  BY <1>7 DEF Known, Roots
<1>9. PICK now : now = nodeMap
  OBVIOUS
<1>10. seen = {} /\ Cardinality({}) = 0
  BY FS_EmptySet DEF RootsInv
<1>11. LevelInv(now, {})'
  BY <1>2, <1>7, <1>8, <1>9, <1>10 DEF LevelInv, Justified
<1>12. WalkInv'
  BY <1>4, <1>5, <1>6, <1>9, <1>11 DEF WalkInv
<1> QED  BY <1>12

(* At the end the queue holds nothing but the mark.                        *)
LEMMA StopStep ==
    ASSUME TypeOK, WalkInv, Stop
    PROVE  /\ Roots \subseteq nodeMap
           /\ nodeMap = seen
           /\ \A r \in Roots : nodeDepth[r] = 0
           /\ \A u \in seen : Justified(u, nodeDepth[u])
           /\ \A u \in seen : \A v \in adj[u] :
                 v \in seen /\ nodeDepth[v] <= nodeDepth[u] + 1
           /\ depth <= Cardinality(seen)
<1>1. PICK p \in DOMAIN queue :
        LevelInv(Entries(queue, 1, p - 1), Entries(queue, p + 1, Len(queue)))
  BY DEF WalkInv
<1>2. Entries(queue, 1, p - 1) = {} /\ Entries(queue, p + 1, Len(queue)) = {}
  BY LenProperties DEF Entries, Stop, TypeOK
<1>3. LevelInv({}, {})
  BY <1>1, <1>2
<1>4. depth \in Nat
  BY DEF TypeOK
<1>5. nodeMap = seen
  BY <1>3 DEF LevelInv
<1>6. \A r \in Roots : r \in seen /\ nodeDepth[r] = 0
  BY <1>3 DEF LevelInv
<1>7. \A u \in seen : Justified(u, nodeDepth[u])
  BY <1>3 DEF LevelInv
<1>8. \A u \in seen : \A v \in adj[u] :
         v \in seen /\ nodeDepth[v] <= nodeDepth[u] + 1
  BY <1>3 DEF LevelInv, Settled
<1>9. depth <= Cardinality(seen)
  BY <1>3, <1>4 DEF LevelInv
<1> QED  BY <1>5, <1>6, <1>7, <1>8, <1>9

LEMMA InvStep ==
    ASSUME TypeOK, IsFiniteSet(Known), Delimiter \notin Uid,
           QueueAccountsForAll, [Next]_vars
    PROVE  QueueAccountsForAll'
<1> USE DEF QueueAccountsForAll
<1>1. UNCHANGED <<adj, roots, Known, Roots>>
  BY DEF Next, LoadRoot, StartWalk, NextLevel, SkipSeen, Visit, Seen, Enqueue, Stop, vars, input,
         Known, Roots
<1>2. CASE LoadRoot
  <2>1. /\ pc = "roots" /\ RootsInv /\ OnlyReachable /\ Unvisited
        /\ ix \in Nat /\ ix >= 1 /\ ix' = ix + 1 /\ pc' = pc /\ ix \in DOMAIN roots
        /\ UNCHANGED <<seen, depth, nodeDepth>>
    BY <1>2, LenProperties DEF LoadRoot, TypeOK
  <2>2. {roots[i] : i \in 1 .. ix' - 1} = {roots[i] : i \in 1 .. ix - 1} \union {roots[ix]}
    <3>1. ix' - 1 = ix /\ \A i \in 1 .. ix : i = ix \/ i \in 1 .. ix - 1
      BY <2>1
    <3>2. ix \in 1 .. ix /\ \A i \in 1 .. ix - 1 : i \in 1 .. ix
      BY <2>1
    <3> QED  BY <3>1, <3>2
  <2>3. CASE roots[ix] \in Known
    <3>1. nodeMap' = nodeMap \union {roots[ix]} /\ queue' = Append(queue, roots[ix])
      BY <1>2, <2>3 DEF LoadRoot
    <3>2. Len(queue) \in Nat /\ Len(queue') = Len(queue) + 1
          /\ queue'[Len(queue) + 1] = roots[ix]
          /\ \A k \in 1 .. Len(queue) : queue'[k] = queue[k]
      <4>1. queue \in Seq(Known \union {Delimiter})
            /\ roots[ix] \in Known \union {Delimiter}
        BY <2>3 DEF TypeOK
      <4> QED  BY <3>1, <4>1, AppendProperties, LenProperties
    <3>3. Entries(queue', 1, Len(queue')) = Entries(queue, 1, Len(queue)) \union {roots[ix]}
      <4>1. \A k \in 1 .. Len(queue') : k = Len(queue) + 1 \/ k \in 1 .. Len(queue)
        BY <3>2
      <4>2. Len(queue) + 1 \in 1 .. Len(queue') /\ 1 .. Len(queue) \subseteq 1 .. Len(queue')
        BY <3>2
      <4> QED  BY <3>2, <4>1, <4>2 DEF Entries
    <3>4. RootsInv'
      BY <1>1, <2>1, <2>2, <2>3, <3>1, <3>3 DEF RootsInv
    <3>5. roots[ix] \in Roots
      BY <2>1, <2>3 DEF Roots, Range
    <3>6. OnlyReachable'
      BY <1>1, <2>1, <3>1, <3>5 DEF OnlyReachable, Closed
    <3> QED  BY <1>1, <2>1, <3>4, <3>6 DEF Unvisited
  <2>4. CASE roots[ix] \notin Known
    <3>1. UNCHANGED <<nodeMap, queue>>
      BY <1>2, <2>4 DEF LoadRoot
    <3>2. RootsInv'
      BY <1>1, <2>1, <2>2, <2>4, <3>1 DEF RootsInv, Entries
    <3> QED  BY <1>1, <2>1, <3>1, <3>2 DEF OnlyReachable, Closed, Unvisited
  <2> QED  BY <2>3, <2>4
<1>3. CASE StartWalk
  <2>1. WalkInv'
    BY <1>3, StartStep DEF StartWalk
  <2> QED  BY <1>1, <1>3, <2>1 DEF StartWalk, OnlyReachable, Closed, Unvisited
<1>4. CASE NextLevel
  <2>1. WalkInv'
    BY <1>4, MarkStep DEF NextLevel, Continues
  <2> QED  BY <1>1, <1>4, <2>1 DEF NextLevel, Continues, OnlyReachable, Closed, Unvisited
<1>5. CASE SkipSeen
  <2>1. WalkInv'
    BY <1>5, SkipStep DEF SkipSeen, Seen, Continues
  <2> QED  BY <1>1, <1>5, <2>1 DEF SkipSeen, Seen, Continues, OnlyReachable, Closed, Unvisited
<1>6. CASE Visit
  <2>1. WalkInv /\ pc = "walk" /\ pc' = pc
    BY <1>6 DEF Visit, Seen, Enqueue, Continues
  <2>2. WalkInv'
    BY <1>6, <2>1, VisitStep
  <2>3. Head(queue) \in nodeMap
    BY <1>6, <2>1, HeadIsNow DEF Visit, Seen, Enqueue, WalkInv
  <2>4. OnlyReachable'
    BY <1>1, <1>6, <2>3 DEF Visit, Seen, Enqueue, OnlyReachable, Closed
  <2>5. Unvisited'
    BY <1>1, <1>6 DEF Visit, Seen, Enqueue, Unvisited, TypeOK
  <2> QED  BY <2>1, <2>2, <2>4, <2>5
<1>7. CASE Stop
  <2>1. WalkInv /\ pc' = "done" /\ UNCHANGED <<nodeMap, seen, depth, nodeDepth>>
    BY <1>7 DEF Stop
  <2>2. /\ Roots \subseteq nodeMap
        /\ nodeMap = seen
        /\ \A r \in Roots : nodeDepth[r] = 0
        /\ \A u \in seen : Justified(u, nodeDepth[u])
        /\ \A u \in seen : \A v \in adj[u] :
              v \in seen /\ nodeDepth[v] <= nodeDepth[u] + 1
        /\ depth <= Cardinality(seen)
    BY <1>7, <2>1, StopStep
  <2>3. (\A u \in seen : Justified(u, nodeDepth[u]))'
    BY <1>1, <2>1, <2>2 DEF Justified
  <2> QED  BY <1>1, <2>1, <2>2, <2>3 DEF OnlyReachable, Closed, Unvisited
<1>8. CASE UNCHANGED vars
  <2>1. (pc = "roots" => RootsInv)'
    BY <1>1, <1>8 DEF vars, RootsInv, Entries
  <2>2. (pc = "walk" => WalkInv)'
    <3>1. SUFFICES ASSUME pc = "walk" PROVE WalkInv'
      BY <1>8 DEF vars
    <3>2. PICK p \in DOMAIN queue :
            /\ queue[p] = Delimiter
            /\ LevelInv(Entries(queue, 1, p - 1), Entries(queue, p + 1, Len(queue)))
      BY <3>1 DEF WalkInv
    <3>3. PICK now, later : /\ now = Entries(queue, 1, p - 1)
                            /\ later = Entries(queue, p + 1, Len(queue))
      OBVIOUS
    <3>4. LevelInv(now, later)'
      BY <1>1, <1>8, <3>2, <3>3 DEF vars, LevelInv, Justified, Settled
    <3>5. WalkInv'
      BY <1>8, <3>2, <3>3, <3>4 DEF vars, WalkInv
    <3> QED  BY <3>5
  <2>3. (OnlyReachable /\ Unvisited)'
    BY <1>1, <1>8 DEF vars, OnlyReachable, Closed, Unvisited
  <2> QED  BY <1>1, <1>8, <2>1, <2>2, <2>3 DEF vars, Justified
<1> QED  BY <1>2, <1>3, <1>4, <1>5, <1>6, <1>7, <1>8 DEF Next

(***************************************************************************)
(* The theorems.                                                           *)
(***************************************************************************)
(* Type correctness, whether or not some object has an empty UID is left   *)
(* open here.                                                              *)
THEOREM TypeCorrect == Spec => []TypeOK
<1>1. Init => TypeOK /\ IsFiniteSet(Known)
  BY TypeInit
<1>2. TypeOK /\ IsFiniteSet(Known) /\ [Next]_vars => (TypeOK /\ IsFiniteSet(Known))'
  BY TypeStep
<1> QED  BY <1>1, <1>2, PTL DEF Spec

(* The inductive invariant: the queue accounts for every node that is      *)
(* resolved and not visited, at the level it belongs to.                   *)
THEOREM WalkInvariant ==
    ASSUME Delimiter \notin Uid
    PROVE  Spec => [](TypeOK /\ QueueAccountsForAll)
<1> DEFINE IInv == TypeOK /\ IsFiniteSet(Known) /\ QueueAccountsForAll
<1>1. Init => IInv
  BY TypeInit, InvInit
<1>2. IInv /\ [Next]_vars => IInv'
  BY TypeStep, InvStep
<1>3. IInv => TypeOK /\ QueueAccountsForAll
  OBVIOUS
<1> QED  BY <1>1, <1>2, <1>3, PTL DEF Spec

(* resolveDeps returns exactly the nodes that the roots reach, for every   *)
(* graph, every list of roots and every order of the map iterations.       *)
THEOREM ResolvesExactlyReachable ==
    ASSUME Delimiter \notin Uid
    PROVE  Spec => []ExactlyReachable
<1>1. TypeOK /\ QueueAccountsForAll => ExactlyReachable
  <2> SUFFICES ASSUME TypeOK, QueueAccountsForAll, pc = "done"
               PROVE  /\ Roots \subseteq nodeMap
                      /\ Closed(nodeMap)
                      /\ OnlyReachable
    BY DEF ExactlyReachable, OnlyReachable
  <2>1. Closed(nodeMap)
    BY DEF QueueAccountsForAll, Closed
  <2> QED  BY <2>1 DEF QueueAccountsForAll
<1> QED  BY <1>1, WalkInvariant, PTL

(* The Depth of every resolved node is its distance from the nearest root. *)
THEOREM DepthIsDistance ==
    ASSUME Delimiter \notin Uid
    PROVE  Spec => []DepthsAreDistances
<1>1. TypeOK /\ QueueAccountsForAll => DepthsAreDistances
  <2> SUFFICES ASSUME TypeOK, QueueAccountsForAll, pc = "done"
               PROVE  /\ \A r \in Roots : nodeDepth[r] = 0
                      /\ \A u \in nodeMap : \A v \in adj[u] :
                            nodeDepth[v] <= nodeDepth[u] + 1
                      /\ \A v \in nodeMap \ Roots :
                            \E u \in nodeMap :
                               v \in adj[u] /\ nodeDepth[v] = nodeDepth[u] + 1
    BY DEF DepthsAreDistances
  <2>1. \A v \in nodeMap \ Roots :
           \E u \in nodeMap : v \in adj[u] /\ nodeDepth[v] = nodeDepth[u] + 1
    BY DEF QueueAccountsForAll, Justified
  <2> QED  BY <2>1 DEF QueueAccountsForAll
<1> QED  BY <1>1, WalkInvariant, PTL

(* There are never more levels than visited nodes: the walk cannot spin on *)
(* the mark.                                                               *)
THEOREM LevelsAreBounded ==
    ASSUME Delimiter \notin Uid
    PROVE  Spec => []DepthBounded
<1>1. TypeOK /\ QueueAccountsForAll => DepthBounded
  <2> SUFFICES ASSUME TypeOK, QueueAccountsForAll
               PROVE  depth <= Cardinality(seen)
    BY DEF DepthBounded
  <2>1. depth \in Nat
    BY DEF TypeOK
  <2>2. CASE pc = "roots"
    BY <2>2, FS_EmptySet DEF QueueAccountsForAll, RootsInv
  <2>3. CASE pc = "walk"
    <3>1. PICK now, later : LevelInv(now, later)
      BY <2>3 DEF QueueAccountsForAll, WalkInv
    <3>2. IsFiniteSet(seen)
      BY InputsAssumption, FS_Subset DEF TypeOK
    <3>3. Cardinality(seen) \in Nat
      BY <3>2, FS_CardinalityType
    <3> QED  BY <2>1, <3>1, <3>3 DEF LevelInv
  <2>4. CASE pc = "done"
    BY <2>4 DEF QueueAccountsForAll
  <2> QED  BY <2>2, <2>3, <2>4 DEF TypeOK
<1> QED  BY <1>1, WalkInvariant, PTL

(* The walk implements Reachability, for every graph, every list of roots  *)
(* and every order of the map iterations.  LoadRoot begins with a root or  *)
(* stutters, Visit expands a node, Stop returns, and the bookkeeping of    *)
(* the levels is invisible.                                                *)
THEOREM WalkImplementsReachability ==
    ASSUME Delimiter \notin Uid
    PROVE  Spec => R!Spec
<1> DEFINE IInv == TypeOK /\ QueueAccountsForAll
<1>1. Init => R!Init
  <2> SUFFICES ASSUME Init PROVE R!Init
    OBVIOUS
  <2>1. DOMAIN roots = 1 .. Len(roots) /\ Len(roots) \in Nat
    BY TypeInit, LenProperties DEF TypeOK
  <2>2. CASE roots = <<>>
    <3>1. Range(roots) = {}
      BY <2>1, <2>2 DEF Range
    <3>2. nodeMap = {} /\ pc = "done"
      BY <2>2 DEF Init
    <3> QED  BY <3>1, <3>2 DEF R!Init
  <2>3. CASE roots # <<>>
    <3>1. 1 \in DOMAIN roots
      BY <2>1, <2>3, TypeInit, EmptySeq DEF TypeOK
    <3>2. Range(roots) # {}
      BY <3>1 DEF Range
    <3>3. nodeMap = {} /\ pc # "done"
      BY <2>3 DEF Init
    <3> QED  BY <3>2, <3>3 DEF R!Init
  <2> QED  BY <2>2, <2>3
<1>2. IInv /\ IInv' /\ [Next]_vars => [R!Next]_(R!vars)
  <2> SUFFICES ASSUME IInv, IInv', [Next]_vars PROVE [R!Next]_(R!vars)
    OBVIOUS
  <2>1. CASE LoadRoot
    <3>1. pc = "roots" /\ pc' = "roots" /\ UNCHANGED <<adj, roots>>
      BY <2>1 DEF LoadRoot, input
    <3>2. CASE roots[ix] \in Known
      <4>1. ix \in DOMAIN roots
        BY <2>1, LenProperties DEF LoadRoot, TypeOK
      <4>2. roots[ix] \in Range(roots)
        BY <4>1 DEF Range
      <4>3. nodeMap' = nodeMap \union {roots[ix]}
        BY <2>1, <3>2 DEF LoadRoot
      <4>4. R!Begin(roots[ix])
        BY <3>1, <3>2, <4>2, <4>3 DEF R!Begin, R!Known, Known
      <4> QED  BY <4>2, <4>4 DEF R!Next
    <3>3. CASE roots[ix] \notin Known
      BY <2>1, <3>1, <3>3 DEF LoadRoot, R!vars
    <3> QED  BY <3>2, <3>3
  <2>2. CASE StartWalk \/ NextLevel \/ SkipSeen \/ UNCHANGED vars
    <3>1. UNCHANGED <<adj, roots, nodeMap>> /\ (pc = "done") = (pc' = "done")
      BY <2>2 DEF StartWalk, NextLevel, SkipSeen, Continues, vars, input
    <3> QED  BY <3>1 DEF R!vars
  <2>3. CASE Visit
    <3>1. PICK u : /\ u = Head(queue)
                   /\ nodeMap' = nodeMap \union adj[u]
      BY <2>3 DEF Visit
    <3>2. pc = "walk" /\ pc' = "walk" /\ UNCHANGED <<adj, roots>>
      BY <2>3 DEF Visit, Continues, input
    <3>3. u \in nodeMap
      BY <2>3, <3>1, <3>2, HeadIsNow
         DEF Visit, Continues, Seen, QueueAccountsForAll, WalkInv
    <3>4. R!Expand(u)
      BY <3>1, <3>2, <3>3 DEF R!Expand
    <3> QED  BY <3>3, <3>4 DEF R!Next
  <2>4. CASE Stop
    <3>1. pc = "walk" /\ pc' = "done" /\ UNCHANGED <<adj, roots, nodeMap>>
      BY <2>4 DEF Stop, input
    <3>2. Roots \subseteq nodeMap /\ \A u \in nodeMap : adj[u] \subseteq nodeMap
      BY <2>4, <3>1, StopStep DEF QueueAccountsForAll
    <3>3. R!Return
      BY <3>1, <3>2 DEF R!Return, R!Known, Roots, Known
    <3> QED  BY <3>3 DEF R!Next
  <2> QED  BY <2>1, <2>2, <2>3, <2>4 DEF Next
<1> QED  BY <1>1, <1>2, WalkInvariant, PTL DEF Spec, R!Spec
=============================================================================
