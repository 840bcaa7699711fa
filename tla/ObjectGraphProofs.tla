------------------------- MODULE ObjectGraphProofs -------------------------
(***************************************************************************)
(* Theorems about the graph resolveDeps builds, for every list of objects. *)
(***************************************************************************)
EXTENDS ObjectGraph, SequenceTheorems, TLAPS

(***************************************************************************)
(* Lemmas about the maps and the edges.                                    *)
(***************************************************************************)
LEMMA NodeTypes ==
    ASSUME TypeOK
    PROVE  /\ Nodes = 1 .. Len(objects) /\ Len(objects) \in Nat /\ ix \in Nat
           /\ \A n \in Nodes : objects[n] \in Manifest
           /\ Placed \subseteq Nodes
           /\ \A u \in DOMAIN byUID : byUID[u] \in Placed
<1>1. Nodes = 1 .. Len(objects) /\ Len(objects) \in Nat
  BY LenProperties DEF TypeOK, Nodes
<1>2. \A n \in Nodes : objects[n] \in Manifest
  BY <1>1, ElementOfSeq DEF TypeOK
<1>3. ix \in Nat /\ 1 .. ix - 1 \subseteq Nodes
  BY <1>1 DEF TypeOK
<1>4. Placed \subseteq Nodes
  BY <1>3 DEF TypeOK, Placed, Range
<1>5. \A u \in DOMAIN byUID : byUID[u] \in Placed
  BY DEF Placed, Range
<1> QED  BY <1>1, <1>2, <1>3, <1>4, <1>5

(* An edge joins nodes that one of the maps leads to.                      *)
Edge == [from : Placed, to : Placed, rel : Relationship]

LEMMA OwnerEdgesType ==
    ASSUME TypeOK, NEW u \in DOMAIN byUID
    PROVE  OwnerEdges(byUID[u]) \subseteq Edge
<1>1. byUID[u] \in Placed /\ \A v \in DOMAIN byUID : byUID[v] \in Placed
  BY NodeTypes
<1>2. {ControllerRef, OwnerRef} \subseteq Relationship
  BY InputsAssumption
<1>3. ASSUME NEW e \in OwnerEdges(byUID[u])
      PROVE  e \in Edge
  <2>1. PICK ref \in {r \in objects[byUID[u]].owners : r.uid \in DOMAIN byUID} :
          e \in [from : {byUID[u]}, to : {byUID[ref.uid]},
                 rel : IF ref.controller THEN {ControllerRef, OwnerRef} ELSE {OwnerRef}]
    BY <1>3 DEF OwnerEdges
  <2> QED  BY <1>1, <1>2, <2>1 DEF Edge
<1> QED  BY <1>3

LEMMA TargetsPlaced ==
    ASSUME TypeOK, NEW entry \in RelationshipMapEntry
    PROVE  Targets(entry) \subseteq Placed
<1>1. entry.by \in {"ref", "uid", "label", "selector"}
  BY DEF RelationshipMapEntry
<1>2. Range(byUID) \subseteq Placed
  BY DEF Placed
<1>3. CASE entry.by = "ref"
  BY <1>3 DEF Targets, Lookup, Placed, Range
<1>4. CASE entry.by = "uid"
  BY <1>4 DEF Targets, Lookup, Placed, Range
<1>5. CASE entry.by = "label"
  BY <1>2, <1>5 DEF Targets, LabelSelected
<1>6. CASE entry.by = "selector"
  BY <1>2, <1>6 DEF Targets, Selected
<1> QED  BY <1>1, <1>3, <1>4, <1>5, <1>6

LEMMA DeclaredEdgesType ==
    ASSUME TypeOK, NEW n \in Placed, NEW entries \in SUBSET RelationshipMapEntry
    PROVE  DeclaredEdges(n, entries) \subseteq Edge
<1>1. ASSUME NEW entry \in entries, NEW e \in EntryEdges(n, entry)
      PROVE  e \in Edge
  <2>1. Targets(entry) \subseteq Placed
    BY TargetsPlaced
  <2>2. entry.rel \in Relationship
    BY DEF RelationshipMapEntry
  <2> QED  BY <1>1, <2>1, <2>2 DEF EntryEdges, Edge
<1> QED  BY <1>1 DEF DeclaredEdges

(* What Link adds: to the dependencies of a node the targets of its edges, *)
(* to the dependents of a node the sources.                                *)
LEMMA LinkProperties ==
    ASSUME TypeOK, NEW edges \in SUBSET Edge, Link(edges)
    PROVE  /\ dependencies' \in [Nodes -> SUBSET (Uid \X Relationship)]
           /\ dependents' \in [Nodes -> SUBSET (Uid \X Relationship)]
           /\ \A n \in Nodes : \A v, r :
                 <<v, r>> \in dependencies'[n] <=>
                    \/ <<v, r>> \in dependencies[n]
                    \/ \E e \in edges : e.from = n /\ objects[e.to].uid = v /\ e.rel = r
           /\ \A n \in Nodes : \A u, r :
                 <<u, r>> \in dependents'[n] <=>
                    \/ <<u, r>> \in dependents[n]
                    \/ \E e \in edges : e.to = n /\ objects[e.from].uid = u /\ e.rel = r
<1>1. ASSUME NEW e \in edges
      PROVE  /\ e.from \in Nodes /\ e.to \in Nodes /\ e.rel \in Relationship
             /\ objects[e.from].uid \in Uid /\ objects[e.to].uid \in Uid
  <2>1. e.from \in Placed /\ e.to \in Placed /\ e.rel \in Relationship
    BY DEF Edge
  <2> QED  BY <2>1, NodeTypes DEF Manifest
<1> DEFINE Out(n) == {<<objects[e.to].uid, e.rel>> : e \in {x \in edges : x.from = n}}
           In(n) == {<<objects[e.from].uid, e.rel>> : e \in {x \in edges : x.to = n}}
<1>2. \A n \in Nodes : Out(n) \subseteq Uid \X Relationship /\ In(n) \subseteq Uid \X Relationship
  BY <1>1
<1>3. /\ dependencies' = [n \in Nodes |-> dependencies[n] \union Out(n)]
      /\ dependents' = [n \in Nodes |-> dependents[n] \union In(n)]
  BY DEF Link
<1>4. \A n \in Nodes : \A v, r :
         /\ <<v, r>> \in Out(n) <=>
               \E e \in edges : e.from = n /\ objects[e.to].uid = v /\ e.rel = r
         /\ <<v, r>> \in In(n) <=>
               \E e \in edges : e.to = n /\ objects[e.from].uid = v /\ e.rel = r
  OBVIOUS
<1> HIDE DEF Out, In
<1>5. /\ dependencies' \in [Nodes -> SUBSET (Uid \X Relationship)]
      /\ dependents' \in [Nodes -> SUBSET (Uid \X Relationship)]
  BY <1>2, <1>3 DEF TypeOK
<1>6. \A n \in Nodes : /\ dependencies'[n] = dependencies[n] \union Out(n)
                       /\ dependents'[n] = dependents[n] \union In(n)
  BY <1>3
<1> QED  BY <1>4, <1>5, <1>6

(***************************************************************************)
(* Type correctness.                                                       *)
(***************************************************************************)
LEMMA TypeInit == Init => TypeOK
<1> SUFFICES ASSUME Init PROVE TypeOK
  OBVIOUS
<1>1. objects \in Seq(Manifest) /\ Len(objects) \in Nat
  BY InputsAssumption, LenProperties DEF Init
<1>2. DOMAIN byUID = {} /\ DOMAIN byKey = {}
  BY DEF Init
<1>3. byUID \in [DOMAIN byUID -> 1 .. ix - 1] /\ byKey \in [DOMAIN byKey -> 1 .. ix - 1]
  BY <1>2 DEF Init
<1> QED  BY <1>1, <1>2, <1>3 DEF Init, TypeOK

LEMMA IndexStep ==
    ASSUME TypeOK, Index
    PROVE  /\ TypeOK'
           /\ objects[ix] \in Manifest /\ ix \in Nodes
           /\ UIDsOf(objects[ix]) \subseteq Uid
<1>1. ix \in Nodes /\ ix \in Nat /\ ix' = ix + 1 /\ UNCHANGED objects
  BY NodeTypes DEF Index, TypeOK
<1>2. objects[ix] \in Manifest
  BY <1>1, NodeTypes
<1>3. UIDsOf(objects[ix]) \subseteq Uid /\ KeyOf(objects[ix]) \in Key
  BY <1>2, InputsAssumption DEF Manifest, UIDsOf, Aliases, KeyOf, Key
<1>4. ix \in 1 .. ix' - 1 /\ 1 .. ix - 1 \subseteq 1 .. ix' - 1
  BY <1>1 DEF TypeOK
<1>5. DOMAIN byUID' \subseteq Uid /\ byUID' \in [DOMAIN byUID' -> 1 .. ix' - 1]
      /\ DOMAIN byUID \subseteq DOMAIN byUID'
  BY <1>3, <1>4 DEF Index, TypeOK, Put
<1>6. DOMAIN byKey' \subseteq Key /\ byKey' \in [DOMAIN byKey' -> 1 .. ix' - 1]
  BY <1>3, <1>4 DEF Index, TypeOK, Put
<1>7. ix' \in 1 .. Len(objects') + 1
  BY <1>1, NodeTypes
<1>8. TypeOK'
  BY <1>1, <1>5, <1>6, <1>7 DEF Index, TypeOK, Nodes
<1> QED  BY <1>1, <1>2, <1>3, <1>8

LEMMA OwnersStep ==
    ASSUME TypeOK, NEW u \in todo, ResolveOwners(u)
    PROVE  /\ OwnerEdges(byUID[u]) \in SUBSET Edge
           /\ Link(OwnerEdges(byUID[u]))
           /\ TypeOK'
<1>1. u \in DOMAIN byUID
  BY DEF TypeOK
<1>2. OwnerEdges(byUID[u]) \in SUBSET Edge
  BY <1>1, OwnerEdgesType
<1>3. Link(OwnerEdges(byUID[u]))
  BY DEF ResolveOwners
<1>4. TypeOK'
  BY <1>2, <1>3, LinkProperties DEF ResolveOwners, TypeOK, Nodes
<1> QED  BY <1>2, <1>3, <1>4

(* A turn of the last loop links the edges of one node or changes none.    *)
LEMMA DeclaredStep ==
    ASSUME TypeOK, NEW u \in todo, ResolveDeclared(u)
    PROVE  /\ TypeOK'
           /\ \/ UNCHANGED <<dependencies, dependents>>
              \/ \E edges \in SUBSET Edge : Link(edges)
<1> DEFINE n == byUID[u]
<1>1. n \in Placed
  BY NodeTypes DEF TypeOK
<1>2. objects[n] \in Manifest
  BY <1>1, NodeTypes
<1>3. objects[n].outcome \in {"none", "error", "ok"}
      /\ objects[n].declares \in SUBSET RelationshipMapEntry
  BY <1>2 DEF Manifest
<1>4. CASE objects[n].outcome = "none"
  <2>1. UNCHANGED <<rmap, dependencies, dependents>>
    BY <1>4 DEF ResolveDeclared, HasRelationships
  <2> QED  BY <2>1 DEF ResolveDeclared, TypeOK, Nodes
<1>5. CASE objects[n].outcome = "error"
  <2>1. rmap' = {} /\ UNCHANGED <<dependencies, dependents>>
    BY <1>5 DEF ResolveDeclared, HasRelationships
  <2> QED  BY <2>1 DEF ResolveDeclared, TypeOK, Nodes
<1>6. CASE objects[n].outcome = "ok"
  <2>1. rmap' = objects[n].declares /\ Link(DeclaredEdges(n, rmap'))
    BY <1>6 DEF ResolveDeclared, HasRelationships
  <2>2. PICK edges : edges = DeclaredEdges(n, rmap')
    OBVIOUS
  <2>3. edges \in SUBSET Edge
    BY <1>1, <1>3, <2>1, <2>2, DeclaredEdgesType
  <2>4. Link(edges)
    BY <2>1, <2>2
  <2>5. TypeOK'
    BY <1>3, <2>1, <2>3, <2>4, LinkProperties DEF ResolveDeclared, TypeOK, Nodes
  <2> QED  BY <2>3, <2>4, <2>5
<1> QED  BY <1>3, <1>4, <1>5, <1>6

LEMMA TypeStep ==
    ASSUME TypeOK, [Next]_vars
    PROVE  TypeOK'
<1>1. CASE Index
  BY <1>1, IndexStep
<1>2. CASE IndexFails
  BY <1>2 DEF IndexFails, TypeOK, Nodes
<1>3. CASE StartOwners
  BY <1>3 DEF StartOwners, TypeOK, Nodes
<1>4. ASSUME NEW u \in todo, ResolveOwners(u)
      PROVE  TypeOK'
  BY <1>4, OwnersStep
<1>5. CASE StartDeclared
  BY <1>5 DEF StartDeclared, TypeOK, Nodes
<1>6. ASSUME NEW u \in todo, ResolveDeclared(u)
      PROVE  TypeOK'
  BY <1>6, DeclaredStep
<1>7. CASE Finish
  BY <1>7 DEF Finish, TypeOK, Nodes
<1>8. CASE UNCHANGED vars
  BY <1>8 DEF vars, TypeOK, Nodes
<1> QED  BY <1>1, <1>2, <1>3, <1>4, <1>5, <1>6, <1>7, <1>8 DEF Next

(* The state of the graph is well typed in every reachable state.          *)
THEOREM TypeCorrect == Spec => []TypeOK
<1> QED  BY TypeInit, TypeStep, PTL DEF Spec

(***************************************************************************)
(* The maps agree, and so do the two directions of an edge.                *)
(***************************************************************************)
LEMMA IndexAgrees ==
    ASSUME TypeOK, MapsAgree, Index
    PROVE  MapsAgree'
<1> DEFINE uids == UIDsOf(objects[ix])
           key == KeyOf(objects[ix])
<1>1. /\ byUID' = Put(byUID, uids, ix) /\ byKey' = Put(byKey, {key}, ix)
      /\ UNCHANGED <<objects, dependencies, dependents, pc>> /\ pc = "index"
  BY DEF Index
<1>2. ix \in Nodes /\ objects[ix].uid \in uids
  BY IndexStep DEF UIDsOf
<1>3. UNCHANGED <<Nodes, Consistent>>
  BY <1>1 DEF Nodes, Consistent
<1>4. /\ \A u \in uids : u \in DOMAIN byUID' /\ byUID'[u] = ix
      /\ \A u \in DOMAIN byUID \ uids : u \in DOMAIN byUID' /\ byUID'[u] = byUID[u]
      /\ DOMAIN byUID' = DOMAIN byUID \union uids
  BY <1>1 DEF Put
<1>5. /\ \A k \in DOMAIN byKey' : \/ k = key /\ byKey'[k] = ix
                                  \/ k \in DOMAIN byKey /\ k # key /\ byKey'[k] = byKey[k]
  BY <1>1 DEF Put
<1>6. ASSUME NEW n \in Placed', n # ix
      PROVE  /\ n \in Placed
             /\ \/ \E u \in UIDsOf(objects[n]) : u \notin uids
                \/ KeyOf(objects[n]) # key
  <2>1. CASE n \in Range(byUID')
    <3>1. PICK u \in DOMAIN byUID' : n = byUID'[u]
      BY <2>1 DEF Range
    <3>2. u \in DOMAIN byUID \ uids /\ n = byUID[u]
      BY <1>4, <1>6, <3>1
    <3> QED  BY <3>2 DEF MapsAgree, Placed, Range
  <2>2. CASE n \in Range(byKey')
    <3>1. PICK k \in DOMAIN byKey' : n = byKey'[k]
      BY <2>2 DEF Range
    <3>2. k \in DOMAIN byKey /\ k # key /\ n = byKey[k]
      BY <1>5, <1>6, <3>1
    <3> QED  BY <3>2 DEF MapsAgree, Placed, Range
  <2> QED  BY <1>6, <2>1, <2>2 DEF Placed
<1>7. ASSUME NEW n \in Placed'
      PROVE  /\ objects[n].uid \in DOMAIN byUID'
             /\ Consistent => byUID'[objects[n].uid] = n
  <2>1. CASE n = ix
    BY <1>2, <1>4, <2>1
  <2>2. CASE n # ix
    <3>1. n \in Placed /\ n \in Nodes
      BY <1>6, <1>7, <2>2, NodeTypes
    <3>2. objects[n].uid \in DOMAIN byUID'
      BY <1>4, <3>1 DEF MapsAgree
    <3>3. ASSUME Consistent
          PROVE  objects[n].uid \notin uids
      <4>1. objects[n].uid \notin Aliases(objects[ix])
        BY <1>2, <3>1, <3>3 DEF Consistent
      <4>2. objects[n].uid # objects[ix].uid
        BY <1>2, <1>6, <1>7, <2>2, <3>1, <3>3 DEF Consistent, UIDsOf
      <4> QED  BY <4>1, <4>2 DEF UIDsOf
    <3> QED  BY <1>4, <3>1, <3>2, <3>3 DEF MapsAgree
  <2> QED  BY <2>1, <2>2
<1>8. (\A n \in Placed : /\ objects[n].uid \in DOMAIN byUID
                         /\ Consistent => byUID[objects[n].uid] = n)'
  BY <1>1, <1>3, <1>7
<1>9. (\A u \in DOMAIN byUID : u \in UIDsOf(objects[byUID[u]]))'
  BY <1>1, <1>4 DEF MapsAgree
<1>10. (\A k \in DOMAIN byKey : k = KeyOf(objects[byKey[k]]))'
  BY <1>1, <1>5 DEF MapsAgree
<1> QED  BY <1>1, <1>3, <1>8, <1>9, <1>10 DEF MapsAgree

LEMMA AgreeStep ==
    ASSUME TypeOK, MapsAgree, [Next]_vars
    PROVE  MapsAgree'
<1>1. CASE Index
  BY <1>1, IndexAgrees
<1>2. ASSUME UNCHANGED <<objects, byUID, byKey>>, pc' # "index"
      PROVE  MapsAgree'
  BY <1>2 DEF MapsAgree, Placed, Consistent, Nodes
<1>3. CASE UNCHANGED vars
  BY <1>3 DEF vars, MapsAgree, Placed, Consistent, Nodes
<1> QED  BY <1>1, <1>2, <1>3 DEF Next, IndexFails, StartOwners, ResolveOwners,
                                  StartDeclared, ResolveDeclared, Finish

(* A step leaves the graph alone, or links edges between placed nodes when *)
(* the maps are complete.                                                  *)
LEMMA GraphStep ==
    ASSUME TypeOK, [Next]_vars
    PROVE  \/ UNCHANGED <<dependencies, dependents>>
           \/ /\ \E edges \in SUBSET Edge : Link(edges)
              /\ UNCHANGED <<objects, byUID, byKey>>
<1>1. ASSUME NEW u \in todo, ResolveOwners(u)
      PROVE  /\ \E edges \in SUBSET Edge : Link(edges)
             /\ UNCHANGED <<objects, byUID, byKey>>
  <2>1. PICK edges : edges = OwnerEdges(byUID[u])
    OBVIOUS
  <2> QED  BY <1>1, <2>1, OwnersStep DEF ResolveOwners
<1>2. ASSUME NEW u \in todo, ResolveDeclared(u)
      PROVE  /\ \/ UNCHANGED <<dependencies, dependents>>
                \/ \E edges \in SUBSET Edge : Link(edges)
             /\ UNCHANGED <<objects, byUID, byKey>>
  BY <1>2, DeclaredStep DEF ResolveDeclared
<1>3. CASE Index \/ IndexFails \/ StartOwners \/ StartDeclared \/ Finish \/ UNCHANGED vars
  BY <1>3 DEF Index, IndexFails, StartOwners, StartDeclared, Finish, vars
<1>4. CASE \E u \in todo : ResolveOwners(u)
  BY <1>1, <1>4
<1>5. CASE \E u \in todo : ResolveDeclared(u)
  BY <1>2, <1>5
<1> QED  BY <1>3, <1>4, <1>5 DEF Next

LEMMA KnownStep ==
    ASSUME TypeOK, MapsAgree, EdgeTargetsKnown, [Next]_vars
    PROVE  EdgeTargetsKnown'
<1>1. UNCHANGED Nodes /\ DOMAIN byUID \subseteq DOMAIN byUID'
  BY DEF Put, Next, Index, IndexFails, StartOwners, ResolveOwners, StartDeclared,
         ResolveDeclared, Finish, vars, Nodes
<1>2. CASE UNCHANGED <<dependencies, dependents>>
  BY <1>1, <1>2 DEF EdgeTargetsKnown
<1>3. CASE \E edges \in SUBSET Edge : Link(edges)
  <2>1. PICK edges \in SUBSET Edge : Link(edges)
    BY <1>3
  <2>2. \A e \in edges : /\ objects[e.from].uid \in DOMAIN byUID
                         /\ objects[e.to].uid \in DOMAIN byUID
    BY DEF Edge, MapsAgree
  <2>3. ASSUME NEW n \in Nodes, NEW edge \in dependencies'[n] \union dependents'[n]
        PROVE  edge[1] \in DOMAIN byUID
    <3>1. edge \in Uid \X Relationship
      BY <2>1, <2>3, LinkProperties
    <3>2. PICK v, r : edge = <<v, r>>
      BY <3>1
    <3>3. edge[1] = v
      BY <3>2
    <3> QED  BY <2>1, <2>2, <2>3, <3>2, <3>3, LinkProperties DEF EdgeTargetsKnown
  <2> QED  BY <1>1, <2>3 DEF EdgeTargetsKnown
<1> QED  BY <1>2, <1>3, GraphStep

LEMMA MutualStep ==
    ASSUME TypeOK, MapsAgree, EdgesMutual, [Next]_vars
    PROVE  EdgesMutual'
<1> DEFINE UIDs == {objects[n].uid : n \in Range(byUID)}
<1>1. CASE Index
  <2>1. TypeOK' /\ MapsAgree' /\ pc' = "index"
    BY <1>1, TypeStep, AgreeStep DEF Index
  <2>2. ASSUME NEW u \in UIDs'
        PROVE  dependencies'[byUID'[u]] = {} /\ dependents'[byUID'[u]] = {}
    <3>1. u \in DOMAIN byUID'
      BY <2>1, <2>2 DEF MapsAgree, Placed
    <3>2. byUID'[u] \in Nodes'
      BY <2>1, <3>1, LenProperties DEF TypeOK, Nodes
    <3> QED  BY <2>1, <3>2 DEF MapsAgree
  <2> QED  BY <2>2 DEF EdgesMutual
<1>2. ASSUME UNCHANGED <<objects, byUID>>
      PROVE  Consistent' = Consistent /\ UIDs' = UIDs
  BY <1>2 DEF Consistent, Nodes
<1>3. ASSUME UNCHANGED <<objects, byUID>>, UNCHANGED <<dependencies, dependents>>
      PROVE  EdgesMutual'
  BY <1>2, <1>3 DEF EdgesMutual
<1>4. ASSUME NEW edges \in SUBSET Edge, Link(edges), UNCHANGED <<objects, byUID, byKey>>
      PROVE  EdgesMutual'
  <2>1. SUFFICES ASSUME Consistent, NEW u \in UIDs, NEW v \in UIDs, NEW r \in Relationship
                 PROVE  <<v, r>> \in dependencies'[byUID[u]]
                           <=> <<u, r>> \in dependents'[byUID[v]]
    BY <1>2, <1>4 DEF EdgesMutual
  <2>2. \A n \in Placed : byUID[objects[n].uid] = n
    BY <2>1 DEF MapsAgree
  <2>3. /\ byUID[u] \in Nodes /\ objects[byUID[u]].uid = u
        /\ byUID[v] \in Nodes /\ objects[byUID[v]].uid = v
    BY <2>2, NodeTypes DEF Placed
  <2>4. \A e \in edges : /\ byUID[objects[e.from].uid] = e.from
                         /\ byUID[objects[e.to].uid] = e.to
    BY <2>2 DEF Edge
  <2>5. \A e \in edges : (e.from = byUID[u] /\ objects[e.to].uid = v)
                           <=> (e.to = byUID[v] /\ objects[e.from].uid = u)
    BY <2>3, <2>4
  <2>6. <<v, r>> \in dependencies[byUID[u]] <=> <<u, r>> \in dependents[byUID[v]]
    BY <2>1 DEF EdgesMutual
  <2>7. <<v, r>> \in dependencies'[byUID[u]] <=>
           \/ <<v, r>> \in dependencies[byUID[u]]
           \/ \E e \in edges : e.from = byUID[u] /\ objects[e.to].uid = v /\ e.rel = r
    BY <1>4, <2>3, LinkProperties
  <2>8. <<u, r>> \in dependents'[byUID[v]] <=>
           \/ <<u, r>> \in dependents[byUID[v]]
           \/ \E e \in edges : e.to = byUID[v] /\ objects[e.from].uid = u /\ e.rel = r
    BY <1>4, <2>3, LinkProperties
  <2> QED  BY <2>5, <2>6, <2>7, <2>8
<1>5. CASE IndexFails \/ StartOwners \/ StartDeclared \/ Finish \/ UNCHANGED vars
  BY <1>3, <1>5 DEF IndexFails, StartOwners, StartDeclared, Finish, vars
<1>6. ASSUME NEW u \in todo, ResolveOwners(u)
      PROVE  EdgesMutual'
  <2>1. PICK edges : edges = OwnerEdges(byUID[u])
    OBVIOUS
  <2> QED  BY <1>4, <1>6, <2>1, OwnersStep DEF ResolveOwners
<1>7. ASSUME NEW u \in todo, ResolveDeclared(u)
      PROVE  EdgesMutual'
  BY <1>3, <1>4, <1>7, DeclaredStep DEF ResolveDeclared
<1> QED  BY <1>1, <1>5, <1>6, <1>7 DEF Next

(***************************************************************************)
(* The theorems.                                                           *)
(***************************************************************************)
(* No matter what list of objects is given, every node that one of the     *)
(* global maps leads to is known by its UID, and if the list identifies    *)
(* its objects consistently it is the node known by that UID.              *)
THEOREM NodesAreShared == Spec => []MapsAgree
<1>1. Init => TypeOK /\ MapsAgree
  <2> SUFFICES ASSUME Init PROVE MapsAgree
    BY TypeInit
  <2>1. Placed = {} /\ DOMAIN byUID = {} /\ DOMAIN byKey = {}
    BY DEF Init, Placed, Range
  <2> QED  BY <2>1 DEF Init, MapsAgree
<1>2. TypeOK /\ MapsAgree /\ [Next]_vars => (TypeOK /\ MapsAgree)'
  BY TypeStep, AgreeStep
<1> QED  BY <1>1, <1>2, PTL DEF Spec

(* For every list of objects, consistent or not, an edge names only UIDs   *)
(* that have a node: the walk never resolves a UID to nil.                 *)
THEOREM EdgesHaveNodes == Spec => []EdgeTargetsKnown
<1>1. Init => EdgeTargetsKnown
  BY DEF Init, EdgeTargetsKnown
<1>2. TypeOK /\ MapsAgree /\ EdgeTargetsKnown /\ [Next]_vars => EdgeTargetsKnown'
  BY KnownStep
<1> QED  BY <1>1, <1>2, TypeCorrect, NodesAreShared, PTL DEF Spec

(* For every consistent list of objects, an edge stored in one direction   *)
(* is stored in the other.                                                 *)
THEOREM DirectionsAgree == Spec => []EdgesMutual
<1>1. Init => EdgesMutual
  <2> SUFFICES ASSUME Init PROVE EdgesMutual
    OBVIOUS
  <2>1. Range(byUID) = {}
    BY DEF Init, Range
  <2> QED  BY <2>1 DEF EdgesMutual
<1>2. TypeOK /\ MapsAgree /\ EdgesMutual /\ [Next]_vars => EdgesMutual'
  BY MutualStep
<1> QED  BY <1>1, <1>2, TypeCorrect, NodesAreShared, PTL DEF Spec

(***************************************************************************)
(* The graph is the declared one.  The invariant keeps account of which    *)
(* objects the maps hold and which edges the loops have added.             *)
(***************************************************************************)
(* Every object that was indexed is found under its UIDs and its key, or a *)
(* later one is; the loops over byUID start when all are.                  *)
Indexed ==
    /\ pc \in {"owners", "declared", "built"} => ix = Len(objects) + 1
    /\ \A n \in 1 .. ix - 1 :
          /\ \A u \in UIDsOf(objects[n]) : u \in DOMAIN byUID /\ n <= byUID[u]
          /\ KeyOf(objects[n]) \in DOMAIN byKey /\ n <= byKey[KeyOf(objects[n])]

(* The nodes whose owners, or declared relationships, have been resolved.  *)
Visited == {byUID[u] : u \in DOMAIN byUID \ todo}

OwnersResolved ==
    CASE pc = "owners" -> Visited
      [] pc \in {"declared", "built"} -> Range(byUID)
      [] OTHER -> {}

DeclaredResolved ==
    CASE pc = "declared" -> Visited
      [] pc = "built" -> Range(byUID)
      [] OTHER -> {}

ManifestEdges(n) ==
    IF HasRelationships(objects[n]) THEN DeclaredEdges(n, objects[n].declares) ELSE {}

Resolved == (UNION {OwnerEdges(n) : n \in OwnersResolved})
              \union (UNION {ManifestEdges(n) : n \in DeclaredResolved})

OutOf(edges, n) == {<<objects[e.to].uid, e.rel>> : e \in {x \in edges : x.from = n}}
InTo(edges, n) == {<<objects[e.from].uid, e.rel>> : e \in {x \in edges : x.to = n}}

(* The nodes hold the edges of the objects resolved so far, and no others. *)
Traced == \A n \in Nodes : /\ dependencies[n] = OutOf(Resolved, n)
                           /\ dependents[n] = InTo(Resolved, n)

LEMMA IndexedStep ==
    ASSUME TypeOK, Indexed, [Next]_vars
    PROVE  Indexed'
<1>1. CASE Index
  <2> DEFINE uids == UIDsOf(objects[ix])
             key == KeyOf(objects[ix])
  <2>1. /\ byUID' = Put(byUID, uids, ix) /\ byKey' = Put(byKey, {key}, ix)
        /\ UNCHANGED <<objects, pc>> /\ pc = "index" /\ ix' = ix + 1
    BY <1>1 DEF Index
  <2>2. /\ \A u \in uids : u \in DOMAIN byUID' /\ byUID'[u] = ix
        /\ \A u \in DOMAIN byUID \ uids : u \in DOMAIN byUID' /\ byUID'[u] = byUID[u]
    BY <2>1 DEF Put
  <2>3. /\ key \in DOMAIN byKey' /\ byKey'[key] = ix
        /\ \A k \in DOMAIN byKey \ {key} : k \in DOMAIN byKey' /\ byKey'[k] = byKey[k]
    BY <2>1 DEF Put
  <2>4. ix \in Nat
    BY NodeTypes
  <2>5. ASSUME NEW n \in 1 .. ix' - 1, NEW u \in UIDsOf(objects[n])
        PROVE  u \in DOMAIN byUID' /\ n <= byUID'[u]
    BY <2>1, <2>2, <2>4, <2>5 DEF Indexed
  <2>6. ASSUME NEW n \in 1 .. ix' - 1
        PROVE  /\ KeyOf(objects[n]) \in DOMAIN byKey'
               /\ n <= byKey'[KeyOf(objects[n])]
    BY <2>1, <2>3, <2>4, <2>6 DEF Indexed
  <2> QED  BY <2>1, <2>5, <2>6 DEF Indexed
<1>2. CASE StartOwners
  BY <1>2, NodeTypes DEF StartOwners, Indexed, TypeOK
<1>3. CASE UNCHANGED vars
  BY <1>3 DEF vars, Indexed
<1> QED  BY <1>1, <1>2, <1>3 DEF Next, IndexFails, ResolveOwners, StartDeclared,
                                  ResolveDeclared, Finish, Indexed

LEMMA TracedByLink ==
    ASSUME TypeOK, Traced, NEW edges, Link(edges), UNCHANGED objects,
           Resolved' = Resolved \union edges
    PROVE  Traced'
<1>1. ASSUME NEW n \in Nodes
      PROVE  /\ OutOf(Resolved \union edges, n) = OutOf(Resolved, n) \union OutOf(edges, n)
             /\ InTo(Resolved \union edges, n) = InTo(Resolved, n) \union InTo(edges, n)
  BY DEF OutOf, InTo
<1>2. ASSUME NEW n \in Nodes
      PROVE  /\ dependencies'[n] = dependencies[n] \union OutOf(edges, n)
             /\ dependents'[n] = dependents[n] \union InTo(edges, n)
  BY DEF Link, OutOf, InTo
<1>3. ASSUME NEW n \in Nodes
      PROVE  /\ OutOf(Resolved, n)' = OutOf(Resolved \union edges, n)
             /\ InTo(Resolved, n)' = InTo(Resolved \union edges, n)
  BY DEF OutOf, InTo
<1> QED  BY <1>1, <1>2, <1>3 DEF Traced, Nodes

LEMMA ResolvedEdges ==
    ASSUME TypeOK
    PROVE  Resolved \subseteq Edge
<1>1. ASSUME NEW n \in Range(byUID)
      PROVE  OwnerEdges(n) \subseteq Edge /\ ManifestEdges(n) \subseteq Edge
  <2>1. PICK u \in DOMAIN byUID : n = byUID[u]
    BY DEF Range
  <2>2. n \in Placed /\ objects[n] \in Manifest
    BY <2>1, NodeTypes
  <2>3. objects[n].declares \in SUBSET RelationshipMapEntry
    BY <2>2 DEF Manifest
  <2> QED  BY <2>1, <2>2, <2>3, OwnerEdgesType, DeclaredEdgesType DEF ManifestEdges
<1>2. OwnersResolved \subseteq Range(byUID) /\ DeclaredResolved \subseteq Range(byUID)
  BY DEF OwnersResolved, DeclaredResolved, Visited, Range
<1> QED  BY <1>1, <1>2 DEF Resolved

(* What an edge names is the UID of a node, never another name of it.      *)
LEMMA EdgesNameUIDs ==
    ASSUME TypeOK, Traced, NEW n \in Nodes, NEW e \in dependencies[n] \union dependents[n]
    PROVE  \E m \in Nodes : objects[m].uid = e[1]
<1>1. PICK x \in Resolved : e = <<objects[x.to].uid, x.rel>> \/ e = <<objects[x.from].uid, x.rel>>
  BY DEF Traced, OutOf, InTo
<1>2. x.to \in Nodes /\ x.from \in Nodes
  BY ResolvedEdges, NodeTypes DEF Edge
<1> QED  BY <1>1, <1>2

LEMMA TracedStep ==
    ASSUME TypeOK, Indexed, MapsAgree, Traced, [Next]_vars
    PROVE  Traced'
<1>1. ASSUME UNCHANGED <<objects, dependencies, dependents>>, Resolved' = Resolved
      PROVE  Traced'
  BY <1>1 DEF Traced, Nodes, OutOf, InTo
<1>2. pc = "index" => Resolved = {}
  BY DEF Resolved, OwnersResolved, DeclaredResolved
<1>3. ASSUME UNCHANGED <<objects, byUID, byKey>>
      PROVE  \A n : /\ OwnerEdges(n)' = OwnerEdges(n)
                    /\ ManifestEdges(n)' = ManifestEdges(n)
  BY <1>3 DEF OwnerEdges, ManifestEdges, DeclaredEdges, EntryEdges, Targets, Lookup,
              LabelSelected, Selected
<1>4. CASE Index \/ IndexFails
  <2>1. Resolved' = {} /\ Resolved = {}
    BY <1>2, <1>4 DEF Index, IndexFails, Resolved, OwnersResolved, DeclaredResolved
  <2> QED  BY <1>1, <1>4, <2>1 DEF Index, IndexFails
<1>5. CASE StartOwners
  <2>1. Visited' = {} /\ pc = "index" /\ pc' = "owners"
    BY <1>5 DEF StartOwners, Visited
  <2>2. Resolved' = {} /\ Resolved = {}
    BY <1>2, <2>1 DEF Resolved, OwnersResolved, DeclaredResolved
  <2> QED  BY <1>1, <1>5, <2>2 DEF StartOwners
<1>6. ASSUME NEW u \in todo, ResolveOwners(u)
      PROVE  Traced'
  <2>1. UNCHANGED <<objects, byUID, byKey, pc>> /\ pc = "owners"
    BY <1>6 DEF ResolveOwners
  <2>2. Visited' = Visited \union {byUID[u]}
    BY <1>6 DEF ResolveOwners, Visited, TypeOK
  <2>3. Resolved' = Resolved \union OwnerEdges(byUID[u])
    BY <1>3, <2>1, <2>2 DEF Resolved, OwnersResolved, DeclaredResolved
  <2> QED  BY <1>6, <2>1, <2>3, TracedByLink DEF ResolveOwners
<1>7. CASE StartDeclared
  <2>1. /\ UNCHANGED <<objects, byUID, byKey>> /\ pc = "owners" /\ pc' = "declared"
        /\ Visited = Range(byUID) /\ Visited' = {}
    BY <1>7 DEF StartDeclared, Visited, Range
  <2>2. /\ OwnersResolved' = OwnersResolved
        /\ DeclaredResolved' = {} /\ DeclaredResolved = {}
    BY <2>1 DEF OwnersResolved, DeclaredResolved, Range
  <2>3. Resolved' = Resolved
    BY <1>3, <2>1, <2>2 DEF Resolved
  <2> QED  BY <1>1, <1>7, <2>3 DEF StartDeclared
<1>8. ASSUME NEW u \in todo, ResolveDeclared(u)
      PROVE  Traced'
  <2> DEFINE n == byUID[u]
  <2>1. UNCHANGED <<objects, byUID, byKey, pc>> /\ pc = "declared"
    BY <1>8 DEF ResolveDeclared
  <2>2. Visited' = Visited \union {n}
    BY <1>8 DEF ResolveDeclared, Visited, TypeOK
  <2>3. Resolved' = Resolved \union ManifestEdges(n)
    <3>1. /\ OwnersResolved' = OwnersResolved
          /\ DeclaredResolved' = DeclaredResolved \union {n}
      BY <2>1, <2>2 DEF OwnersResolved, DeclaredResolved, Range
    <3>2. Resolved' = (UNION {OwnerEdges(x) : x \in OwnersResolved'})
                        \union (UNION {ManifestEdges(x) : x \in DeclaredResolved'})
      BY <1>3, <2>1 DEF Resolved
    <3> QED  BY <3>1, <3>2 DEF Resolved
  <2>4. CASE objects[n].outcome = "ok"
    <3>1. Link(DeclaredEdges(n, objects[n].declares))
      BY <1>8, <2>4 DEF ResolveDeclared, HasRelationships
    <3>2. ManifestEdges(n) = DeclaredEdges(n, objects[n].declares)
      BY <2>4 DEF ManifestEdges, HasRelationships
    <3> QED  BY <2>1, <2>3, <3>1, <3>2, TracedByLink
  <2>5. CASE objects[n].outcome # "ok"
    <3>1. UNCHANGED <<dependencies, dependents>>
      BY <1>8, <2>5 DEF ResolveDeclared, HasRelationships
    <3>2. Resolved' = Resolved
      BY <2>3, <2>5 DEF ManifestEdges, HasRelationships
    <3> QED  BY <1>1, <2>1, <3>1, <3>2
  <2> QED  BY <2>4, <2>5
<1>9. CASE Finish
  <2>1. /\ UNCHANGED <<objects, byUID, byKey>> /\ pc = "declared" /\ pc' = "built"
        /\ Visited = Range(byUID)
    BY <1>9 DEF Finish, Visited, Range
  <2>2. OwnersResolved' = OwnersResolved /\ DeclaredResolved' = DeclaredResolved
    BY <2>1 DEF OwnersResolved, DeclaredResolved, Range
  <2>3. Resolved' = Resolved
    BY <1>3, <2>1, <2>2 DEF Resolved
  <2> QED  BY <1>1, <1>9, <2>3 DEF Finish
<1>10. CASE UNCHANGED vars
  <2>1. Resolved' = Resolved
    BY <1>3, <1>10 DEF vars, Resolved, OwnersResolved, DeclaredResolved, Visited, Range
  <2> QED  BY <1>1, <1>10, <2>1 DEF vars
<1> QED  BY <1>4, <1>5, <1>6, <1>7, <1>8, <1>9, <1>10 DEF Next

(* When the list is indexed, the maps lead from a key to the last object   *)
(* that has it and from a UID to the last object known by it.              *)
LEMMA LookupsFindLast ==
    ASSUME TypeOK, MapsAgree, Indexed, ix = Len(objects) + 1, NEW n \in Nodes
    PROVE  /\ \A k : n \in Lookup(byKey, k) <=>
                 /\ KeyOf(objects[n]) = k
                 /\ \A m \in Nodes : m > n => KeyOf(objects[m]) # k
           /\ \A u : n \in Lookup(byUID, u) <=>
                 /\ u \in UIDsOf(objects[n])
                 /\ \A m \in Nodes : m > n => u \notin UIDsOf(objects[m])
<1>1. Nodes = 1 .. ix - 1 /\ ix \in Nat
  BY NodeTypes
<1>2. /\ \A u \in DOMAIN byUID : byUID[u] \in Nodes
      /\ \A k \in DOMAIN byKey : byKey[k] \in Nodes
  BY NodeTypes DEF Placed, Range
<1>3. ASSUME NEW k
      PROVE  n \in Lookup(byKey, k) <=>
                 /\ KeyOf(objects[n]) = k
                 /\ \A m \in Nodes : m > n => KeyOf(objects[m]) # k
  <2>1. n \in Lookup(byKey, k) <=> k \in DOMAIN byKey /\ byKey[k] = n
    BY DEF Lookup
  <2>2. \A m \in Nodes : KeyOf(objects[m]) = k => k \in DOMAIN byKey /\ m <= byKey[k]
    BY <1>1 DEF Indexed
  <2>3. k \in DOMAIN byKey => KeyOf(objects[byKey[k]]) = k
    BY DEF MapsAgree
  <2> QED  BY <1>1, <1>2, <2>1, <2>2, <2>3
<1>4. ASSUME NEW u
      PROVE  n \in Lookup(byUID, u) <=>
                 /\ u \in UIDsOf(objects[n])
                 /\ \A m \in Nodes : m > n => u \notin UIDsOf(objects[m])
  <2>1. n \in Lookup(byUID, u) <=> u \in DOMAIN byUID /\ byUID[u] = n
    BY DEF Lookup
  <2>2. \A m \in Nodes : u \in UIDsOf(objects[m]) => u \in DOMAIN byUID /\ m <= byUID[u]
    BY <1>1 DEF Indexed
  <2>3. u \in DOMAIN byUID => u \in UIDsOf(objects[byUID[u]])
    BY DEF MapsAgree
  <2> QED  BY <1>1, <1>2, <2>1, <2>2, <2>3
<1> QED  BY <1>3, <1>4

LEMMA PlacedIsLatest ==
    ASSUME TypeOK, MapsAgree, Indexed, ix = Len(objects) + 1, Consistent
    PROVE  Range(byUID) = Latest /\ Placed = Latest
<1>1. Nodes = 1 .. ix - 1 /\ ix \in Nat /\ Placed \subseteq Nodes
  BY NodeTypes
<1>2. ASSUME NEW n \in Placed
      PROVE  n \in Latest /\ n \in Range(byUID)
  <2>1. objects[n].uid \in DOMAIN byUID /\ byUID[objects[n].uid] = n
    BY DEF MapsAgree
  <2>2. \A m \in Nodes : objects[m].uid = objects[n].uid => m <= n
    BY <1>1, <2>1 DEF Indexed, UIDsOf
  <2> QED  BY <1>1, <2>1, <2>2 DEF Latest, Range
<1>3. ASSUME NEW n \in Latest
      PROVE  n \in Range(byUID)
  <2> DEFINE u == objects[n].uid
             m == byUID[u]
  <2>1. n \in Nodes /\ u \in DOMAIN byUID /\ n <= m
    BY <1>1 DEF Latest, Indexed, UIDsOf
  <2>2. m \in Nodes /\ u \in UIDsOf(objects[m])
    BY <2>1, NodeTypes DEF MapsAgree
  <2>3. objects[m].uid = u
    BY <2>1, <2>2 DEF Consistent, UIDsOf
  <2>4. ~(m > n)
    BY <2>2, <2>3 DEF Latest
  <2>5. m = n
    BY <1>1, <2>1, <2>2, <2>4
  <2> QED  BY <2>1, <2>5 DEF Range
<1>4. Range(byUID) \subseteq Placed
  BY DEF Placed
<1> QED  BY <1>2, <1>3, <1>4

(* An entry of a manifest leads to the objects it refers to.               *)
LEMMA TargetsAreReferred ==
    ASSUME TypeOK, MapsAgree, Indexed, ix = Len(objects) + 1, Consistent,
           NEW entry, entry.by \in {"ref", "uid", "label", "selector"}, NEW n \in Latest
    PROVE  n \in Targets(entry) <=> RefersTo(entry, n)
<1>1. n \in Nodes /\ Range(byUID) = Latest
  BY PlacedIsLatest DEF Latest
<1>2. CASE entry.by = "ref"
  BY <1>1, <1>2, LookupsFindLast DEF Targets, RefersTo, IsLast
<1>3. CASE entry.by = "uid"
  BY <1>1, <1>3, LookupsFindLast DEF Targets, RefersTo, IsLast
<1>4. CASE entry.by = "label"
  BY <1>1, <1>4 DEF Targets, LabelSelected, RefersTo
<1>5. CASE entry.by = "selector"
  BY <1>1, <1>5 DEF Targets, Selected, RefersTo
<1> QED  BY <1>2, <1>3, <1>4, <1>5

(* The edges of the finished graph are the declared relationships.         *)
LEMMA ResolvedIsDeclared ==
    ASSUME TypeOK, MapsAgree, Indexed, Consistent, pc = "built"
    PROVE  /\ Resolved \subseteq [from : Latest, to : Latest, rel : Relationship]
           /\ \A n, m \in Latest, r \in Relationship :
                 [from |-> n, to |-> m, rel |-> r] \in Resolved <=> DependsOn(n, m, r)
<1>1. ix = Len(objects) + 1
  BY DEF Indexed
<1>2. Placed = Latest /\ Range(byUID) = Latest /\ Latest \subseteq Nodes
  BY <1>1, PlacedIsLatest DEF Latest
<1>3. \A n \in Latest : objects[n] \in Manifest
  BY <1>2, NodeTypes
<1>4. Resolved = (UNION {OwnerEdges(n) : n \in Latest})
                   \union (UNION {ManifestEdges(n) : n \in Latest})
  BY <1>2 DEF Resolved, OwnersResolved, DeclaredResolved
<1>5. Resolved \subseteq Edge
  BY ResolvedEdges
<1>6. ASSUME NEW n \in Latest, NEW m \in Latest, NEW r \in Relationship
      PROVE  [from |-> n, to |-> m, rel |-> r] \in UNION {OwnerEdges(x) : x \in Latest}
                <=> Owns(m, n, r)
  <2>1. \A u : (u \in DOMAIN byUID /\ byUID[u] = m)
                  <=> RefersTo([by |-> "uid", target |-> u], m)
    BY <1>1, <1>2, LookupsFindLast DEF RefersTo, IsLast, Lookup
  <2>2. [from |-> n, to |-> m, rel |-> r] \in UNION {OwnerEdges(x) : x \in Latest} <=>
           \E ref \in objects[n].owners :
              /\ ref.uid \in DOMAIN byUID /\ byUID[ref.uid] = m
              /\ r \in IF ref.controller THEN {ControllerRef, OwnerRef} ELSE {OwnerRef}
    BY DEF OwnerEdges
  <2> QED  BY <2>1, <2>2 DEF Owns
<1>7. ASSUME NEW n \in Latest, NEW m \in Latest, NEW r \in Relationship
      PROVE  [from |-> n, to |-> m, rel |-> r] \in (UNION {ManifestEdges(x) : x \in Latest})
                <=> \/ Declares(n, "dependency", m, r)
                    \/ Declares(m, "dependent", n, r)
  <2> DEFINE edge == [from |-> n, to |-> m, rel |-> r]
  <2>1. ASSUME NEW x \in Latest, NEW y \in Latest, NEW e \in objects[x].declares
        PROVE  /\ e.dir \in {"dependency", "dependent"}
               /\ y \in Targets(e) <=> RefersTo(e, y)
    <3>1. e \in RelationshipMapEntry
      BY <1>3 DEF Manifest
    <3>2. e.by \in {"ref", "uid", "label", "selector"} /\ e.dir \in Direction
      BY <3>1 DEF RelationshipMapEntry
    <3> QED  BY <1>1, <3>2, TargetsAreReferred DEF Direction
  <2>2. ASSUME NEW x \in Latest, NEW e \in objects[x].declares
        PROVE  edge \in EntryEdges(x, e) <=>
                  \/ e.dir = "dependency" /\ x = n /\ e.rel = r /\ RefersTo(e, m)
                  \/ e.dir = "dependent" /\ x = m /\ e.rel = r /\ RefersTo(e, n)
    BY <2>1 DEF EntryEdges
  <2>3. edge \in UNION {ManifestEdges(x) : x \in Latest} <=>
           \E x \in Latest : /\ objects[x].outcome = "ok"
                             /\ \E e \in objects[x].declares : edge \in EntryEdges(x, e)
    <3>1. \A x : edge \in ManifestEdges(x) <=>
                    /\ objects[x].outcome = "ok"
                    /\ \E e \in objects[x].declares : edge \in EntryEdges(x, e)
      BY DEF ManifestEdges, DeclaredEdges, HasRelationships
    <3> HIDE DEF edge
    <3> QED  BY <3>1
  <2> QED  BY <2>2, <2>3 DEF Declares
<1> QED  BY <1>2, <1>4, <1>5, <1>6, <1>7 DEF DependsOn, Edge

LEMMA DeclaredIfTraced ==
    ASSUME TypeOK, MapsAgree, Indexed, Traced
    PROVE  GraphIsDeclared
<1> DEFINE Links == Latest \X Relationship
           Named(links) == {<<objects[x[1]].uid, x[2]>> : x \in links}
<1> SUFFICES ASSUME pc = "built", Consistent, NEW n \in Latest
             PROVE  /\ dependencies[n] = Named({x \in Links : DependsOn(n, x[1], x[2])})
                    /\ dependents[n] = Named({x \in Links : DependsOn(x[1], n, x[2])})
  BY DEF GraphIsDeclared
<1>1. n \in Nodes
  BY DEF Latest
<1>2. ASSUME NEW e \in Resolved
      PROVE  /\ e.from \in Latest /\ e.to \in Latest /\ e.rel \in Relationship
             /\ DependsOn(e.from, e.to, e.rel)
  <2>1. /\ e.from \in Latest /\ e.to \in Latest /\ e.rel \in Relationship
        /\ e = [from |-> e.from, to |-> e.to, rel |-> e.rel]
    BY <1>2, ResolvedIsDeclared
  <2> QED  BY <2>1, ResolvedIsDeclared
<1>3. ASSUME NEW m \in Latest, NEW r \in Relationship
      PROVE  /\ DependsOn(n, m, r) => [from |-> n, to |-> m, rel |-> r] \in Resolved
             /\ DependsOn(m, n, r) => [from |-> m, to |-> n, rel |-> r] \in Resolved
  BY ResolvedIsDeclared
<1>4. OutOf(Resolved, n) = Named({x \in Links : DependsOn(n, x[1], x[2])})
  <2>1. ASSUME NEW e \in Resolved, e.from = n
        PROVE  \E x \in Links : DependsOn(n, x[1], x[2]) /\ x[1] = e.to /\ x[2] = e.rel
    <3>1. <<e.to, e.rel>> \in Links /\ DependsOn(n, e.to, e.rel)
      BY <1>2, <2>1
    <3> QED  BY <3>1
  <2>2. ASSUME NEW x \in Links, DependsOn(n, x[1], x[2])
        PROVE  \E e \in Resolved : e.from = n /\ e.to = x[1] /\ e.rel = x[2]
    BY <1>3, <2>2
  <2> HIDE DEF Links
  <2> QED  BY <2>1, <2>2 DEF OutOf
<1>5. InTo(Resolved, n) = Named({x \in Links : DependsOn(x[1], n, x[2])})
  <2>1. ASSUME NEW e \in Resolved, e.to = n
        PROVE  \E x \in Links : DependsOn(x[1], n, x[2]) /\ x[1] = e.from /\ x[2] = e.rel
    <3>1. <<e.from, e.rel>> \in Links /\ DependsOn(e.from, n, e.rel)
      BY <1>2, <2>1
    <3> QED  BY <3>1
  <2>2. ASSUME NEW x \in Links, DependsOn(x[1], n, x[2])
        PROVE  \E e \in Resolved : e.from = x[1] /\ e.to = n /\ e.rel = x[2]
    BY <1>3, <2>2
  <2> HIDE DEF Links
  <2> QED  BY <2>1, <2>2 DEF InTo
<1> QED  BY <1>1, <1>4, <1>5 DEF Traced

(* For every consistent list of objects, whatever its order and that of    *)
(* the map iterations, the finished graph holds the relationships the      *)
(* manifests declare, no more and no less.                                 *)
THEOREM GraphAsDeclared == Spec => []GraphIsDeclared
<1>1. Init => Indexed /\ Traced
  <2> SUFFICES ASSUME Init PROVE Indexed /\ Traced
    OBVIOUS
  <2>1. Resolved = {}
    BY DEF Init, Resolved, OwnersResolved, DeclaredResolved
  <2>2. Traced
    BY <2>1 DEF Init, Traced, OutOf, InTo, Nodes
  <2>3. Indexed
    BY DEF Init, Indexed
  <2> QED  BY <2>2, <2>3
<1>2. TypeOK /\ MapsAgree /\ Indexed /\ Traced /\ [Next]_vars => (Indexed /\ Traced)'
  BY IndexedStep, TracedStep
<1>3. TypeOK /\ MapsAgree /\ Indexed /\ Traced => GraphIsDeclared
  BY DeclaredIfTraced
<1> QED  BY <1>1, <1>2, <1>3, TypeCorrect, NodesAreShared, PTL DEF Spec
=============================================================================
