--------------------------- MODULE CommandsProofs ---------------------------
(***************************************************************************)
(* Theorems about the two commands, for every input and every cluster: the *)
(* parts whose theorems ObjectGraphProofs and TraversalProofs state work   *)
(* together as the commands need them to.                                  *)
(***************************************************************************)
EXTENDS Commands, DataLemmas

(***************************************************************************)
(* Command takes the steps of ObjectGraph and Traversal on its own         *)
(* variables.  Whatever it calls them with is one of the inputs for which  *)
(* their theorems are proved.                                              *)
(***************************************************************************)
GraphInputs == Seq(Graph!Manifest)

WalkInputs == [adj : UNION {[known -> SUBSET known] : known \in SUBSET Uid}, roots : Seq(Uid)]

GP == INSTANCE ObjectGraphProofs WITH pc <- gpc, ix <- gix, Inputs <- GraphInputs

WP == INSTANCE TraversalProofs WITH
            adj <- Leads, roots <- uids, pc <- wpc, ix <- wix,
            Delimiter <- ReleaseUID, Inputs <- WalkInputs

LEMMA SameManifest == GP!Manifest = Graph!Manifest
BY DEF GP!Manifest, Graph!Manifest, GP!RelationshipMapEntry, Graph!RelationshipMapEntry,
       GP!Key, Graph!Key, GP!ByLabel, Graph!ByLabel, GP!BySelector, Graph!BySelector,
       GP!Direction, Graph!Direction

LEMMA GraphAssumption == GP!InputsAssumption
BY SameManifest, InputsAssumption DEF GP!InputsAssumption, GraphInputs

LEMMA WalkAssumption == WP!InputsAssumption
<1>1. IsFiniteSet(Uid) <=> WP!IsFiniteSet(Uid)
  BY Zenon DEF IsFiniteSet, WP!IsFiniteSet
<1> QED  BY <1>1, InputsAssumption DEF WP!InputsAssumption, WalkInputs

(* The steps are those of the modules the theorems are about.              *)
LEMMA GraphNext == Graph!Next => GP!Next /\ UNCHANGED objects
<1>1. Graph!Index => GP!Index
  BY Zenon DEF Graph!Index, GP!Index, Graph!Put, GP!Put, Graph!UIDsOf, GP!UIDsOf,
               Graph!Aliases, GP!Aliases, Graph!KeyOf, GP!KeyOf
<1>2. ASSUME NEW edges
      PROVE  Graph!Link(edges) => GP!Link(edges)
  BY Zenon DEF Graph!Link, GP!Link, Graph!Nodes, GP!Nodes
<1>3. ASSUME NEW u, Graph!ResolveOwners(u)
      PROVE  GP!ResolveOwners(u)
  <2>1. Graph!OwnerEdges(byUID[u]) = GP!OwnerEdges(byUID[u])
    BY Zenon DEF Graph!OwnerEdges, GP!OwnerEdges
  <2> QED  BY <1>2, <1>3, <2>1, Zenon DEF Graph!ResolveOwners, GP!ResolveOwners
<1>4. ASSUME NEW e
      PROVE  Graph!Targets(e) = GP!Targets(e)
  <2>1. Graph!Range(byUID) = GP!Range(byUID)
    BY DEF Graph!Range, GP!Range
  <2>2. Graph!LabelSelected(e.target) = GP!LabelSelected(e.target)
    BY <2>1 DEF Graph!LabelSelected, GP!LabelSelected
  <2>3. Graph!Selected(e.target) = GP!Selected(e.target)
    BY <2>1 DEF Graph!Selected, GP!Selected
  <2> QED  BY <2>2, <2>3 DEF Graph!Targets, GP!Targets, Graph!Lookup, GP!Lookup
<1>5. ASSUME NEW n, NEW entries
      PROVE  Graph!DeclaredEdges(n, entries) = GP!DeclaredEdges(n, entries)
  BY <1>4 DEF Graph!DeclaredEdges, GP!DeclaredEdges, Graph!EntryEdges, GP!EntryEdges
<1>6. ASSUME NEW u, Graph!ResolveDeclared(u)
      PROVE  GP!ResolveDeclared(u)
  BY <1>2, <1>5, <1>6, Zenon DEF Graph!ResolveDeclared, GP!ResolveDeclared,
                                 Graph!HasRelationships, GP!HasRelationships
<1>7. Graph!Next => GP!Next
  BY <1>1, <1>3, <1>6, Zenon
     DEF Graph!Next, GP!Next, Graph!IndexFails, GP!IndexFails, Graph!StartOwners,
         GP!StartOwners, Graph!StartDeclared, GP!StartDeclared, Graph!Finish, GP!Finish
<1>8. Graph!Next => UNCHANGED objects
  BY DEF Graph!Next, Graph!Index, Graph!IndexFails, Graph!StartOwners, Graph!ResolveOwners,
         Graph!StartDeclared, Graph!ResolveDeclared, Graph!Finish
<1> QED  BY <1>7, <1>8

LEMMA WalkNext == Walk!Next => WP!Next /\ UNCHANGED uids
<1>1. ASSUME NEW S
      PROVE  Walk!RangeOrders(S) = WP!RangeOrders(S)
  BY DEF Walk!RangeOrders, WP!RangeOrders, Walk!Surjection, WP!Surjection,
         Walk!Cardinality, WP!Cardinality
<1>2. Walk!Visit => WP!Visit
  BY <1>1, Zenon DEF Walk!Visit, WP!Visit, Walk!Seen, WP!Seen, Walk!Enqueue, WP!Enqueue,
                     Walk!Continues, WP!Continues, Walk!input, WP!input
<1>3. Walk!Next => WP!Next
  BY <1>2, Zenon
     DEF Walk!Next, WP!Next, Walk!LoadRoot, WP!LoadRoot, Walk!StartWalk, WP!StartWalk,
         Walk!NextLevel, WP!NextLevel, Walk!SkipSeen, WP!SkipSeen, Walk!Stop, WP!Stop,
         Walk!Seen, WP!Seen, Walk!Continues, WP!Continues, Walk!Known, WP!Known,
         Walk!input, WP!input
<1>4. Walk!Next => UNCHANGED uids
  BY DEF Walk!Next, Walk!LoadRoot, Walk!StartWalk, Walk!NextLevel, Walk!SkipSeen, Walk!Visit,
         Walk!Stop, Walk!input
<1> QED  BY <1>3, <1>4

(* The invariants of the parts, and that they hold initially.  A command   *)
(* calls each part in a step of its own: hence the primes.                 *)
GraphInv == GP!TypeOK /\ GP!MapsAgree /\ GP!EdgeTargetsKnown /\ GP!Indexed /\ GP!Traced

WalkInv == WP!TypeOK /\ WP!IsFiniteSet(WP!Known) /\ WP!QueueAccountsForAll

LEMMA GraphInvInit == (GP!Init => GraphInv)'
<1>1. ASSUME GP!Init
      PROVE  GraphInv
  <2>1. GP!TypeOK
    BY <1>1, GraphAssumption, GP!TypeInit
  <2>2. GP!Resolved = {}
    BY <1>1 DEF GP!Init, GP!Resolved, GP!OwnersResolved, GP!DeclaredResolved
  <2>3. GP!Traced
    BY <1>1, <2>2 DEF GP!Init, GP!Traced, GP!OutOf, GP!InTo, GP!Nodes
  <2>4. GP!MapsAgree /\ GP!EdgeTargetsKnown /\ GP!Indexed
    BY <1>1 DEF GP!Init, GP!MapsAgree, GP!Placed, GP!Range,
               GP!EdgeTargetsKnown, GP!Indexed, GP!Nodes
  <2> QED  BY <2>1, <2>3, <2>4 DEF GraphInv
<1> QED  BY <1>1, PTL

LEMMA WalkInvInit == (WP!Init => WalkInv)'
<1>1. WP!Init => WalkInv
  BY WalkAssumption, WP!TypeInit, WP!InvInit DEF WalkInv
<1> QED  BY <1>1, PTL

LEMMA GraphInvStep ==
    ASSUME GraphInv, Graph!Next \/ UNCHANGED graph
    PROVE  GraphInv'
<1>1. [GP!Next]_GP!vars
  BY GraphNext DEF graph, GP!vars
<1> QED  BY <1>1, GraphAssumption, GP!TypeStep, GP!AgreeStep, GP!KnownStep, GP!IndexedStep,
            GP!TracedStep DEF GraphInv

LEMMA WalkInvStep ==
    ASSUME WalkInv, Walk!Next \/ UNCHANGED <<input, graph, walk>>
    PROVE  WalkInv'
<1>1. [WP!Next]_WP!vars /\ ReleaseUID \notin Uid
  <2>1. UNCHANGED <<input, graph, walk>> => UNCHANGED WP!vars
    BY DEF graph, walk, WP!vars, Leads, depsIsDependencies
  <2> QED  BY <2>1, WalkNext, InputsAssumption
<1> QED  BY <1>1, WalkAssumption, WP!TypeStep, WP!InvStep DEF WalkInv

(***************************************************************************)
(* What a command receives.                                                *)
(***************************************************************************)
LEMMA CopiesSymmetric ==
    ASSUME NEW c, NEW d
    PROVE  c \in Copies(d) <=> d \in Copies(c)
BY DEF Copies

(* Everything the servers may present, in any of its classes.              *)
ServedCopies ==
    UNION {{Served(o, c) : c \in Copies(o.class)} : o \in input.before \union input.after}

LEMMA ServedTypes ==
    ASSUME input \in Inputs
    PROVE  /\ ServedCopies \subseteq Graph!Manifest
           /\ \A o \in ServedCopies :
                 /\ o.uid \in Uid /\ o.class \in Class /\ o.ns \in Namespace
                 /\ o.class \in NamespacedClass <=> o.ns # AllNamespaces
<1>1. ASSUME NEW o \in ServedCopies
      PROVE  o \in Graph!Manifest /\ (o.class \in NamespacedClass <=> o.ns # AllNamespaces)
  <2>1. PICK x \in input.before \union input.after : \E c \in Copies(x.class) : o = Served(x, c)
    BY DEF ServedCopies
  <2> QED  BY <2>1, ClusterAssumption
<1>2. \A o \in Graph!Manifest : o.uid \in Uid /\ o.class \in Class /\ o.ns \in Namespace
  BY DEF Graph!Manifest
<1> QED  BY <1>1, <1>2

LEMMA ServedAsTypes ==
    ASSUME input \in Inputs, cluster \in {input.before, input.after}, NEW class
    PROVE  /\ IsFiniteSet(ServedAs(class))
           /\ ServedAs(class) \subseteq ServedCopies
           /\ \A o \in ServedAs(class) : o.class = class
<1> DEFINE presented == {x \in cluster : x.class \in Copies(class)}
<1>1. IsFiniteSet(presented)
  BY ClusterAssumption, FS_Subset
<1>2. IsFiniteSet({Served(o, class) : o \in presented})
  <2> DEFINE f == [o \in presented |-> Served(o, class)]
  <2>1. f \in Surjection(presented, {Served(o, class) : o \in presented})
    BY DEF Surjection
  <2> HIDE DEF f, presented
  <2> QED  BY <1>1, <2>1, FS_Surjection
<1>3. ASSUME NEW o \in presented
      PROVE  Served(o, class) \in ServedCopies /\ Served(o, class).class = class
  <2>1. class \in Copies(o.class) /\ o \in input.before \union input.after
    BY CopiesSymmetric
  <2> QED  BY <2>1, ClusterAssumption DEF ServedCopies
<1> QED  BY <1>2, <1>3 DEF ServedAs

(* The answers of the servers to a Get and to a listing.                   *)
LEMMA GetTypes ==
    ASSUME input \in Inputs, cluster \in {input.before, input.after}, NEW class, NEW ns, NEW name
    PROVE  Get(class, ns, name) \subseteq ServedCopies
BY ServedAsTypes DEF Get

LEMMA ListTypes ==
    ASSUME input \in Inputs, cluster \in {input.before, input.after}, NEW class, NEW scope
    PROVE  /\ ListByAPI(class, scope) \in Seq(ServedCopies)
           /\ Range(ListByAPI(class, scope)) = {o \in ServedAs(class) : InScope(o, scope)}
<1> DEFINE answer == {o \in ServedAs(class) : InScope(o, scope)}
<1>1. IsFiniteSet(answer) /\ answer \subseteq ServedCopies
  BY ServedAsTypes, FS_Subset
<1>2. SetToSeq(answer) \in Seq(answer) /\ Range(SetToSeq(answer)) = answer
  <2> HIDE DEF answer
  <2> QED  BY <1>1, SetAsSequence
<1>3. Seq(answer) \subseteq Seq(ServedCopies)
  BY <1>1
<1> QED  BY <1>2, <1>3 DEF ListByAPI

(* The objects of a release that the filters select.                       *)
LEMMA SelectionOfList ==
    ASSUME NEW X, NEW list \in Seq(X)
    PROVE  /\ Selection(list) \in Seq(X)
           /\ Len(Selection(list)) <= Len(list)
           /\ Range(Selection(list)) = {x \in Range(list) : Selects(x)}
<1> DEFINE n == Len(list)
           step == [i \in 1 .. n |-> 
                     [v \in Seq(X) |-> IF Selects(list[i]) THEN Append(v, list[i]) ELSE v]]
           upTo[i \in 0 .. n] ==
            IF i = 0 THEN <<>>
            ELSE IF Selects(list[i]) THEN Append(upTo[i - 1], list[i]) ELSE upTo[i - 1]
<1>1. n \in Nat /\ \A i \in 1 .. n : list[i] \in X
  BY LenProperties, ElementOfSeq
<1>2. upTo = [i \in 0 .. n |-> IF i = 0 THEN <<>>
              ELSE IF Selects(list[i]) THEN Append(upTo[i - 1], list[i]) ELSE upTo[i - 1]]
  <2> HIDE DEF n
  <2>1. <<>> \in Seq(X) /\ StepsOn(step, Seq(X), n)
    BY <1>1 DEF StepsOn
  <2>2. PICK f : Recursive(f, <<>>, step, Seq(X), n)
    <3> HIDE DEF step, upTo
    <3> QED  BY <1>1, <2>1, RecursiveFunction
  <2>3. f \in [0 .. n -> Seq(X)] /\ f[0] = <<>>
    BY <2>2 DEF Recursive
  <2>4. ASSUME NEW i \in 1 .. n
        PROVE  f[i] = IF Selects(list[i]) THEN Append(f[i - 1], list[i]) ELSE f[i - 1]
    <3>1. f[i] = step[i][f[i - 1]]
      BY <2>2 DEF Recursive
    <3>2. f[i - 1] \in Seq(X)
      BY <1>1, <2>3
    <3> QED  BY <3>1, <3>2
  <2> HIDE DEF step, upTo
  <2>5. ASSUME NEW i \in 0 .. n
        PROVE  f[i] = IF i = 0 THEN <<>>
              ELSE IF Selects(list[i]) THEN Append(f[i - 1], list[i]) ELSE f[i - 1]
    <3>1. CASE i = 0
      BY <2>3, <3>1
    <3>2. CASE i # 0
      <4>1. i \in 1 .. n
        BY <1>1, <3>2
      <4> QED  BY <2>4, <3>2, <4>1
    <3> QED  BY <3>1, <3>2
  <2>6. f = [i \in 0 .. n |-> IF i = 0 THEN <<>>
              ELSE IF Selects(list[i]) THEN Append(f[i - 1], list[i]) ELSE f[i - 1]]
    <3>1. f = [i \in 0 .. n |-> f[i]]
      BY <2>3
    <3> QED  BY <2>5, <3>1, Zenon
  <2> QED  BY <2>6, Zenon DEF upTo
<1>3. Selection(list) = upTo[n]
  BY Zenon DEF Selection
<1> HIDE DEF n, upTo
<1>4. ASSUME NEW i \in 1 .. n
      PROVE  upTo[i] = IF Selects(list[i]) THEN Append(upTo[i - 1], list[i]) ELSE upTo[i - 1]
  <2>1. i \in 0 .. n /\ i # 0
    BY <1>1
  <2> QED  BY <1>2, <2>1
<1>5. upTo[0] = <<>>
  BY <1>1, <1>2
<1> DEFINE Picked(i) == {x \in {list[k] : k \in 1 .. i} : Selects(x)}
           Right(i) ==
             /\ upTo[i] \in Seq(X) /\ Len(upTo[i]) <= i
             /\ {upTo[i][k] : k \in 1 .. Len(upTo[i])} = Picked(i)
           RightUpto == {i \in Nat : i <= n => Right(i)}
<1>6. Right(0)
  BY <1>5
<1>7. ASSUME NEW i \in Nat, i + 1 <= n, Right(i)
      PROVE  Right(i + 1)
  <2>1. upTo[i + 1] = IF Selects(list[i + 1]) THEN Append(upTo[i], list[i + 1]) ELSE upTo[i]
    BY <1>1, <1>4, <1>7
  <2>2. PICK s \in Seq(X) : s = upTo[i]
    BY <1>7
  <2>3. PICK x \in X : x = list[i + 1]
    BY <1>1, <1>7
  <2>4. /\ Append(s, x) \in Seq(X) /\ Len(Append(s, x)) = Len(s) + 1 /\ Len(s) \in Nat
        /\ \A k \in 1 .. Len(s) : Append(s, x)[k] = s[k]
        /\ Append(s, x)[Len(s) + 1] = x
    BY AppendProperties, LenProperties
  <2>5. {Append(s, x)[k] : k \in 1 .. Len(Append(s, x))} = {s[k] : k \in 1 .. Len(s)} \union {x}
    BY <2>4
  <2>6. {list[k] : k \in 1 .. i + 1} = {list[k] : k \in 1 .. i} \union {x}
    BY <2>3
  <2>7. CASE Selects(x)
    <3>1. upTo[i + 1] = Append(s, x)
      BY <2>1, <2>2, <2>3, <2>7
    <3>2. Picked(i + 1) = Picked(i) \union {x}
      BY <2>6, <2>7, Zenon
    <3> HIDE DEF Picked
    <3>3. Len(s) <= i /\ {s[k] : k \in 1 .. Len(s)} = Picked(i)
      BY <1>7, <2>2
    <3> QED  BY <2>4, <2>5, <3>1, <3>2, <3>3
  <2>8. CASE ~Selects(x)
    <3>1. upTo[i + 1] = upTo[i]
      BY <2>1, <2>3, <2>8
    <3>2. Picked(i + 1) = Picked(i)
      BY <2>6, <2>8, Zenon
    <3> HIDE DEF Picked
    <3> QED  BY <1>7, <3>1, <3>2
  <2> QED  BY <2>7, <2>8
<1>8. RightUpto = Nat
  <2>1. 0 \in RightUpto /\ RightUpto \subseteq Nat
    BY <1>6
  <2>2. \A i \in RightUpto : i + 1 \in RightUpto
    <3> HIDE DEF Right
    <3> QED  BY <1>1, <1>7
  <2> HIDE DEF RightUpto
  <2> QED  BY <2>1, <2>2, SetInduction
<1>9. Right(n)
  <2> HIDE DEF Right
  <2> QED  BY <1>1, <1>8
<1>10. Range(list) = {list[k] : k \in 1 .. n}
  BY RangeOfSequence DEF n
<1> QED  BY <1>3, <1>9, <1>10, RangeOfSequence DEF n

(***************************************************************************)
(* The steps.  Many of them only end the command, or lead from one request *)
(* to the next.                                                            *)
(***************************************************************************)
Quiet ==
    /\ UNCHANGED <<input, request, listing, tree, graph, walk>>
    /\ cluster' \in {cluster, input.after}
    /\ \/ pc' \in {pc, "failed"}
       \/ pc = "start" /\ pc' = "get"
       \/ pc = "get" /\ pc' = "storage" /\ input.cmd = "helm"

LEMMA Steps ==
    ASSUME [Next]_vars
    PROVE  \/ Quiet
           \/ ResolveTypes \/ StartListing
           \/ \E class \in Class, ns \in Namespace :
                 ListScope(class, ns) \/ SkipForbidden(class, ns) \/ LoseFailure(class, ns)
           \/ StartGraph \/ GraphStep \/ StartWalk \/ WalkStep
           \/ GetRoot \/ SelectLineage \/ PrintLineage
           \/ GetManifestObject \/ GetStorageObject \/ SelectHelm \/ PrintHelm
<1> USE DEF Quiet, AtStep, Goto
<1>1. CASE CommonStep
  <2>1. RequestFails \/ UnknownType => Quiet
    BY DEF RequestFails, UnknownType
  <2> QED  BY <1>1, <2>1 DEF CommonStep, ListStep
<1>2. CASE LineageStep
  <2>1. ResolveRequestType \/ UnknownRequestType \/ RootNotFound => Quiet
    BY DEF ResolveRequestType, UnknownRequestType, RootNotFound
  <2> QED  BY <1>2, <2>1 DEF LineageStep
<1>3. CASE HelmStep
  <2>1. ReleaseFound \/ ManifestObjectMissing \/ ManifestComplete \/ NoStorageObject => Quiet
    BY DEF ReleaseFound, ManifestObjectMissing, ManifestComplete, NoStorageObject
  <2> QED  BY <1>3, <2>1 DEF HelmStep
<1>4. CASE ClusterChanges
  BY <1>4 DEF ClusterChanges
<1>5. CASE UNCHANGED vars
  BY <1>5 DEF vars
<1> QED  BY <1>1, <1>2, <1>3, <1>4, <1>5 DEF Next, CommandStep

(***************************************************************************)
(* The types, and what has been requested.                                 *)
(***************************************************************************)
Listing == {"call", "list"}
Resolving == {"graph", "walk", "resolved", "printed"}

TypesInv ==
    /\ input \in Inputs
    /\ cluster \in {input.before, input.after}
    /\ pc \in {"start", "get", "storage", "types", "select", "failed"} \union
              Listing \union Resolving
    /\ include \union exclude \subseteq KnownTypes
    /\ fetched \in Seq(ServedCopies)
    /\ stored \in Seq(ServedCopies) /\ Len(stored) <= 1
    /\ objects \in Seq(ServedCopies)
    /\ namespaces \subseteq Namespace
    /\ pending \union listed \subseteq Class \X Namespace
    /\ dropped \in BOOLEAN

LEMMA RequestTypes ==
    ASSUME input \in Inputs
    PROVE  /\ KnownTypes \subseteq Class
           /\ FilterAPIs(GetAPIResources(input.offers, input.failedGroups), include, exclude)
                 \subseteq Class
           /\ LineageNamespaces \subseteq Namespace
           /\ \A objs \in Seq(ServedCopies) : HelmNamespaces(objs) \subseteq Namespace
<1>1. KnownTypes \subseteq Class
  BY InputsAssumption DEF KnownTypes, Resolvable
<1>2. GetAPIResources(input.offers, input.failedGroups) \subseteq Class
  BY InputsAssumption DEF GetAPIResources
<1>3. LineageNamespaces \subseteq Namespace
  BY InputsAssumption DEF LineageNamespaces
<1>4. ASSUME NEW objs \in Seq(ServedCopies)
      PROVE  HelmNamespaces(objs) \subseteq Namespace
  <2>1. \A o \in Range(objs) : o.ns \in Namespace
    BY RangeOfSequence, ServedTypes
  <2> QED  BY <2>1, InputsAssumption DEF HelmNamespaces
<1> QED  BY <1>1, <1>2, <1>3, <1>4 DEF FilterAPIs

LEMMA TypesStep ==
    ASSUME TypesInv, [Next]_vars
    PROVE  TypesInv'
<1> USE DEF AtStep, Goto, request, listing, graph, Listing, Resolving
<1>1. (ServedCopies' = ServedCopies /\ KnownTypes' = KnownTypes) \/ input' # input
  BY DEF ServedCopies, KnownTypes
<1>2. CASE Quiet
  BY <1>1, <1>2 DEF TypesInv, Quiet
<1>3. CASE ResolveTypes
  BY <1>1, <1>3 DEF TypesInv, ResolveTypes
<1>4. CASE StartListing
  <2>1. pending' \subseteq Class \X Namespace
    BY <1>4, RequestTypes, InputsAssumption
       DEF TypesInv, StartListing, List!InitialScopes, apis, nsSet
  <2> QED  BY <1>1, <1>4, <2>1 DEF TypesInv, StartListing
<1>5. ASSUME NEW class \in Class, NEW ns \in Namespace, ListScope(class, ns)
      PROVE  TypesInv'
  <2>1. objects' \in Seq(ServedCopies)
    BY <1>5, ListTypes, RangeOfConcatenation DEF TypesInv, ListScope
  <2> QED  BY <1>1, <1>5, <2>1 DEF TypesInv, ListScope, List!Take, List!ListScope
<1>6. ASSUME NEW class \in Class, NEW ns \in Namespace, SkipForbidden(class, ns)
      PROVE  TypesInv'
  <2>1. List!FallBack(class) \subseteq Class \X Namespace
    BY DEF List!FallBack, nsSet, TypesInv
  <2> QED  BY <1>1, <1>6, <2>1 DEF TypesInv, SkipForbidden, List!Take, List!SkipForbidden
<1>7. ASSUME NEW class \in Class, NEW ns \in Namespace, LoseFailure(class, ns)
      PROVE  TypesInv'
  BY <1>1, <1>7 DEF TypesInv, LoseFailure, List!Take, List!LoseFailure
<1>8. CASE StartGraph
  <2>1. objects' \in Seq(ServedCopies)
    BY <1>8, RangeOfConcatenation DEF TypesInv, StartGraph, Appended
  <2> QED  BY <1>1, <1>8, <2>1 DEF TypesInv, StartGraph, List!Succeed
<1>9. CASE GraphStep
  BY <1>1, <1>9, GraphNext DEF TypesInv, GraphStep
<1>10. CASE StartWalk
  BY <1>1, <1>10 DEF TypesInv, StartWalk
<1>11. CASE WalkStep
  BY <1>1, <1>11 DEF TypesInv, WalkStep
<1>12. CASE GetRoot
  <2>1. fetched' \in Seq(ServedCopies)
    BY <1>12, GetTypes DEF TypesInv, GetRoot
  <2> QED  BY <1>1, <1>12, <2>1 DEF TypesInv, GetRoot
<1>13. CASE SelectLineage
  BY <1>1, <1>13, RequestTypes DEF TypesInv, SelectLineage
<1>14. CASE PrintLineage
  BY <1>1, <1>14 DEF TypesInv, PrintLineage
<1>15. CASE GetManifestObject
  <2>1. \A class, ns, name : Get(class, ns, name) \subseteq ServedCopies
    BY GetTypes DEF TypesInv
  <2>2. PICK o \in ServedCopies : fetched' = Append(fetched, o)
    BY <1>15, <2>1 DEF GetManifestObject
  <2>3. fetched' \in Seq(ServedCopies)
    BY <2>2, AppendProperties DEF TypesInv
  <2> QED  BY <1>1, <1>15, <2>3 DEF TypesInv, GetManifestObject
<1>16. CASE GetStorageObject
  <2>1. StorageObjects \subseteq ServedCopies
    BY GetTypes DEF TypesInv, StorageObjects
  <2>2. stored' = stored \/ \E o \in ServedCopies : stored' = <<o>>
    BY <1>16, <2>1 DEF GetStorageObject
  <2>3. stored' \in Seq(ServedCopies) /\ Len(stored') <= 1
    <3>1. \A o \in ServedCopies : <<o>> \in Seq(ServedCopies) /\ Len(<<o>>) = 1
      OBVIOUS
    <3>2. ASSUME NEW o \in ServedCopies, stored' = <<o>>
          PROVE  stored' \in Seq(ServedCopies) /\ Len(stored') <= 1
      BY <3>1, <3>2
    <3> QED  BY <2>2, <3>2 DEF TypesInv
  <2> QED  BY <1>1, <1>16, <2>3 DEF TypesInv, GetStorageObject
<1>17. CASE SelectHelm
  <2>1. /\ fetched' \in Seq(ServedCopies) /\ stored' \in Seq(ServedCopies)
        /\ Len(stored') <= 1
    BY <1>17, SelectionOfList, LenProperties DEF TypesInv, SelectHelm
  <2>2. namespaces' \subseteq Namespace
    BY <1>17, <2>1, RequestTypes DEF TypesInv, SelectHelm
  <2> QED  BY <1>1, <1>17, <2>1, <2>2 DEF TypesInv, SelectHelm
<1>18. CASE PrintHelm
  BY <1>1, <1>18 DEF TypesInv, PrintHelm
<1> QED  BY Steps, <1>2, <1>3, <1>4, <1>5, <1>6, <1>7, <1>8, <1>9, <1>10, <1>11, <1>12,
            <1>13, <1>14, <1>15, <1>16, <1>17, <1>18

(* What has been fetched, and the namespaces to list.                      *)
RequestInv ==
    /\ pc = "storage" => input.cmd = "helm"
    /\ input.cmd = "lineage" =>
          /\ stored = <<>>
          /\ pc \in {"types", "select"} \union Listing \union Resolving => Len(fetched) = 1
    /\ pc \in Listing \union Resolving =>
          /\ input.cmd = "lineage" => namespaces = LineageNamespaces
          /\ input.cmd = "helm" =>
                /\ namespaces = HelmNamespaces(fetched)
                /\ \A o \in Range(fetched) \union Range(stored) : Selects(o)

LEMMA RequestUnchanged ==
    ASSUME RequestInv, UNCHANGED <<input, request>>,
           \/ pc' \in {pc, "failed"}
           \/ pc = "start" /\ pc' = "get"
           \/ pc = "get" /\ pc' = "storage" /\ input.cmd = "helm"
           \/ pc \in Listing \union Resolving /\ pc' \in Listing \union Resolving
    PROVE  RequestInv'
BY DEF RequestInv, request, Listing, Resolving, LineageNamespaces, HelmNamespaces, Selects

LEMMA RequestStep ==
    ASSUME TypesInv, RequestInv, [Next]_vars
    PROVE  RequestInv'
<1> USE DEF AtStep, Goto, request, listing, graph, Listing, Resolving
<1>1. CASE Quiet
  BY <1>1, RequestUnchanged DEF Quiet
<1>2. CASE ResolveTypes
  BY <1>2 DEF RequestInv, ResolveTypes
<1>3. CASE StartListing \/ StartWalk \/ PrintLineage \/ PrintHelm
  BY <1>3, RequestUnchanged DEF StartListing, StartWalk, PrintLineage, PrintHelm
<1>4. ASSUME NEW class \in Class, NEW ns \in Namespace,
             ListScope(class, ns) \/ SkipForbidden(class, ns) \/ LoseFailure(class, ns)
      PROVE  RequestInv'
  BY <1>4, RequestUnchanged DEF ListScope, SkipForbidden, LoseFailure
<1>5. CASE StartGraph \/ GraphStep \/ WalkStep
  BY <1>5, RequestUnchanged DEF StartGraph, GraphStep, WalkStep
<1>6. CASE GetRoot
  BY <1>6 DEF RequestInv, GetRoot
<1>7. CASE SelectLineage
  BY <1>7 DEF RequestInv, SelectLineage, LineageNamespaces
<1>8. CASE GetManifestObject
  BY <1>8 DEF RequestInv, GetManifestObject
<1>9. CASE GetStorageObject
  BY <1>9 DEF RequestInv, GetStorageObject
<1>10. CASE SelectHelm
  <2>1. \A o \in Range(fetched') \union Range(stored') : Selects(o)
    BY <1>10, SelectionOfList DEF TypesInv, SelectHelm
  <2>2. \A o : Selects(o) => Selects(o)'
    BY <1>10 DEF SelectHelm, Selects
  <2>3. namespaces' = HelmNamespaces(fetched)'
    BY <1>10 DEF SelectHelm, HelmNamespaces
  <2> QED  BY <1>10, <2>1, <2>2, <2>3 DEF RequestInv, SelectHelm
<1> QED  BY Steps, <1>1, <1>2, <1>3, <1>4, <1>5, <1>6, <1>7, <1>8, <1>9, <1>10

(***************************************************************************)
(* The parts: each is called on variables that nobody has touched, with    *)
(* what was requested and listed.                                          *)
(***************************************************************************)
BeforeList == {"start", "get", "storage", "types", "select", "call"}

GraphIdle == gpc = "index" /\ gix = 1 /\ byUID = <<>> /\ byKey = <<>> /\ todo = {} /\ rmap = {}

WalkIdle == wpc = "roots" /\ wix = 1 /\ nodeMap = {} /\ queue = <<>> /\ seen = {} /\ depth = 0

PartsInv ==
    /\ pc \in BeforeList \union {"list"} => GraphIdle /\ WalkIdle
    /\ pc \in Resolving => uids = UIDsOf(fetched \o stored)
    /\ pc = "graph" => fetched \o stored # <<>> /\ GraphInv /\ WalkIdle
    /\ pc = "walk" => GraphInv /\ gpc = "built" /\ WalkInv
    /\ pc \in {"resolved", "printed"} =>
          \/ fetched \o stored = <<>> /\ nodeMap = {}
          \/ GraphInv /\ gpc = "built" /\ WalkInv /\ wpc = "done"

LEMMA PartsUnchanged ==
    ASSUME PartsInv, UNCHANGED <<input, fetched, stored, graph, walk>>,
           \/ pc' \in {pc, "failed"}
           \/ pc \in BeforeList \union {"list"} /\ pc' \in BeforeList \union {"list"}
           \/ pc \in {"resolved", "printed"} /\ pc' \in {"resolved", "printed"}
    PROVE  PartsInv'
<1>1. (GraphInv => GraphInv') /\ (WalkInv => WalkInv')
  BY GraphInvStep, WalkInvStep
<1> QED  BY <1>1 DEF PartsInv, BeforeList, Resolving, GraphIdle, WalkIdle, UIDsOf, graph, walk

(* The relationships the walk follows lead from known objects to known     *)
(* ones, and name their UIDs.                                              *)
LEMMA LeadsTypes ==
    ASSUME GraphInv
    PROVE  /\ Leads \in [DOMAIN byUID -> SUBSET DOMAIN byUID] /\ DOMAIN byUID \subseteq Uid
           /\ \A u \in DOMAIN byUID : \A v \in Leads[u] :
                 \E m \in DOMAIN objects : objects[m].uid = v
<1>1. ASSUME NEW u \in DOMAIN byUID, NEW v \in Leads[u]
      PROVE  v \in DOMAIN byUID /\ \E m \in DOMAIN objects : objects[m].uid = v
  <2> DEFINE n == byUID[u]
  <2>1. n \in GP!Nodes
    BY GraphAssumption, GP!NodeTypes DEF GraphInv
  <2>2. PICK e \in dependencies[n] \union dependents[n] : v = e[1]
    BY DEF Leads
  <2>3. v \in DOMAIN byUID
    BY <2>1, <2>2 DEF GraphInv, GP!EdgeTargetsKnown
  <2>4. \E m \in GP!Nodes : objects[m].uid = e[1]
    BY <2>1, <2>2, GraphAssumption, GP!EdgesNameUIDs DEF GraphInv
  <2> QED  BY <2>2, <2>3, <2>4 DEF GP!Nodes
<1>2. DOMAIN byUID \subseteq Uid
  BY DEF GraphInv, GP!TypeOK
<1> QED  BY <1>1, <1>2 DEF Leads

LEMMA RequestedUIDs ==
    ASSUME TypesInv
    PROVE  /\ fetched \o stored \in Seq(ServedCopies)
           /\ UIDsOf(fetched \o stored) \in Seq(Uid)
           /\ UIDsOf(fetched \o stored) = <<>> <=> fetched \o stored = <<>>
           /\ Range(UIDsOf(fetched \o stored)) = Subjects
<1>1. PICK s \in Seq(ServedCopies) : s = fetched \o stored
  BY RangeOfConcatenation DEF TypesInv
<1>2. Len(s) \in Nat /\ DOMAIN s = 1 .. Len(s) /\ \A i \in DOMAIN s : s[i].uid \in Uid
  BY LenProperties, ElementOfSeq, ServedTypes DEF TypesInv
<1>3. UIDsOf(s) \in Seq(Uid) /\ DOMAIN UIDsOf(s) = DOMAIN s
  BY <1>2 DEF UIDsOf
<1>4. UIDsOf(s) = <<>> <=> s = <<>>
  BY <1>2, <1>3, EmptySeq, LenProperties
<1>5. Range(UIDsOf(s)) = {o.uid : o \in Range(s)}
  BY <1>2 DEF UIDsOf, Range
<1> QED  BY <1>1, <1>3, <1>4, <1>5 DEF Subjects

LEMMA PartsStep ==
    ASSUME TypesInv, RequestInv, PartsInv, [Next]_vars
    PROVE  PartsInv'
<1> USE DEF AtStep, Goto, request, listing, Listing, Resolving, BeforeList
<1>1. CASE Quiet
  BY <1>1, PartsUnchanged DEF Quiet, graph, walk
<1>2. CASE ResolveTypes \/ StartListing \/ SelectLineage \/ PrintLineage \/ PrintHelm
  BY <1>2, PartsUnchanged DEF ResolveTypes, StartListing,
                               SelectLineage, PrintLineage, PrintHelm, graph, walk
<1>3. ASSUME NEW class \in Class, NEW ns \in Namespace, ListScope(class, ns)
      PROVE  PartsInv'
  BY <1>3 DEF ListScope, PartsInv, GraphIdle, WalkIdle, walk
<1>4. ASSUME NEW class \in Class, NEW ns \in Namespace,
             SkipForbidden(class, ns) \/ LoseFailure(class, ns)
      PROVE  PartsInv'
  BY <1>4, PartsUnchanged DEF SkipForbidden, LoseFailure, graph, walk
<1>5. CASE StartGraph
  <2>1. uids' = UIDsOf(fetched \o stored)' /\ WalkIdle'
    BY <1>5 DEF StartGraph, PartsInv, WalkIdle, UIDsOf
  <2>2. CASE fetched \o stored = <<>>
    BY <1>5, <2>1, <2>2 DEF StartGraph, PartsInv, WalkIdle
  <2>3. CASE fetched \o stored # <<>>
    <3>1. objects' \in Seq(Graph!Manifest)
      <4>1. objects' \in Seq(ServedCopies)
        BY <1>5, RangeOfConcatenation DEF TypesInv, StartGraph, Appended
      <4> QED  BY <4>1, ServedTypes DEF TypesInv
    <3>2. GP!Init'
      BY <1>5, <3>1 DEF GP!Init, GP!Nodes, GraphInputs, StartGraph, PartsInv, GraphIdle
    <3> QED  BY <1>5, <2>1, <2>3, <3>2, GraphInvInit DEF StartGraph, PartsInv
  <2> QED  BY <2>2, <2>3
<1>6. CASE GraphStep
  <2>1. GraphInv'
    BY <1>6, GraphInvStep DEF PartsInv, GraphStep
  <2> QED  BY <1>6, <2>1 DEF GraphStep, PartsInv, WalkIdle, UIDsOf, walk
<1>7. CASE StartWalk
  <2>1. GraphInv' /\ gpc' = "built"
    BY <1>7, GraphInvStep DEF PartsInv, StartWalk, graph
  <2>2. Leads \in [DOMAIN byUID -> SUBSET DOMAIN byUID] /\ DOMAIN byUID \subseteq Uid
    BY <1>7, LeadsTypes DEF PartsInv, StartWalk
  <2>3. WP!Init'
    <3>1. UNCHANGED <<uids, Leads>>
      BY <1>7 DEF StartWalk, Leads, depsIsDependencies, graph
    <3>2. uids \in Seq(Uid) /\ uids # <<>>
      BY <1>7, RequestedUIDs DEF PartsInv, StartWalk
    <3>3. \E i \in WalkInputs : Leads = i.adj /\ uids = i.roots
      <4>1. [adj |-> Leads, roots |-> uids] \in WalkInputs
        BY <2>2, <3>2 DEF WalkInputs
      <4> QED  BY <4>1
    <3>4. /\ wpc' = "roots" /\ wix' = 1 /\ nodeMap' = {} /\ queue' = <<>> /\ seen' = {}
          /\ depth' = 0 /\ nodeDepth' = [u \in DOMAIN Leads |-> 0]
      BY <1>7, <2>2 DEF StartWalk, PartsInv, WalkIdle
    <3>5. (\E i \in WalkInputs : Leads = i.adj /\ uids = i.roots)'
      BY <3>1, <3>3 DEF WalkInputs
    <3> HIDE DEF Resolving, Listing, BeforeList, AtStep
    <3> QED  BY <3>1, <3>2, <3>4, <3>5 DEF WP!Init, WP!Known
  <2>4. WalkInv'
    BY <2>3, WalkInvInit
  <2> QED  BY <1>7, <2>1, <2>4 DEF StartWalk, PartsInv, UIDsOf, walk
<1>8. CASE WalkStep
  <2>1. GraphInv' /\ WalkInv' /\ UNCHANGED gpc
    BY <1>8, GraphInvStep, WalkInvStep DEF PartsInv, WalkStep, graph
  <2>2. UNCHANGED uids
    BY <1>8, WalkNext DEF WalkStep
  <2> QED  BY <1>8, <2>1, <2>2 DEF WalkStep, PartsInv, UIDsOf
<1>9. CASE GetRoot \/ GetManifestObject \/ GetStorageObject \/ SelectHelm
  BY <1>9 DEF GetRoot, GetManifestObject, GetStorageObject, SelectHelm, PartsInv,
              GraphIdle, WalkIdle, graph, walk
<1> QED  BY Steps, <1>1, <1>2, <1>3, <1>4, <1>5, <1>6, <1>7, <1>8, <1>9

(* What has been printed is what the walk has resolved.                    *)
LineageTree == [root |-> fetched[1].uid,
                deps |-> [u \in nodeMap |-> Leads[u]],
                depth |-> [u \in nodeMap |-> nodeDepth[u]]]

HelmTree == [root |-> ReleaseUID,
             deps |-> WithRelease(ReleaseDependents, [u \in nodeMap |-> Leads[u]]),
             depth |-> WithRelease(0, Deepen([u \in nodeMap |-> nodeDepth[u]]))]

PrintInv ==
    pc = "printed" =>
        /\ input.cmd = "lineage" => fetched[1].uid \in nodeMap /\ tree = LineageTree
        /\ input.cmd = "helm" => tree = HelmTree

LEMMA PrintStep ==
    ASSUME PrintInv, [Next]_vars
    PROVE  PrintInv'
<1> USE DEF AtStep, Goto, request, graph, walk
<1>1. ASSUME UNCHANGED <<input, request, graph, walk>>
      PROVE  UNCHANGED <<LineageTree, HelmTree>>
  BY <1>1 DEF LineageTree, HelmTree, WithRelease, Leads, depsIsDependencies, Deepen,
                ReleaseDependents, UIDsOf
<1>2. CASE Quiet
  BY <1>1, <1>2 DEF Quiet, PrintInv
<1>3. CASE PrintLineage
  BY <1>1, <1>3 DEF PrintLineage, PrintInv, LineageTree
<1>4. CASE PrintHelm
  BY <1>1, <1>4 DEF PrintHelm, PrintInv, HelmTree
<1>5. pc' # "printed" \/ Quiet \/ PrintLineage \/ PrintHelm
  <2>1. ASSUME NEW class, NEW ns,
               ListScope(class, ns) \/ SkipForbidden(class, ns) \/ LoseFailure(class, ns)
        PROVE  pc' # "printed"
    BY <2>1 DEF ListScope, SkipForbidden, LoseFailure
  <2> QED  BY <2>1, Steps
           DEF ResolveTypes, StartListing, StartGraph, GraphStep, StartWalk, WalkStep, GetRoot,
               SelectLineage, GetManifestObject, GetStorageObject, SelectHelm
<1> QED  BY <1>2, <1>3, <1>4, <1>5 DEF PrintInv

(***************************************************************************)
(* The list.                                                               *)
(***************************************************************************)
(* The scopes List asks for.                                               *)
AskedScopes == (IF isClusterScopeRequest THEN {AllNamespaces} ELSE {}) \union nsSet

Answers(o, ns) == ~IsForbidden(o.class, ns) /\ InScope(o, ScopeOf(o.class, ns))

Permitted(o) == o.class \in apis /\ \E ns \in AskedScopes : Answers(o, ns)

(* A listing is still to be made that will yield an object; one that is    *)
(* forbidden at the cluster scope will be tried again.                     *)
Owed(o) == \E ns \in Namespace : /\ <<o.class, ns>> \in pending
                                 /\ ns = AllNamespaces \/ Answers(o, ns)

ListInv ==
    /\ pc \in BeforeList => objects = <<>>
    /\ pc = "list" => /\ pending \subseteq apis \X AskedScopes
                      /\ \A o \in Range(objects) : Permitted(o)
    /\ pc \in Resolving =>
          /\ pending = {}
          /\ Range(fetched \o stored) \subseteq Range(objects)
          /\ \A o \in Range(objects) : Permitted(o) \/ o \in Range(fetched \o stored)
    /\ pc \in {"list"} \union Resolving /\ input.before = input.after /\ ~dropped =>
          \A o \in Visible : o \in Range(objects) \/ Owed(o)

(* The namespace of the command is always one to list.                     *)
LEMMA NamespacesAsked ==
    ASSUME TypesInv, RequestInv, pc \in Listing \union Resolving
    PROVE  input.ns \in nsSet /\ (isClusterScopeRequest <=> AllNamespaces \in namespaces)
<1>1. input.ns \in namespaces
  BY InputsAssumption DEF TypesInv, RequestInv, LineageNamespaces, HelmNamespaces
<1> QED  BY <1>1, InputsAssumption DEF TypesInv, nsSet, isClusterScopeRequest

(* Visible are the objects that are permitted.                             *)
LEMMA VisibleIsPermitted ==
    ASSUME TypesInv, RequestInv, pc \in Listing \union Resolving, NEW o \in ServedCopies
    PROVE  /\ o.class \in apis <=> Offered(o.class) /\ Includes(o.class) /\ ~Excludes(o.class)
           /\ (\E ns \in AskedScopes : Answers(o, ns)) <=> MayList(o.class, o.ns)
<1>1. o.class \in GetAPIResources(input.offers, input.failedGroups) <=> Offered(o.class)
  BY DEF GetAPIResources, Offered, IsDuplicate, CoreEvent, ExtensionsIngress
<1>2. ASSUME NEW filter
      PROVE  o.class \in ResourcesToGroupKindSet(filter) <=> Copies(o.class) \intersect filter # {}
  BY CopiesSymmetric DEF ResourcesToGroupKindSet
<1>3. o.class \in apis <=> Offered(o.class) /\ Includes(o.class) /\ ~Excludes(o.class)
  BY <1>1, <1>2 DEF apis, FilterAPIs, Includes, Excludes
<1>4. (\E ns \in AskedScopes : Answers(o, ns)) <=> MayList(o.class, o.ns)
  BY NamespacesAsked DEF AskedScopes, Answers, IsForbidden, ScopeOf, InScope, MayList, nsSet
<1> QED  BY <1>3, <1>4

LEMMA VisibleServed ==
    ASSUME TypesInv, NEW o
    PROVE  o \in Visible <=>
             /\ o \in ServedAs(o.class)
             /\ Offered(o.class) /\ MayList(o.class, o.ns)
             /\ Includes(o.class) /\ ~Excludes(o.class)
<1>1. ASSUME o \in Visible
      PROVE  /\ o \in ServedAs(o.class)
             /\ Offered(o.class) /\ MayList(o.class, o.ns)
             /\ Includes(o.class) /\ ~Excludes(o.class)
  <2>1. PICK x \in cluster : \E c \in Copies(x.class) :
                o = Served(x, c) /\ Offered(c) /\ MayList(c, x.ns) /\ Includes(c) /\ ~Excludes(c)
    BY <1>1 DEF Visible
  <2>2. PICK c \in Copies(x.class) :
                o = Served(x, c) /\ Offered(c) /\ MayList(c, x.ns) /\ Includes(c) /\ ~Excludes(c)
    BY <2>1
  <2>3. o.class = c /\ o.ns = x.ns
    BY <2>2, ClusterAssumption DEF TypesInv
  <2> QED  BY <2>2, <2>3, CopiesSymmetric DEF ServedAs
<1>2. ASSUME o \in ServedAs(o.class), Offered(o.class), MayList(o.class, o.ns),
             Includes(o.class), ~Excludes(o.class)
      PROVE  o \in Visible
  <2>1. PICK x \in cluster : x.class \in Copies(o.class) /\ o = Served(x, o.class)
    BY <1>2 DEF ServedAs
  <2>2. PICK c \in Copies(x.class) : c = o.class
    BY <2>1, CopiesSymmetric
  <2>3. o.ns = x.ns
    BY <2>1, <2>2, ClusterAssumption DEF TypesInv
  <2> QED  BY <1>2, <2>1, <2>2, <2>3 DEF Visible
<1> QED  BY <1>1, <1>2

LEMMA AskedUnchanged ==
    ASSUME UNCHANGED <<input, include, exclude, namespaces>>
    PROVE  /\ UNCHANGED <<apis, AskedScopes>>
           /\ \A o, ns : Answers(o, ns)' <=> Answers(o, ns)
           /\ \A o : Permitted(o)' <=> Permitted(o)
<1>1. UNCHANGED <<apis, AskedScopes>>
  BY DEF apis, AskedScopes, nsSet, isClusterScopeRequest
<1>2. \A o, ns : Answers(o, ns)' <=> Answers(o, ns)
  BY DEF Answers, IsForbidden
<1> QED  BY <1>1, <1>2 DEF Permitted

LEMMA VisibleUnchanged ==
    ASSUME TypesInv, UNCHANGED <<input, include, exclude, namespaces>>,
           cluster' \in {cluster, input.after}, input.before = input.after
    PROVE  UNCHANGED Visible
<1>1. UNCHANGED cluster
  BY DEF TypesInv
<1>2. \A c, ns : /\ Offered(c)' <=> Offered(c)
                 /\ MayList(c, ns)' <=> MayList(c, ns)
                 /\ Includes(c)' <=> Includes(c)
                 /\ Excludes(c)' <=> Excludes(c)
  BY DEF Offered, MayList, Includes, Excludes
<1>3. ASSUME NEW o
      PROVE  LET chosen == {x \in Copies(o.class) :
                                Offered(x) /\ MayList(x, o.ns) /\ Includes(x) /\ ~Excludes(x)}
             IN  chosen' = chosen
  BY <1>2
<1> QED  BY <1>1, <1>3 DEF Visible

LEMMA ListUnchanged ==
    ASSUME TypesInv, ListInv, UNCHANGED <<input, request, listing, objects>>,
           cluster' \in {cluster, input.after},
           \/ pc' \in {pc, "failed"}
           \/ pc \in Resolving /\ pc' \in Resolving
    PROVE  ListInv'
<1>1. UNCHANGED <<input, include, exclude, namespaces, fetched, stored, pending, dropped>>
  BY DEF request, listing
<1>2. \A o : Owed(o)' <=> Owed(o)
  BY <1>1, AskedUnchanged DEF Owed
<1>3. input.before = input.after => UNCHANGED Visible
  BY <1>1, VisibleUnchanged
<1> QED  BY <1>1, <1>2, <1>3, AskedUnchanged DEF ListInv, BeforeList, Resolving

LEMMA ListStarts ==
    ASSUME TypesInv, RequestInv, ListInv, StartListing
    PROVE  ListInv'
<1>1. /\ pc = "call" /\ pc' = "list" /\ objects = <<>> /\ objects' = <<>>
      /\ UNCHANGED <<input, cluster, include, exclude, namespaces>>
      /\ pending' = apis \X (IF isClusterScopeRequest THEN {AllNamespaces} ELSE nsSet)
  BY DEF StartListing, List!InitialScopes, AtStep, Goto, ListInv, BeforeList, request, graph, apis
<1>2. Range(<<>>) = {}
  BY DEF Range
<1>3. ASSUME input.before = input.after, NEW o \in Visible
      PROVE  Owed(o)'
  <2>1. o \in ServedCopies /\ o.class \in apis /\ \E ns \in AskedScopes : Answers(o, ns)
    BY <1>1, VisibleServed, VisibleIsPermitted, ServedAsTypes DEF TypesInv, Listing
  <2>2. CASE isClusterScopeRequest
    BY <1>1, <2>1, <2>2, InputsAssumption DEF Owed
  <2>3. CASE ~isClusterScopeRequest
    <3>1. PICK ns \in nsSet : Answers(o, ns)
      BY <2>1, <2>3 DEF AskedScopes
    <3>2. ns \in Namespace /\ Answers(o, ns)'
      BY <1>1, <3>1, AskedUnchanged DEF nsSet, TypesInv
    <3> QED  BY <1>1, <2>1, <2>3, <3>1, <3>2 DEF Owed
  <2> QED  BY <2>2, <2>3
<1>4. pending' \subseteq (apis \X AskedScopes)'
  BY <1>1, AskedUnchanged DEF AskedScopes
<1>5. input.before = input.after => UNCHANGED Visible
  BY <1>1, VisibleUnchanged
<1> QED  BY <1>1, <1>2, <1>3, <1>4, <1>5 DEF ListInv, BeforeList, Resolving

LEMMA ListAnswered ==
    ASSUME TypesInv, RequestInv, ListInv,
           NEW class \in Class, NEW ns \in Namespace, ListScope(class, ns)
    PROVE  ListInv'
<1> DEFINE answer == {o \in ServedAs(class) : InScope(o, ScopeOf(class, ns))}
<1>1. /\ pc = "list" /\ pc' = "list" /\ <<class, ns>> \in pending /\ ~IsForbidden(class, ns)
      /\ UNCHANGED <<input, cluster, include, exclude, namespaces, dropped>>
      /\ pending' = pending \ {<<class, ns>>}
  BY DEF ListScope, List!Take, List!ListScope, AtStep, Goto, request
<1>2. Range(objects') = Range(objects) \union answer
  BY ListTypes, RangeOfConcatenation DEF TypesInv, ListScope
<1>3. class \in apis /\ ns \in AskedScopes
  BY <1>1 DEF ListInv
<1>4. ASSUME NEW o \in answer
      PROVE  Permitted(o)
  <2>1. o.class = class
    BY ServedAsTypes DEF TypesInv
  <2> QED  BY <1>1, <1>3, <2>1 DEF Permitted, Answers
<1>5. ASSUME NEW o \in Visible, Owed(o), o \notin answer
      PROVE  Owed(o)'
  <2>1. PICK m \in Namespace : <<o.class, m>> \in pending /\ (m = AllNamespaces \/ Answers(o, m))
    BY <1>5 DEF Owed
  <2>2. CASE o.class = class /\ m = ns
    <3>1. o \in ServedAs(class)
      BY <2>2, VisibleServed
    <3>2. InScope(o, ScopeOf(class, ns))
      BY <2>1, <2>2 DEF Answers, InScope, ScopeOf
    <3> QED  BY <1>5, <3>1, <3>2
  <2>3. CASE ~(o.class = class /\ m = ns)
    <3>1. <<o.class, m>> \in pending'
      BY <1>1, <2>1, <2>3
    <3>2. Answers(o, m)' <=> Answers(o, m)
      BY <1>1, AskedUnchanged
    <3> QED  BY <2>1, <3>1, <3>2 DEF Owed
  <2> QED  BY <2>2, <2>3
<1>6. input.before = input.after => UNCHANGED Visible
  BY <1>1, VisibleUnchanged
<1> HIDE DEF answer
<1> QED  BY <1>1, <1>2, <1>4, <1>5, <1>6, AskedUnchanged DEF ListInv, BeforeList, Resolving

LEMMA ListSkipped ==
    ASSUME TypesInv, RequestInv, ListInv,
           NEW class \in Class, NEW ns \in Namespace, SkipForbidden(class, ns)
    PROVE  ListInv'
<1>1. /\ pc = "list" /\ pc' = "list" /\ <<class, ns>> \in pending /\ IsForbidden(class, ns)
      /\ UNCHANGED <<input, cluster, include, exclude, namespaces, dropped, objects>>
      /\ pending' = (pending \ {<<class, ns>>})
                       \union (IF ns = AllNamespaces THEN List!FallBack(class) ELSE {})
  BY DEF SkipForbidden, List!Take, List!SkipForbidden, AtStep, Goto, request, graph
<1>2. class \in apis
  BY <1>1 DEF ListInv
<1>3. List!FallBack(class) \subseteq apis \X AskedScopes
  BY <1>2 DEF List!FallBack, AskedScopes
<1>4. ASSUME NEW o \in Visible, Owed(o)
      PROVE  Owed(o)'
  <2>1. PICK m \in Namespace : <<o.class, m>> \in pending /\ (m = AllNamespaces \/ Answers(o, m))
    BY <1>4 DEF Owed
  <2>2. CASE o.class = class /\ m = ns
    <3>1. ns = AllNamespaces
      BY <1>1, <2>1, <2>2 DEF Answers
    <3>2. \E k \in AskedScopes : Answers(o, k)
      BY <1>1, VisibleServed, VisibleIsPermitted, ServedAsTypes DEF TypesInv, Listing
    <3>3. PICK k \in nsSet : Answers(o, k)
      BY <1>1, <2>2, <3>1, <3>2 DEF Answers, AskedScopes
    <3>4. class \in NamespacedClass
      BY <1>1, <2>2, <3>1, <3>3 DEF Answers, IsForbidden, ScopeOf
    <3>5. <<o.class, k>> \in pending'
      BY <1>1, <2>2, <3>1, <3>3, <3>4 DEF List!FallBack
    <3>6. k \in Namespace /\ Answers(o, k)'
      BY <1>1, <3>3, AskedUnchanged DEF nsSet, TypesInv
    <3> QED  BY <3>5, <3>6 DEF Owed
  <2>3. CASE ~(o.class = class /\ m = ns)
    <3>1. <<o.class, m>> \in pending'
      BY <1>1, <2>1, <2>3
    <3>2. Answers(o, m)' <=> Answers(o, m)
      BY <1>1, AskedUnchanged
    <3> QED  BY <2>1, <3>1, <3>2 DEF Owed
  <2> QED  BY <2>2, <2>3
<1>5. input.before = input.after => UNCHANGED Visible
  BY <1>1, VisibleUnchanged
<1> QED  BY <1>1, <1>3, <1>4, <1>5, AskedUnchanged DEF ListInv, BeforeList, Resolving

LEMMA ListLost ==
    ASSUME TypesInv, RequestInv, ListInv,
           NEW class \in Class, NEW ns \in Namespace, LoseFailure(class, ns)
    PROVE  ListInv'
<1>1. /\ pc = "list" /\ pc' = "list" /\ dropped' = TRUE
      /\ UNCHANGED <<input, include, exclude, namespaces, objects>> /\ pending' \subseteq pending
  BY DEF LoseFailure, List!Take, List!LoseFailure, AtStep, Goto, request, graph
<1> QED  BY <1>1, AskedUnchanged DEF ListInv, BeforeList, Resolving

LEMMA ListEnds ==
    ASSUME TypesInv, RequestInv, ListInv, StartGraph
    PROVE  ListInv'
<1>1. /\ pc = "list" /\ pc' \in {"resolved", "graph"} /\ pending = {} /\ pending' = {}
      /\ UNCHANGED <<input, cluster, include, exclude, namespaces, fetched, stored, dropped>>
      /\ objects' = objects \o fetched \o stored
  BY DEF StartGraph, List!Succeed, AtStep, Goto, request, listing, Appended
<1>2. Range(objects') = Range(objects) \union Range(fetched \o stored)
  <2>1. Range(fetched \o stored) = Range(fetched) \union Range(stored)
    BY RangeOfConcatenation DEF TypesInv
  <2>2. PICK s \in Seq(ServedCopies) :
              s = objects \o fetched /\ Range(s) = Range(objects) \union Range(fetched)
    BY RangeOfConcatenation DEF TypesInv
  <2>3. Range(s \o stored) = Range(s) \union Range(stored)
    BY RangeOfConcatenation DEF TypesInv
  <2> QED  BY <1>1, <2>1, <2>2, <2>3
<1>3. \A o : ~Owed(o)
  BY <1>1 DEF Owed
<1>4. input.before = input.after => UNCHANGED Visible
  BY <1>1, VisibleUnchanged
<1> QED  BY <1>1, <1>2, <1>3, <1>4, AskedUnchanged DEF ListInv, BeforeList, Resolving

LEMMA ListInvStep ==
    ASSUME TypesInv, RequestInv, ListInv, [Next]_vars
    PROVE  ListInv'
<1> USE DEF AtStep, Goto, Resolving, BeforeList
<1>1. CASE Quiet
  <2>1. CASE pc' \in {pc, "failed"}
    BY <1>1, <2>1, ListUnchanged DEF Quiet, graph
  <2>2. CASE pc' \in BeforeList /\ pc \in BeforeList
    BY <1>1, <2>2 DEF Quiet, ListInv, graph
  <2> QED  BY <1>1, <2>1, <2>2 DEF Quiet
<1>2. CASE ResolveTypes \/ GetRoot \/ SelectLineage
           \/ GetManifestObject \/ GetStorageObject \/ SelectHelm
  BY <1>2 DEF ResolveTypes, GetRoot, SelectLineage, GetManifestObject, GetStorageObject,
              SelectHelm, ListInv, graph
<1>3. CASE StartListing
  BY <1>3, ListStarts
<1>4. ASSUME NEW class \in Class, NEW ns \in Namespace,
             ListScope(class, ns) \/ SkipForbidden(class, ns) \/ LoseFailure(class, ns)
      PROVE  ListInv'
  BY <1>4, ListAnswered, ListSkipped, ListLost
<1>5. CASE StartGraph
  BY <1>5, ListEnds
<1>6. CASE GraphStep
  <2>1. UNCHANGED objects
    BY <1>6, GraphNext DEF GraphStep
  <2> QED  BY <1>6, <2>1, ListUnchanged DEF GraphStep
<1>7. CASE StartWalk \/ WalkStep \/ PrintLineage \/ PrintHelm
  BY <1>7, ListUnchanged DEF StartWalk, WalkStep, PrintLineage, PrintHelm, graph
<1> QED  BY Steps, <1>1, <1>2, <1>3, <1>4, <1>5, <1>6, <1>7

(***************************************************************************)
(* The inductive invariant.                                                *)
(***************************************************************************)
CommandInv == TypesInv /\ RequestInv /\ PartsInv /\ PrintInv /\ ListInv

LEMMA CommandInvInit == Init => CommandInv
<1> SUFFICES ASSUME Init
             PROVE  CommandInv
  OBVIOUS
<1> USE DEF Init, Listing, Resolving, BeforeList
<1>1. TypesInv
  <2>1. <<>> \in Seq(ServedCopies) /\ Len(<<>>) = 0
    OBVIOUS
  <2>2. /\ fetched \in Seq(ServedCopies) /\ stored \in Seq(ServedCopies)
        /\ objects \in Seq(ServedCopies)
    BY <2>1
  <2>3. Len(stored) <= 1
    BY <2>1
  <2>4. /\ input \in Inputs /\ cluster \in {input.before, input.after}
        /\ include \union exclude \subseteq KnownTypes
        /\ namespaces \subseteq Namespace /\ pending \union listed \subseteq Class \X Namespace
        /\ dropped \in BOOLEAN /\ pc = "start"
    OBVIOUS
  <2> QED  BY <2>2, <2>3, <2>4 DEF TypesInv
<1>2. RequestInv /\ PartsInv /\ PrintInv
  BY DEF RequestInv, PartsInv, PrintInv, GraphIdle, WalkIdle
<1>3. ListInv
  BY DEF ListInv
<1> QED  BY <1>1, <1>2, <1>3 DEF CommandInv

THEOREM CommandInvariant == Spec => []CommandInv
<1>1. CommandInv /\ [Next]_vars => CommandInv'
  BY TypesStep, RequestStep, PartsStep, PrintStep, ListInvStep DEF CommandInv
<1> QED  BY <1>1, CommandInvInit, PTL DEF Spec

(* The types of the variables, in every state of a command: what the parts *)
(* are given is what their theorems assume.                                *)
THEOREM TypeCorrect == Spec => []TypeOK
<1>1. CommandInv => TypeOK
  <2> SUFFICES ASSUME CommandInv
               PROVE  TypeOK
    OBVIOUS
  <2>1. objects \in Seq(Graph!Manifest)
    BY ServedTypes DEF CommandInv, TypesInv
  <2>2. pc = "walk" => uids \in Seq(Uid) /\ Leads \in [DOMAIN byUID -> SUBSET DOMAIN byUID]
    BY LeadsTypes, RequestedUIDs DEF CommandInv, PartsInv, Resolving
  <2> QED  BY <2>1, <2>2 DEF TypeOK, CommandInv, TypesInv, Listing, Resolving
<1> QED  BY <1>1, CommandInvariant, PTL

(* In a cluster that does not change, a command lists what the user may    *)
(* see, all of it unless a failure was lost, and nothing else.             *)
THEOREM ListsTheVisible == Spec => []ListedIsVisible
<1>1. CommandInv => ListedIsVisible
  <2> SUFFICES ASSUME CommandInv, Printed, input.before = input.after
               PROVE  /\ Range(objects) \subseteq Visible \union Range(fetched \o stored)
                      /\ ~dropped => Visible \subseteq Range(objects)
    BY DEF ListedIsVisible
  <2>1. /\ pending = {}
        /\ \A o \in Range(objects) : Permitted(o) \/ o \in Range(fetched \o stored)
        /\ ~dropped => \A o \in Visible : o \in Range(objects) \/ Owed(o)
    BY DEF CommandInv, ListInv, Printed, Resolving
  <2>2. ASSUME NEW o \in ServedCopies, Permitted(o)
        PROVE  o \in Visible
    <3>1. o \in ServedAs(o.class)
      <4>1. PICK x \in cluster : \E c \in Copies(x.class) : o = Served(x, c)
        BY DEF CommandInv, TypesInv, ServedCopies
      <4>2. PICK c \in Copies(x.class) : o = Served(x, c)
        BY <4>1
      <4>3. o.class = c
        BY <4>2, ClusterAssumption DEF CommandInv, TypesInv
      <4> QED  BY <4>2, <4>3, CopiesSymmetric DEF ServedAs
    <3> QED  BY <2>2, <3>1, VisibleServed, VisibleIsPermitted
             DEF Permitted, CommandInv, Printed, Resolving
  <2>3. Range(objects) \subseteq ServedCopies
    BY RangeOfSequence DEF CommandInv, TypesInv
  <2> QED  BY <2>1, <2>2, <2>3 DEF Owed
<1> QED  BY <1>1, CommandInvariant, PTL

(***************************************************************************)
(* The result.                                                             *)
(***************************************************************************)
(* What the walk has resolved when a command has printed: the smallest set *)
(* that holds the objects asked about and that is closed, with distances.  *)
(* With nothing asked about, there has been no walk and the set is empty.  *)
LEMMA ResultOfWalk ==
    ASSUME CommandInv, Printed
    PROVE  /\ nodeMap \subseteq DOMAIN byUID /\ nodeMap \subseteq Uid /\ Subjects \subseteq nodeMap
           /\ \A u \in nodeMap : nodeDepth[u] \in Nat /\ Leads[u] \subseteq nodeMap
           /\ \A u \in nodeMap : \A v \in Leads[u] : nodeDepth[v] <= nodeDepth[u] + 1
           /\ \A u \in Subjects : nodeDepth[u] = 0
           /\ \A v \in nodeMap :
                 \/ v \in Subjects
                 \/ \E u \in nodeMap : v \in Leads[u] /\ nodeDepth[u] + 1 = nodeDepth[v]
           /\ \A S : Subjects \subseteq S /\ (\A u \in S \intersect nodeMap : Leads[u] \subseteq S)
                    => nodeMap \subseteq S
<1>1. /\ uids = UIDsOf(fetched \o stored)
      /\ \/ fetched \o stored = <<>> /\ nodeMap = {}
         \/ GraphInv /\ gpc = "built" /\ WalkInv /\ wpc = "done"
  BY DEF CommandInv, PartsInv, Printed, Resolving
<1>2. CASE fetched \o stored = <<>> /\ nodeMap = {}
  <2>1. Subjects = {}
    BY <1>2 DEF Subjects, Range
  <2> QED  BY <1>2, <2>1
<1>3. CASE GraphInv /\ gpc = "built" /\ WalkInv /\ wpc = "done"
  <2>1. Subjects \subseteq DOMAIN byUID
    <3>1. ASSUME NEW o \in Range(fetched \o stored)
          PROVE  o.uid \in DOMAIN byUID
      <4>1. PICK n \in DOMAIN objects : o = objects[n]
        BY DEF CommandInv, ListInv, Printed, Resolving, Range
      <4>2. n \in 1 .. gix - 1
        BY <1>3, GraphAssumption, GP!NodeTypes DEF GraphInv, GP!Indexed, GP!Nodes
      <4> QED  BY <1>3, <4>1, <4>2 DEF GraphInv, GP!Indexed, GP!UIDsOf
    <3> QED  BY <3>1 DEF Subjects
  <2>2. WP!Known = DOMAIN byUID
    BY DEF WP!Known, Leads
  <2>3. WP!Roots = Subjects
    BY <1>1, <2>1, <2>2, RequestedUIDs DEF WP!Roots, WP!Range, Range, CommandInv
  <2>4. /\ nodeMap \subseteq DOMAIN byUID /\ DOMAIN byUID \subseteq Uid
        /\ nodeDepth \in [DOMAIN byUID -> Nat]
    BY <1>3, <2>2 DEF WalkInv, WP!TypeOK
  <2>5. /\ Subjects \subseteq nodeMap /\ nodeMap = seen
        /\ \A r \in Subjects : nodeDepth[r] = 0
        /\ \A u \in seen : WP!Justified(u, nodeDepth[u])
        /\ \A u \in seen : \A v \in Leads[u] : v \in seen /\ nodeDepth[v] <= nodeDepth[u] + 1
        /\ WP!OnlyReachable
    BY <1>3, <2>3 DEF WalkInv, WP!QueueAccountsForAll
  <2>6. \A v \in nodeMap : \/ v \in Subjects
                          \/ \E u \in nodeMap : v \in Leads[u] /\ nodeDepth[u] + 1 = nodeDepth[v]
    BY <2>3, <2>5 DEF WP!Justified
  <2>7. ASSUME NEW S, Subjects \subseteq S, \A u \in S \intersect nodeMap : Leads[u] \subseteq S
        PROVE  nodeMap \subseteq S
    <3> DEFINE T == S \intersect nodeMap
    <3>1. T \in SUBSET WP!Known /\ WP!Roots \subseteq T
      BY <2>2, <2>3, <2>4, <2>5, <2>7
    <3>2. WP!Closed(T)
      BY <2>5, <2>7 DEF WP!Closed
    <3> QED  BY <2>5, <3>1, <3>2 DEF WP!OnlyReachable
  <2> QED  BY <2>4, <2>5, <2>6, <2>7
<1> QED  BY <1>1, <1>2, <1>3

(* The tree that is printed: that of the walk, under the node of a release *)
(* with the helm command.                                                  *)
LEMMA PrintedTree ==
    ASSUME CommandInv, Printed
    PROVE  /\ Shown = nodeMap /\ ReleaseUID \notin nodeMap
           /\ DOMAIN tree.deps = {tree.root} \union nodeMap
           /\ \A u \in nodeMap : tree.deps[u] = Leads[u]
           /\ \/ /\ input.cmd = "lineage" /\ Subjects = {tree.root} /\ tree.root \in nodeMap
                 /\ \A u \in nodeMap : tree.depth[u] = nodeDepth[u]
              \/ /\ input.cmd = "helm" /\ tree.root = ReleaseUID
                 /\ tree.deps[tree.root] = Subjects /\ tree.depth[tree.root] = 0
                 /\ \A u \in nodeMap : tree.depth[u] = nodeDepth[u] + 1
<1>1. ReleaseUID \notin nodeMap
  BY ResultOfWalk, InputsAssumption
<1>2. CASE input.cmd = "lineage"
  <2>1. tree = LineageTree /\ fetched[1].uid \in nodeMap
    BY <1>2 DEF CommandInv, PrintInv, Printed
  <2>2. stored = <<>> /\ Len(fetched) = 1
    BY <1>2 DEF CommandInv, RequestInv, Printed, Resolving
  <2>3. Subjects = {fetched[1].uid}
    <3>1. Range(fetched \o stored) = Range(fetched) \union Range(stored)
      BY RangeOfConcatenation DEF CommandInv, TypesInv
    <3>2. Range(fetched) = {fetched[1]}
      <4>1. DOMAIN fetched = 1 .. 1
        BY <2>2, LenProperties DEF CommandInv, TypesInv
      <4> QED  BY <4>1 DEF Range
    <3>3. Range(stored) = {}
      BY <2>2 DEF Range
    <3> QED  BY <3>1, <3>2, <3>3 DEF Subjects
  <2> QED  BY <1>1, <1>2, <2>1, <2>3 DEF LineageTree, Shown
<1>3. CASE input.cmd = "helm"
  <2>1. tree = HelmTree
    BY <1>3 DEF CommandInv, PrintInv, Printed
  <2>2. ReleaseDependents = Subjects
    BY RequestedUIDs DEF ReleaseDependents, CommandInv
  <2>3. /\ tree.root = ReleaseUID
        /\ tree.deps = [u \in {ReleaseUID} \union nodeMap |->
                           IF u = ReleaseUID THEN Subjects ELSE Leads[u]]
        /\ tree.depth = [u \in {ReleaseUID} \union nodeMap |->
                            IF u = ReleaseUID THEN 0 ELSE nodeDepth[u] + 1]
    BY <1>1, <2>1, <2>2 DEF HelmTree, Deepen, WithRelease
  <2> QED  BY <1>1, <1>3, <2>3 DEF Shown
<1> QED  BY <1>2, <1>3, InputsAssumption DEF CommandInv, TypesInv

(* What a command prints is a map that holds the root and every node that  *)
(* a relationship leads to.                                                *)
THEOREM TreesArePrintable == Spec => []TreeIsPrintable
<1>1. CommandInv => TreeIsPrintable
  <2> SUFFICES ASSUME CommandInv, Printed
               PROVE  /\ tree.root \in DOMAIN tree.deps
                      /\ \A u \in DOMAIN tree.deps : tree.deps[u] \subseteq DOMAIN tree.deps
    BY DEF TreeIsPrintable
  <2> QED  BY ResultOfWalk, PrintedTree
<1> QED  BY <1>1, CommandInvariant, PTL

(* The Depth of every node is its distance from what is printed on top.    *)
THEOREM DepthIsDistance == Spec => []DepthsAreDistances
<1>1. CommandInv => DepthsAreDistances
  <2> SUFFICES ASSUME CommandInv, Printed
               PROVE  /\ \A u \in DOMAIN tree.deps : tree.depth[u] = 0 <=> u = tree.root
                      /\ \A u \in DOMAIN tree.deps : \A v \in tree.deps[u] :
                            tree.depth[v] <= tree.depth[u] + 1
                      /\ \A v \in DOMAIN tree.deps \ {tree.root} :
                            \E u \in DOMAIN tree.deps :
                                v \in tree.deps[u] /\ tree.depth[v] = tree.depth[u] + 1
    BY DEF DepthsAreDistances
  <2>1. CASE input.cmd = "lineage"
    BY <2>1, ResultOfWalk, PrintedTree
  <2>2. CASE input.cmd = "helm"
    BY <2>2, ResultOfWalk, PrintedTree
  <2> QED  BY <2>1, <2>2, InputsAssumption DEF CommandInv, TypesInv
<1> QED  BY <1>1, CommandInvariant, PTL

(* Only objects enter the result by a UID: never by another name of a      *)
(* cluster node, as long as that is nobody's UID.                          *)
LEMMA ShownByUID ==
    ASSUME CommandInv, Printed, NEW u \in nodeMap,
           \A n, m \in DOMAIN objects : objects[n].uid \notin Graph!Aliases(objects[m])
    PROVE  GraphInv /\ gpc = "built" /\ byUID[u] \in DOMAIN objects /\ objects[byUID[u]].uid = u
<1> DEFINE Known == {v \in DOMAIN byUID : \E n \in DOMAIN objects : objects[n].uid = v}
<1>1. GraphInv /\ gpc = "built"
  BY DEF CommandInv, PartsInv, Printed
<1>2. nodeMap \subseteq Known
  <2>1. Subjects \subseteq Known
    <3>1. ASSUME NEW o \in Range(fetched \o stored)
          PROVE  \E n \in DOMAIN objects : objects[n] = o
      BY DEF CommandInv, ListInv, Printed, Resolving, Range
    <3>2. Subjects \subseteq DOMAIN byUID
      BY ResultOfWalk
    <3> QED  BY <3>1, <3>2 DEF Subjects
  <2>2. \A v \in Known : Leads[v] \subseteq Known
    BY <1>1, LeadsTypes
  <2> HIDE DEF Known
  <2> QED  BY <2>1, <2>2, ResultOfWalk
<1>3. PICK n \in DOMAIN objects : objects[n].uid = u
  BY <1>2
<1>4. byUID[u] \in DOMAIN objects /\ u \in GP!UIDsOf(objects[byUID[u]])
  <2>1. u \in DOMAIN byUID
    BY <1>2
  <2> QED  BY <1>1, <2>1, GraphAssumption, GP!NodeTypes DEF GraphInv, GP!MapsAgree, GP!Nodes
<1>5. u \notin Graph!Aliases(objects[byUID[u]])
  BY <1>3, <1>4
<1> QED  BY <1>1, <1>4, <1>5 DEF GP!UIDsOf, GP!Aliases, Graph!Aliases

(* Shown are only the objects asked about and those in the namespaces and  *)
(* of the types that were requested.                                       *)
THEOREM ShowsOnlyRequested == Spec => []OnlyRequestedShown
<1>1. CommandInv => OnlyRequestedShown
  <2> DEFINE wide == \/ input.allNamespaces
                     \/ AllNamespaces \in input.scopes
                     \/ input.cmd = "helm"
                        /\ \E x \in Range(fetched) : x.class \notin NamespacedClass
             Home == {input.ns} \union {x.ns : x \in Range(fetched)} \union input.scopes
  <2> SUFFICES ASSUME CommandInv, Printed, NEW u \in Shown, NEW o, o = ManifestOf(u)
               PROVE  /\ u \in Subjects \/ wide \/ o.class \notin NamespacedClass \/ o.ns \in Home
                      /\ \/ Includes(o.class) /\ ~Excludes(o.class)
                         \/ input.cmd = "lineage" /\ u \in Subjects
    BY Zenon DEF OnlyRequestedShown
  <2>1. o \in Range(objects) /\ o.uid = u
    <3>1. \A n \in DOMAIN objects : objects[n] \in ServedCopies
      BY RangeOfSequence DEF Range, CommandInv, TypesInv
    <3>2. ASSUME NEW x \in ServedCopies, NEW y \in ServedCopies
          PROVE  x.uid \notin Graph!Aliases(y)
      <4>1. PICK a \in input.before \union input.after : \E c \in Copies(a.class) : x = Served(a, c)
        BY DEF ServedCopies
      <4>2. PICK b \in input.before \union input.after : \E d \in Copies(b.class) : y = Served(b, d)
        BY DEF ServedCopies
      <4> QED  BY <4>1, <4>2, UidsAssumption DEF CommandInv, TypesInv
    <3>3. u \in nodeMap
      BY PrintedTree
    <3> QED  BY <3>1, <3>2, <3>3, ShownByUID DEF ManifestOf, Range
  <2>2. o \in ServedCopies
    BY <2>1, RangeOfSequence DEF CommandInv, TypesInv
  <2>3. pc \in Resolving /\ (Permitted(o) \/ o \in Range(fetched \o stored))
    BY <2>1 DEF CommandInv, ListInv, Printed, Resolving
  <2>4. CASE Permitted(o)
    <3>1. Includes(o.class) /\ ~Excludes(o.class)
      BY <2>2, <2>3, <2>4, VisibleIsPermitted DEF Permitted, CommandInv
    <3>2. PICK ns \in AskedScopes : Answers(o, ns)
      BY <2>4 DEF Permitted
    <3>3. /\ input.cmd = "lineage" => namespaces = LineageNamespaces
          /\ input.cmd = "helm" => namespaces = HelmNamespaces(fetched)
      BY <2>3 DEF CommandInv, RequestInv
    <3>4. input.cmd \in {"lineage", "helm"} /\ input.ns # AllNamespaces
      BY InputsAssumption DEF CommandInv, TypesInv
    <3>5. CASE ns = AllNamespaces
      <4>1. AllNamespaces \in namespaces
        BY <2>3, <3>2, <3>5, NamespacesAsked DEF AskedScopes, nsSet, CommandInv
      <4>2. \A x \in Range(fetched) : x.ns = AllNamespaces => x.class \notin NamespacedClass
        BY RangeOfSequence, ServedTypes DEF CommandInv, TypesInv
      <4>3. wide
        BY <3>3, <3>4, <4>1, <4>2 DEF LineageNamespaces, HelmNamespaces
      <4> QED  BY <3>1, <4>3
    <3>6. CASE ns # AllNamespaces
      <4>1. ns \in namespaces
        BY <3>2, <3>6 DEF AskedScopes, nsSet
      <4>2. ns \in Home
        BY <3>3, <3>4, <3>6, <4>1 DEF LineageNamespaces, HelmNamespaces
      <4>3. o.class \notin NamespacedClass \/ o.ns = ns
        BY <3>2, <3>6 DEF Answers, InScope, ScopeOf
      <4> QED  BY <3>1, <4>2, <4>3
    <3> QED  BY <3>5, <3>6
  <2>5. CASE o \in Range(fetched \o stored)
    <3>1. u \in Subjects
      BY <2>1, <2>5 DEF Subjects
    <3>2. CASE input.cmd = "helm"
      <4>1. Range(fetched \o stored) = Range(fetched) \union Range(stored)
        BY RangeOfConcatenation DEF CommandInv, TypesInv
      <4>2. Selects(o)
        BY <2>3, <2>5, <3>2, <4>1 DEF CommandInv, RequestInv
      <4>3. Includes(o.class) /\ ~Excludes(o.class)
        BY <4>2, CopiesSymmetric DEF Selects, ResourcesToGroupKindSet, Includes, Excludes
      <4> QED  BY <3>1, <4>3
    <3> QED  BY <3>1, <3>2, InputsAssumption DEF CommandInv, TypesInv
  <2> QED  BY <2>3, <2>4, <2>5
<1> QED  BY <1>1, CommandInvariant, PTL

(* What the manifests declare is the same for the command and for the      *)
(* theorems about its parts.                                               *)
LEMMA SameDeclared ==
    /\ Graph!Consistent <=> GP!Consistent
    /\ Graph!Latest = GP!Latest
    /\ \A n, m, r : Graph!DependsOn(n, m, r) <=> GP!DependsOn(n, m, r)
<1>1. Graph!Consistent <=> GP!Consistent
  BY Zenon DEF Graph!Consistent, GP!Consistent, Graph!Nodes, GP!Nodes, Graph!KeyOf, GP!KeyOf,
               Graph!Aliases, GP!Aliases
<1>2. Graph!Latest = GP!Latest
  BY Zenon DEF Graph!Latest, GP!Latest, Graph!Nodes, GP!Nodes
<1>3. ASSUME NEW e, NEW n
      PROVE  Graph!RefersTo(e, n) <=> GP!RefersTo(e, n)
  BY <1>2, Zenon DEF Graph!RefersTo, GP!RefersTo, Graph!IsLast, GP!IsLast, Graph!KeyOf, GP!KeyOf,
                     Graph!UIDsOf, GP!UIDsOf, Graph!Aliases, GP!Aliases, Graph!Nodes, GP!Nodes
<1>4. ASSUME NEW n, NEW m, NEW r
      PROVE  Graph!Owns(n, m, r) <=> GP!Owns(n, m, r)
  BY <1>3 DEF Graph!Owns, GP!Owns
<1>5. ASSUME NEW n, NEW dir, NEW m, NEW r
      PROVE  Graph!Declares(n, dir, m, r) <=> GP!Declares(n, dir, m, r)
  BY <1>3 DEF Graph!Declares, GP!Declares
<1> QED  BY <1>1, <1>2, <1>4, <1>5 DEF Graph!DependsOn, GP!DependsOn

LEMMA LeadsAreDeclared ==
    ASSUME CommandInv, Printed, Graph!Consistent, NEW u \in nodeMap
    PROVE  Leads[u] = DeclaredLeads(u)
<1> DEFINE n == byUID[u]
           Links == GP!Latest \X Relationship
           Named(links) == {<<objects[x[1]].uid, x[2]>> : x \in links}
<1>1. GraphInv /\ gpc = "built" /\ n \in DOMAIN objects /\ objects[n].uid = u /\ u \in DOMAIN byUID
  BY ShownByUID, ResultOfWalk DEF Graph!Consistent, Graph!Nodes
<1>2. GP!Consistent /\ GP!GraphIsDeclared
  BY <1>1, SameDeclared, GraphAssumption, GP!DeclaredIfTraced DEF GraphInv
<1>3. n \in GP!Latest
  <2>1. gix = Len(objects) + 1
    BY <1>1 DEF GraphInv, GP!Indexed
  <2>2. GP!Range(byUID) = GP!Latest
    BY <1>1, <1>2, <2>1, GraphAssumption, GP!PlacedIsLatest DEF GraphInv
  <2> QED  BY <1>1, <2>2 DEF GP!Range
<1>4. /\ dependencies[n] = Named({x \in Links : GP!DependsOn(n, x[1], x[2])})
      /\ dependents[n] = Named({x \in Links : GP!DependsOn(x[1], n, x[2])})
  BY <1>1, <1>2, <1>3, Zenon DEF GP!GraphIsDeclared
<1>5. \A m \in GP!Latest : objects[m].uid = u => m = n
  <2>1. GP!Latest \subseteq Nat
    BY <1>1, GraphAssumption, GP!NodeTypes DEF GraphInv, GP!Latest
  <2> QED  BY <1>1, <1>3, <2>1 DEF GP!Latest
<1>6. \A v : v \in DeclaredLeads(u) <=>
         \E m \in GP!Latest, r \in Relationship :
            /\ v = objects[m].uid
            /\ IF depsIsDependencies THEN GP!DependsOn(n, m, r) ELSE GP!DependsOn(m, n, r)
  BY <1>1, <1>3, <1>5, SameDeclared DEF DeclaredLeads
<1>7. \A v : v \in Leads[u] <=>
         \E e \in (IF depsIsDependencies THEN dependencies ELSE dependents)[n] : v = e[1]
  BY <1>1 DEF Leads
<1>8. ASSUME NEW links \in SUBSET Links
      PROVE  \A v : (\E e \in Named(links) : v = e[1]) <=>
                \E m \in GP!Latest, r \in Relationship : <<m, r>> \in links /\ v = objects[m].uid
  <2>1. ASSUME NEW m \in GP!Latest, NEW r \in Relationship, <<m, r>> \in links
        PROVE  <<objects[m].uid, r>> \in Named(links)
    BY <2>1
  <2>2. ASSUME NEW e \in Named(links)
        PROVE  \E m \in GP!Latest, r \in Relationship : <<m, r>> \in links /\
                   e = <<objects[m].uid, r>>
    <3>1. PICK x \in links : e = <<objects[x[1]].uid, x[2]>>
      OBVIOUS
    <3>2. x = <<x[1], x[2]>> /\ x[1] \in GP!Latest /\ x[2] \in Relationship
      OBVIOUS
    <3> QED  BY <3>1, <3>2
  <2> HIDE DEF Links, Named, n
  <2> TAKE v
  <2>3. ASSUME \E e \in Named(links) : v = e[1]
        PROVE  \E m \in GP!Latest, r \in Relationship : <<m, r>> \in links /\ v = objects[m].uid
    <3>1. PICK e \in Named(links) : v = e[1]
      BY <2>3
    <3>2. PICK m \in GP!Latest, r \in Relationship : <<m, r>> \in links /\ e = <<objects[m].uid, r>>
      BY <2>2
    <3> QED  BY <3>1, <3>2
  <2>4. ASSUME NEW m \in GP!Latest, NEW r \in Relationship, <<m, r>> \in links, v = objects[m].uid
        PROVE  \E e \in Named(links) : v = e[1]
    <3> DEFINE e == <<objects[m].uid, r>>
    <3>1. e \in Named(links)
      BY <2>1, <2>4
    <3>2. v = e[1]
      BY <2>4
    <3> HIDE DEF e
    <3> QED  BY <3>1, <3>2
  <2> QED  BY <2>3, <2>4
<1> DEFINE Out == {x \in Links : GP!DependsOn(n, x[1], x[2])}
           In == {x \in Links : GP!DependsOn(x[1], n, x[2])}
<1>9. ASSUME NEW m \in GP!Latest, NEW r \in Relationship
      PROVE  /\ <<m, r>> \in Out <=> GP!DependsOn(n, m, r)
             /\ <<m, r>> \in In <=> GP!DependsOn(m, n, r)
  OBVIOUS
<1>10. Out \in SUBSET Links /\ In \in SUBSET Links
  OBVIOUS
<1>15. dependencies[n] = Named(Out) /\ dependents[n] = Named(In)
  BY <1>4
<1> HIDE DEF n, Links, Named, Out, In
<1>11. \A v : (\E e \in dependencies[n] : v = e[1]) <=>
          \E m \in GP!Latest, r \in Relationship : v = objects[m].uid /\ GP!DependsOn(n, m, r)
  <2>1. \A v : (\E e \in Named(Out) : v = e[1]) <=>
           \E m \in GP!Latest, r \in Relationship : <<m, r>> \in Out /\ v = objects[m].uid
    BY <1>8, <1>10
  <2>2. \A m \in GP!Latest, r \in Relationship : <<m, r>> \in Out <=> GP!DependsOn(n, m, r)
    BY <1>9
  <2>3. \A v : (\E e \in dependencies[n] : v = e[1]) <=> (\E e \in Named(Out) : v = e[1])
    BY <1>15, Zenon
  <2> HIDE DEF Named
  <2> QED  BY <2>1, <2>2, <2>3, Zenon
<1>12. \A v : (\E e \in dependents[n] : v = e[1]) <=>
          \E m \in GP!Latest, r \in Relationship : v = objects[m].uid /\ GP!DependsOn(m, n, r)
  <2>1. \A v : (\E e \in Named(In) : v = e[1]) <=>
           \E m \in GP!Latest, r \in Relationship : <<m, r>> \in In /\ v = objects[m].uid
    BY <1>8, <1>10
  <2>2. \A m \in GP!Latest, r \in Relationship : <<m, r>> \in In <=> GP!DependsOn(m, n, r)
    BY <1>9
  <2>3. \A v : (\E e \in dependents[n] : v = e[1]) <=> (\E e \in Named(In) : v = e[1])
    BY <1>15, Zenon
  <2> HIDE DEF Named
  <2> QED  BY <2>1, <2>2, <2>3, Zenon
<1>13. CASE depsIsDependencies
  BY <1>6, <1>7, <1>11, <1>13
<1>14. CASE ~depsIsDependencies
  BY <1>6, <1>7, <1>12, <1>14
<1> QED  BY <1>13, <1>14

(* What the commands promise: shown are the objects asked about and those  *)
(* they reach through the relationships that the manifests declare.        *)
THEOREM ShowsTheLineage == Spec => []ResultIsLineage
<1>1. CommandInv => ResultIsLineage
  <2> DEFINE Closed(S) == \A u \in S : DeclaredLeads(u) \subseteq S
  <2> SUFFICES ASSUME CommandInv, Printed, Graph!Consistent
               PROVE  /\ Subjects \subseteq Shown
                      /\ Closed(Shown)
                      /\ \A S \in SUBSET Shown : Subjects \subseteq S /\ Closed(S) => S = Shown
    BY Zenon DEF ResultIsLineage
  <2>1. Shown = nodeMap
    BY PrintedTree
  <2>2. \A u \in nodeMap : Leads[u] = DeclaredLeads(u)
    BY LeadsAreDeclared
  <2>3. Subjects \subseteq nodeMap /\ \A u \in nodeMap : Leads[u] \subseteq nodeMap
    BY ResultOfWalk
  <2>4. ASSUME NEW S \in SUBSET nodeMap, Subjects \subseteq S, Closed(S)
        PROVE  nodeMap \subseteq S
    <3>1. \A u \in S \intersect nodeMap : Leads[u] \subseteq S
      BY <2>2, <2>4
    <3> QED  BY <2>4, <3>1, ResultOfWalk
  <2> QED  BY <2>1, <2>2, <2>3, <2>4
<1> QED  BY <1>1, CommandInvariant, PTL
=============================================================================
